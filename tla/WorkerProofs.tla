---------------------------- MODULE WorkerProofs ----------------------------
(***************************************************************************)
(* Proofs about the background threads and tasks, Schedulers, GhostMachine,*)
(* Notifications and EventQueue, for any number of callers, loops, trials, *)
(* symbols, users, connections, instances, threads and sizes.              *)
(***************************************************************************)
EXTENDS Schedulers, GhostMachine, Notifications, EventQueue, FiniteSetTheorems, SequenceTheorems, TLAPS

-----------------------------------------------------------------------------
(* The inductive invariant behind LoopsControlled. Loops are numbered in    *)
(* the order of their starts; one that lives is the one the object knows,   *)
(* or was given up on.                                                      *)
Numbered == \A l \in Loops : loop[l] # "none" <=> l < NextLoop
Known    == \A l \in Alive : l \in abandoned \/ l = thread
Kept     == kind \in {"trainer", "market"} => \A l \in Alive : l = thread
EventSet == /\ thread = 0 /\ Alive # {} => event
            /\ \A c \in Callers : caller[c].pc = "join" /\ thread # 0 => event
OneCycle == ~overlapped => \A v, w \in Workers : cycle[v] # "none" /\ cycle[w] # "none" => v = w
Judged   == /\ \A w \in Workers : cycle[w] \in {"validate", "promote"} => best > 0
            /\ ~overlapped => \A w \in Workers : cycle[w] = "promote" => best \in validated

CycleInv == OneCycle /\ Judged /\ PromotedWasValidated
LoopInv  == Numbered /\ Known /\ Kept /\ EventSet /\ StatusTrue
SchedInv == SchedTypeOK /\ LoopInv /\ CycleInv

(* The invariant holds when nothing has been started.                       *)
LEMMA SchedInvInit == SchedInit => SchedInv
  <1> SUFFICES ASSUME SchedInit PROVE SchedInv
    OBVIOUS
  <1> USE SchedAssumption DEF SchedInit
  <1>1. SchedTypeOK
    <2>1. caller \in [Callers -> [pc : {"idle", "stop", "join", "cycle"}, timed : BOOLEAN]]
          /\ \A c \in Callers : caller[c].pc = "idle" /\ holder # c
      BY DEF NoCall
    <2>2. loop \in [Loops -> {"none", "begin", "wait", "work", "store", "end", "dead"}]
          /\ cycle \in [Workers -> {"none", "search", "validate", "promote"}]
      OBVIOUS
    <2>3. thread \in 0 .. MaxLoops /\ {best, trials, promoted} \subseteq 0 .. MaxTrials
      OBVIOUS
    <2> QED BY <2>1, <2>2, <2>3 DEF SchedTypeOK
  <1>2. Alive = {} /\ {l \in Loops : loop[l] # "none"} = {}
    BY DEF Alive
  <1>3. NextLoop = 1
    BY <1>2, FS_EmptySet DEF NextLoop
  <1>4. \A c \in Callers : caller[c].pc = "idle"
    BY DEF NoCall
  <1>5. Numbered
    BY <1>3 DEF Numbered, Loops
  <1>6. LoopInv
    BY <1>2, <1>4, <1>5 DEF LoopInv, Known, Kept, EventSet, StatusTrue
  <1>7. CycleInv
    BY DEF CycleInv, OneCycle, Judged, PromotedWasValidated
  <1> QED BY <1>1, <1>6, <1>7 DEF SchedInv

(* The number of the next loop is new.                                      *)
LEMMA NextLoopFresh ==
  ASSUME SchedInv, NextLoop \in Loops
  PROVE  loop[NextLoop] = "none" /\ NextLoop # 0
  BY DEF SchedInv, LoopInv, Numbered, Loops

(* A step that starts no loop keeps the numbering.                          *)
LEMMA NumbersKept ==
  ASSUME SchedInv, \A l \in Loops : loop'[l] = "none" <=> loop[l] = "none"
  PROVE  Numbered'
  <1>1. {l \in Loops : loop'[l] # "none"} = {l \in Loops : loop[l] # "none"}
    OBVIOUS
  <1>2. NextLoop' = NextLoop
    BY <1>1 DEF NextLoop
  <1> QED BY <1>2 DEF SchedInv, LoopInv, Numbered

(* start() makes a new loop with a fresh event; the old ones are over.      *)
LEMMA StartStep ==
  ASSUME SchedInv, NEW c \in Callers, Start(c)
  PROVE  SchedInv'
  <1> DEFINE n == NextLoop
  <1>1. /\ SchedTypeOK /\ holder = NoCaller /\ thread \notin Alive /\ n \in Loops /\ event' = FALSE /\ thread' = n
        /\ loop' = [loop EXCEPT ![n] = "begin"] /\ flag' = (flag \/ kind = "automl")
        /\ UNCHANGED <<kind, holder, caller, best, trials, cycle, promoted, validated, overlapped, abandoned>>
    BY DEF Start, RunningNow, SchedInv
  <1>2. loop[n] = "none" /\ n # 0 /\ n \in 1 .. MaxLoops
    BY <1>1, NextLoopFresh DEF Loops
  <1>3. SchedTypeOK'
    <2>1. thread' \in 0 .. MaxLoops /\ loop' \in [Loops -> {"none", "begin", "wait", "work", "store", "end", "dead"}]
      BY <1>1, <1>2, SchedAssumption DEF SchedTypeOK
    <2>2. flag' \in BOOLEAN /\ event' \in BOOLEAN
      BY <1>1 DEF SchedTypeOK
    <2> QED BY <1>1, <2>1, <2>2 DEF SchedTypeOK
  <1>4. Numbered'
    <2> DEFINE S == {l \in Loops : loop[l] # "none"}
    <2>1. IsFiniteSet(S) /\ n \notin S
      <3>1. IsFiniteSet(Loops)
        BY FS_Interval, SchedAssumption DEF Loops
      <3> QED BY <3>1, <1>2, FS_Subset
    <2>2. {l \in Loops : loop'[l] # "none"} = S \cup {n}
      BY <1>1, <1>2 DEF SchedTypeOK
    <2>3. Cardinality(S \cup {n}) = Cardinality(S) + 1 /\ Cardinality(S) \in Nat
      BY <2>1, FS_AddElement, FS_CardinalityType
    <2>4. NextLoop' = n + 1 /\ n \in Nat
      <3>1. n = Cardinality(S) + 1
        BY DEF NextLoop
      <3>2. NextLoop' = Cardinality({l \in Loops : loop'[l] # "none"}) + 1
        BY DEF NextLoop, Loops
      <3> HIDE DEF n, S
      <3> QED BY <2>2, <2>3, <3>1, <3>2
    <2>5. \A l \in Loops : (l < n + 1 <=> l < n \/ l = n) /\ (loop'[l] # "none" <=> loop[l] # "none" \/ l = n)
      BY <1>1, <1>2, <2>4 DEF SchedTypeOK, Loops
    <2> QED BY <2>4, <2>5 DEF SchedInv, LoopInv, Numbered
  <1>5. Alive' = Alive \cup {n}
    BY <1>1, <1>2 DEF Alive, SchedTypeOK
  <1>6. Known' /\ Kept'
    BY <1>1, <1>5 DEF SchedInv, LoopInv, Known, Kept
  <1>7. EventSet'
    BY <1>1, <1>2, SchedAssumption DEF SchedTypeOK, EventSet
  <1>8. StatusTrue'
    BY <1>1, <1>5 DEF StatusTrue
  <1>9. CycleInv'
    BY <1>1 DEF SchedInv, CycleInv, OneCycle, Judged, PromotedWasValidated
  <1> QED BY <1>3, <1>4, <1>6, <1>7, <1>8, <1>9 DEF SchedInv, LoopInv

(* What does not touch a cycle keeps what is known of the cycles.           *)
LEMMA CycleKept ==
  ASSUME SchedInv, UNCHANGED <<best, cycle, promoted, validated, overlapped>>
  PROVE  CycleInv'
  BY DEF SchedInv, CycleInv, OneCycle, Judged, PromotedWasValidated

(* stop() and the end of a manual cycle: the event is set before the join.  *)
LEMMA CallerStep ==
  ASSUME SchedInv, NEW c \in Callers,
         StopStep(c) \/ (\E timed \in BOOLEAN : BeginStop(c, timed)) \/ RunOnceReturns(c)
  PROVE  SchedInv'
  <1>1. /\ SchedTypeOK /\ LoopInv
        /\ UNCHANGED <<kind, loop, flag, best, trials, cycle, promoted, validated, overlapped>>
    BY DEF StopStep, SetEvent, EndStop, BeginStop, RunOnceReturns, SchedInv
  <1>2. CycleInv' /\ Numbered' /\ Alive' = Alive
    BY <1>1, CycleKept, NumbersKept DEF Alive
  <1> DEFINE Call == [pc : {"idle", "stop", "join", "cycle"}, timed : BOOLEAN]
  <1>3. CASE \E timed \in BOOLEAN : BeginStop(c, timed)
    <2>1. PICK timed \in BOOLEAN : BeginStop(c, timed)
      BY <1>3
    <2>2. /\ holder = NoCaller /\ holder' = c /\ UNCHANGED <<event, thread, abandoned>>
          /\ caller' = [caller EXCEPT ![c] = [pc |-> "stop", timed |-> timed]]
      BY <2>1 DEF BeginStop
    <2>3. caller' \in [Callers -> Call] /\ caller'[c].pc = "stop" /\ \A d \in Callers \ {c} : caller'[d] = caller[d]
      BY <1>1, <2>2 DEF SchedTypeOK
    <2>4. \A d \in Callers : caller'[d].pc \in {"stop", "join"} <=> holder' = d
      BY <1>1, <2>2, <2>3, SchedAssumption DEF SchedTypeOK
    <2>5. SchedTypeOK'
      BY <1>1, <2>2, <2>3, <2>4 DEF SchedTypeOK
    <2>6. Known' /\ Kept' /\ EventSet' /\ StatusTrue'
      BY <1>1, <1>2, <2>2, <2>3 DEF LoopInv, Known, Kept, EventSet, StatusTrue
    <2> QED BY <1>2, <2>5, <2>6 DEF SchedInv, LoopInv
  <1>4. CASE SetEvent(c)
    <2>1. /\ caller[c].pc = "stop" /\ UNCHANGED <<holder, thread, abandoned>> /\ ((event' = event /\ thread = 0) \/ event' = TRUE)
          /\ caller' = [caller EXCEPT ![c].pc = "join"]
      BY <1>4 DEF SetEvent
    <2>2. caller' \in [Callers -> Call] /\ caller'[c].pc = "join" /\ \A d \in Callers \ {c} : caller'[d] = caller[d]
      BY <1>1, <2>1 DEF SchedTypeOK
    <2>3. \A d \in Callers : caller'[d].pc \in {"stop", "join"} <=> holder' = d
      BY <1>1, <2>1, <2>2 DEF SchedTypeOK
    <2>4. SchedTypeOK'
      BY <1>1, <2>1, <2>2, <2>3 DEF SchedTypeOK
    <2>5. Known' /\ Kept' /\ StatusTrue'
      BY <1>1, <1>2, <2>1 DEF LoopInv, Known, Kept, StatusTrue
    <2>6. EventSet'
      BY <1>1, <1>2, <2>1 DEF LoopInv, EventSet
    <2> QED BY <1>2, <2>4, <2>5, <2>6 DEF SchedInv, LoopInv
  <1>5. ASSUME NEW gaveUp \in BOOLEAN, EndStop(c, gaveUp) PROVE SchedInv'
    <2>1. /\ caller[c].pc = "join" /\ holder' = NoCaller /\ caller' = [caller EXCEPT ![c] = NoCall] /\ event' = event
          /\ thread' = (IF kind \in {"trainer", "market"} THEN thread ELSE 0)
          /\ abandoned' = (IF gaveUp THEN abandoned \cup {thread} ELSE abandoned)
          /\ IF gaveUp THEN thread \in Alive ELSE thread \notin Alive
      BY <1>5 DEF EndStop, ThreadAfter, RunningNow, Joined
    <2>2. caller' \in [Callers -> Call] /\ caller'[c].pc = "idle" /\ \A d \in Callers \ {c} : caller'[d] = caller[d]
      BY <1>1, <2>1 DEF SchedTypeOK, NoCall
    <2>3. \A d \in Callers : caller'[d].pc \in {"stop", "join"} <=> holder' = d
      BY <1>1, <2>1, <2>2, SchedAssumption DEF SchedTypeOK
    <2>4. SchedTypeOK'
      <3>1. thread' \in 0 .. MaxLoops /\ abandoned' \subseteq Loops
        BY <1>1, <2>1, SchedAssumption DEF SchedTypeOK, Alive
      <3> QED BY <1>1, <2>1, <2>2, <2>3, <3>1 DEF SchedTypeOK
    <2>5. Known' /\ Kept'
      BY <1>1, <1>2, <2>1 DEF LoopInv, Known, Kept
    <2>6. thread # 0 => event
      BY <1>1, <2>1 DEF LoopInv, EventSet
    <2>7. EventSet'
      BY <1>1, <1>2, <2>1, <2>2, <2>6 DEF LoopInv, EventSet
    <2>8. StatusTrue'
      BY <1>1, <1>2, <2>1 DEF LoopInv, StatusTrue
    <2> QED BY <1>2, <2>4, <2>5, <2>7, <2>8 DEF SchedInv, LoopInv
  <1>6. CASE RunOnceReturns(c)
    <2>1. UNCHANGED <<holder, event, thread, abandoned>> /\ caller[c].pc = "cycle" /\ caller' = [caller EXCEPT ![c] = NoCall]
      BY <1>6 DEF RunOnceReturns
    <2>2. caller' \in [Callers -> Call] /\ caller'[c].pc = "idle" /\ \A d \in Callers \ {c} : caller'[d] = caller[d]
      BY <1>1, <2>1 DEF SchedTypeOK, NoCall
    <2>3. \A d \in Callers : caller'[d].pc \in {"stop", "join"} <=> holder' = d
      BY <1>1, <2>1, <2>2 DEF SchedTypeOK
    <2>4. SchedTypeOK'
      BY <1>1, <2>1, <2>2, <2>3 DEF SchedTypeOK
    <2>5. Known' /\ Kept' /\ StatusTrue' /\ EventSet'
      BY <1>1, <1>2, <2>1, <2>2 DEF LoopInv, Known, Kept, StatusTrue, EventSet
    <2> QED BY <1>2, <2>4, <2>5 DEF SchedInv, LoopInv
  <1> QED BY <1>3, <1>4, <1>5, <1>6 DEF StopStep

(* One worker enters a cycle: it is the only one, or the history says       *)
(* otherwise.                                                               *)
LEMMA CycleBegins ==
  ASSUME SchedInv, NEW w \in Workers, cycle' = [cycle EXCEPT ![w] = "search"],
         overlapped' = (overlapped \/ InCycle # {}), UNCHANGED <<best, promoted, validated>>
  PROVE  CycleInv' /\ cycle' \in [Workers -> {"none", "search", "validate", "promote"}] /\ overlapped' \in BOOLEAN
  <1>1. cycle \in [Workers -> {"none", "search", "validate", "promote"}] /\ overlapped \in BOOLEAN
    BY DEF SchedInv, SchedTypeOK
  <1>2. cycle'[w] = "search" /\ \A v \in Workers \ {w} : cycle'[v] = cycle[v]
    BY <1>1
  <1>3. ~overlapped' => ~overlapped /\ \A v \in Workers : cycle[v] = "none"
    BY DEF InCycle
  <1> QED BY <1>1, <1>2, <1>3 DEF SchedInv, CycleInv, OneCycle, Judged, PromotedWasValidated

(* A manual cycle begins, beside one of the loop or alone.                  *)
LEMMA RunOnceStep ==
  ASSUME SchedInv, NEW c \in Callers, RunOnce(c)
  PROVE  SchedInv'
  <1>1. /\ SchedTypeOK /\ LoopInv /\ UNCHANGED <<kind, holder, event, thread, loop, flag, best, trials, promoted, validated, abandoned>>
        /\ caller[c].pc = "idle" /\ caller' = [caller EXCEPT ![c].pc = "cycle"]
    BY DEF RunOnce, SchedInv
  <1>2. CycleInv' /\ cycle' \in [Workers -> {"none", "search", "validate", "promote"}] /\ overlapped' \in BOOLEAN
    BY CycleBegins DEF RunOnce, Workers
  <1>3. Numbered' /\ Alive' = Alive
    BY <1>1, NumbersKept DEF Alive
  <1>4. /\ caller' \in [Callers -> [pc : {"idle", "stop", "join", "cycle"}, timed : BOOLEAN]]
        /\ caller'[c].pc = "cycle" /\ \A d \in Callers \ {c} : caller'[d] = caller[d]
    BY <1>1 DEF SchedTypeOK
  <1>5. \A d \in Callers : caller'[d].pc \in {"stop", "join"} <=> holder' = d
    BY <1>1, <1>4 DEF SchedTypeOK
  <1>6. SchedTypeOK'
    BY <1>1, <1>2, <1>4, <1>5 DEF SchedTypeOK
  <1>7. Known' /\ Kept' /\ StatusTrue' /\ EventSet'
    BY <1>1, <1>3, <1>4 DEF LoopInv, Known, Kept, StatusTrue, EventSet
  <1> QED BY <1>2, <1>3, <1>6, <1>7 DEF SchedInv, LoopInv

(* A loop moves: it stays alive, or it ends.                                *)
LEMMA LoopMoves ==
  ASSUME SchedInv, NEW l \in Loops, NEW pc \in {"wait", "work", "store", "end", "dead"},
         loop[l] \in {"begin", "wait", "work", "store", "end"}, loop' = [loop EXCEPT ![l] = pc],
         IF pc = "dead" THEN flag' = (flag /\ kind # "automl") ELSE flag' = flag \/ flag' = (flag \/ kind = "automl"),
         UNCHANGED <<kind, holder, event, thread, caller, abandoned>>
  PROVE  LoopInv' /\ loop' \in [Loops -> {"none", "begin", "wait", "work", "store", "end", "dead"}] /\ flag' \in BOOLEAN
  <1>1. SchedTypeOK /\ LoopInv
    BY DEF SchedInv
  <1>2. loop' \in [Loops -> {"none", "begin", "wait", "work", "store", "end", "dead"}] /\ flag' \in BOOLEAN
    BY <1>1 DEF SchedTypeOK
  <1>3. loop'[l] = pc /\ \A k \in Loops \ {l} : loop'[k] = loop[k]
    BY <1>1 DEF SchedTypeOK
  <1>4. Numbered'
    BY <1>3, NumbersKept
  <1>5. l \in Alive /\ Alive' = IF pc = "dead" THEN Alive \ {l} ELSE Alive
    BY <1>3 DEF Alive
  <1>6. Known' /\ Kept' /\ EventSet'
    BY <1>1, <1>5 DEF LoopInv, Known, Kept, EventSet
  <1>7. StatusTrue'
    <2>1. CASE pc = "dead"
      <3>1. abandoned = {} => Alive' = {}
        BY <1>1, <1>5, <2>1 DEF LoopInv, Known
      <3> QED BY <2>1, <3>1 DEF StatusTrue
    <2>2. CASE pc # "dead"
      BY <1>1, <1>5, <2>2 DEF LoopInv, StatusTrue, SchedTypeOK
    <2> QED BY <2>1, <2>2
  <1> QED BY <1>2, <1>4, <1>6, <1>7 DEF LoopInv

(* A step of the loop itself, whatever the callers do.                      *)
LEMMA LoopStepKeeps ==
  ASSUME SchedInv, NEW l \in Loops, NEW fetched \in BOOLEAN,
         LoopBegins(l) \/ LoopWakes(l) \/ LoopWorked(l, fetched) \/ LoopStores(l) \/ LoopEnds(l)
  PROVE  SchedInv'
  <1>1. /\ SchedTypeOK
        /\ UNCHANGED <<kind, holder, event, thread, caller, best, trials, promoted, validated, abandoned>>
    BY DEF LoopBegins, LoopWakes, LoopWorked, LoopStores, LoopEnds, SchedInv
  <1>2. LoopInv' /\ loop' \in [Loops -> {"none", "begin", "wait", "work", "store", "end", "dead"}] /\ flag' \in BOOLEAN
    <2>1. CASE LoopBegins(l)
      <3> DEFINE pc == CASE kind = "sentiment" -> "work"
                         [] kind \in {"trainer", "market"} -> IF event THEN "end" ELSE "work"
                         [] OTHER -> "wait"
      <3>1. pc \in {"wait", "work", "end"} /\ loop[l] = "begin" /\ loop' = [loop EXCEPT ![l] = pc]
            /\ flag' = (flag \/ kind = "automl")
        BY <2>1 DEF LoopBegins
      <3> HIDE DEF pc
      <3> QED BY <1>1, <3>1, LoopMoves
    <2>2. CASE LoopWakes(l)
      BY <1>1, <2>2, LoopMoves DEF LoopWakes, AfterWait
    <2>3. CASE LoopWorked(l, fetched)
      BY <1>1, <2>3, LoopMoves DEF LoopWorked
    <2>4. CASE LoopStores(l)
      BY <1>1, <2>4, LoopMoves DEF LoopStores
    <2>5. CASE LoopEnds(l)
      BY <1>1, <2>5, LoopMoves DEF LoopEnds, FlagAfter
    <2> QED BY <2>1, <2>2, <2>3, <2>4, <2>5
  <1>3. CycleInv' /\ cycle' \in [Workers -> {"none", "search", "validate", "promote"}] /\ overlapped' \in BOOLEAN
    <2>1. CASE LoopWakes(l) /\ kind = "automl" /\ ~event
      BY <1>1, <2>1, CycleBegins DEF LoopWakes, Workers
    <2>2. CASE ~(LoopWakes(l) /\ kind = "automl" /\ ~event)
      <3>1. UNCHANGED <<cycle, overlapped>>
        BY <1>1, <2>2 DEF LoopBegins, LoopWakes, LoopWorked, LoopStores, LoopEnds, SchedTypeOK
      <3> QED BY <1>1, <3>1, CycleKept DEF SchedTypeOK
    <2> QED BY <2>1, <2>2
  <1>4. SchedTypeOK'
    BY <1>1, <1>2, <1>3 DEF SchedTypeOK
  <1> QED BY <1>2, <1>3, <1>4 DEF SchedInv

(* A trial, its validation and its promotion.                               *)
LEMMA CycleStepKeeps ==
  ASSUME SchedInv, NEW w \in Workers, CycleStep(w)
  PROVE  SchedInv'
  <1> DEFINE Steps == {"none", "search", "validate", "promote"}
  <1>1. /\ SchedTypeOK /\ CycleInv /\ LoopInv
        /\ UNCHANGED <<kind, holder, event, thread, loop, caller, flag, overlapped, abandoned>>
    BY DEF CycleStep, Search, Validate, Promote, CycleFails, SchedInv
  <1>2. LoopInv'
    <2>1. Numbered' /\ Alive' = Alive
      BY <1>1, NumbersKept DEF Alive
    <2> QED BY <1>1, <2>1 DEF LoopInv, Known, Kept, EventSet, StatusTrue
  <1>3. best \in 0 .. MaxTrials /\ trials \in 0 .. MaxTrials /\ promoted \in 0 .. MaxTrials /\ validated \subseteq 1 .. MaxTrials
        /\ cycle \in [Workers -> Steps]
    BY <1>1 DEF SchedTypeOK
  <1> SUFFICES /\ best' \in 0 .. MaxTrials /\ trials' \in 0 .. MaxTrials /\ promoted' \in 0 .. MaxTrials
               /\ validated' \subseteq 1 .. MaxTrials /\ cycle' \in [Workers -> Steps] /\ CycleInv'
    BY <1>1, <1>2 DEF SchedInv, SchedTypeOK
  <1>4. cycle[w] # "none" /\ (~overlapped => \A v \in Workers \ {w} : cycle[v] = "none")
    BY <1>1 DEF CycleStep, Search, Validate, Promote, CycleFails, CycleInv, OneCycle
  <1>5. CASE Search(w)
    <2>1. trials < MaxTrials /\ trials' = trials + 1 /\ best' = trials + 1 /\ cycle' = [cycle EXCEPT ![w] = "validate"]
          /\ UNCHANGED <<promoted, validated>>
      BY <1>5 DEF Search
    <2>2. best' \in 1 .. MaxTrials /\ trials' \in 0 .. MaxTrials
      BY <1>3, <2>1, SchedAssumption
    <2>3. cycle' \in [Workers -> Steps] /\ cycle'[w] = "validate" /\ \A v \in Workers \ {w} : cycle'[v] = cycle[v]
      BY <1>3, <2>1
    <2> QED BY <1>1, <1>3, <1>4, <2>1, <2>2, <2>3, SchedAssumption DEF CycleInv, OneCycle, Judged, PromotedWasValidated
  <1>6. CASE Validate(w)
    <2>1. PICK passed \in BOOLEAN :
            /\ validated' = (IF passed THEN validated \cup {best} ELSE validated)
            /\ cycle' = [cycle EXCEPT ![w] = IF passed THEN "promote" ELSE "none"]
      BY <1>6 DEF Validate, AfterValidation
    <2>2. UNCHANGED <<best, trials, promoted>> /\ best \in 1 .. MaxTrials
      BY <1>1, <1>3, <1>6, SchedAssumption DEF Validate, CycleInv, Judged
    <2>3. cycle' \in [Workers -> Steps] /\ cycle'[w] = (IF passed THEN "promote" ELSE "none")
          /\ \A v \in Workers \ {w} : cycle'[v] = cycle[v]
      BY <1>3, <2>1
    <2>4. validated \subseteq validated' /\ validated' \subseteq 1 .. MaxTrials /\ (passed => best \in validated')
      BY <1>3, <2>1, <2>2
    <2>5. OneCycle'
      BY <1>1, <1>4, <2>3
      DEF OneCycle
    <2>6. Judged'
      BY <1>1, <1>4, <2>2, <2>3, <2>4 DEF CycleInv, Judged
    <2>7. PromotedWasValidated'
      BY <1>1, <2>2, <2>4 DEF CycleInv, PromotedWasValidated
    <2> QED BY <1>3, <2>2, <2>3, <2>4, <2>5, <2>6, <2>7 DEF CycleInv
  <1>7. CASE Promote(w)
    <2>1. cycle[w] = "promote" /\ promoted' = best /\ cycle' = [cycle EXCEPT ![w] = "none"]
          /\ UNCHANGED <<best, trials, validated>>
      BY <1>7 DEF Promote
    <2>2. cycle' \in [Workers -> Steps] /\ cycle'[w] = "none" /\ \A v \in Workers \ {w} : cycle'[v] = cycle[v]
      BY <1>3, <2>1
    <2> QED BY <1>1, <1>3, <2>1, <2>2 DEF CycleInv, OneCycle, Judged, PromotedWasValidated
  <1>8. CASE CycleFails(w)
    <2>1. cycle' = [cycle EXCEPT ![w] = "none"] /\ UNCHANGED <<best, trials, promoted, validated>>
      BY <1>8 DEF CycleFails
    <2>2. cycle' \in [Workers -> Steps] /\ cycle'[w] = "none" /\ \A v \in Workers \ {w} : cycle'[v] = cycle[v]
      BY <1>3, <2>1
    <2> QED BY <1>1, <1>3, <2>1, <2>2 DEF CycleInv, OneCycle, Judged, PromotedWasValidated
  <1> QED BY <1>5, <1>6, <1>7, <1>8 DEF CycleStep

(* A set all of whose members are one and the same has at most one.         *)
LEMMA AtMostOne ==
  ASSUME NEW S, NEW x, \A y \in S : y = x
  PROVE  Cardinality(S) <= 1
  <1>1. CASE S = {}
    BY <1>1, FS_EmptySet
  <1>2. CASE S # {}
    <2>1. S = {x}
      BY <1>2
    <2> QED BY <2>1, FS_Singleton
  <1> QED BY <1>1, <1>2

(* The invariant implies what the run checks.                               *)
LEMMA SchedInvImplies == SchedInv => LoopsControlled
  <1> SUFFICES ASSUME SchedInv PROVE LoopsControlled
    OBVIOUS
  <1>1. OneLoop
    <2>1. \A l \in Alive \ abandoned : l = thread
      BY DEF SchedInv, LoopInv, Known
    <2> QED BY <2>1, AtMostOne DEF OneLoop
  <1>2. NeverTwice
    <2>1. kind \in {"trainer", "market"} => \A l \in Alive : l = thread
      BY DEF SchedInv, LoopInv, Kept
    <2> QED BY <2>1, AtMostOne DEF NeverTwice
  <1>3. StoppedIsStopped
    <2>1. 0 \notin Alive
      BY DEF Alive, Loops
    <2> QED BY <2>1 DEF SchedInv, LoopInv, Known, EventSet, StoppedIsStopped
  <1> QED BY <1>1, <1>2, <1>3 DEF SchedInv, LoopInv, CycleInv, LoopsControlled

(* LoopsControlled: start, stop and status of the four schedulers mean what *)
(* they say and only validated results are promoted, for any number of      *)
(* callers and loops.                                                       *)
THEOREM LoopsAreControlled == SchedSpec => []LoopsControlled
  <1>1. SchedInv /\ [SchedNext]_schedVars => SchedInv'
    <2> SUFFICES ASSUME SchedInv, [SchedNext]_schedVars PROVE SchedInv'
      OBVIOUS
    <2>1. CASE UNCHANGED schedVars
      BY <2>1 DEF schedVars, SchedInv, SchedTypeOK, LoopInv, Numbered, NextLoop, Known, Kept, EventSet, StatusTrue,
                  Alive, CycleInv, OneCycle, Judged, PromotedWasValidated
    <2>2. ASSUME NEW c \in Callers, CycleStep(c) PROVE SchedInv'
      BY <2>2, CycleStepKeeps DEF Workers
    <2>3. ASSUME NEW l \in Loops, LoopStep(l) PROVE SchedInv'
      BY <2>3, CycleStepKeeps, LoopStepKeeps DEF LoopStep, Workers
    <2> QED BY <2>1, <2>2, <2>3, StartStep, CallerStep, RunOnceStep DEF SchedNext
  <1> QED BY <1>1, SchedInvInit, SchedInvImplies, PTL DEF SchedSpec

-----------------------------------------------------------------------------
(* The inductive invariant behind GhostControlled. A worker at a symbol has *)
(* sent nothing since it saw the event unset; what lives and was not left   *)
(* is the thread the machine knows.                                         *)
AtSymbol == {"fetch", "guard", "execute"}
GhostPc == {"none", "top", "symbol", "fetch", "guard", "execute", "record", "sleep", "dead"}
Recording == {w \in GhostWorkers : ghost[w].pc = "record"}

GhostsNumbered == \A g \in Ghosts : ghost[g].pc # "none" <=> g < NextGhost
WithinSymbols == \A w \in GhostWorkers : ghost[w].pc \in AtSymbol \cup {"record"} => ghost[w].at <= SymbolCount
SentOnce == \A g \in Ghosts : sent[g] <= 1 /\ (ghost[g].pc \in AtSymbol => sent[g] = 0)
ThreadKnown == \A g \in GhostAlive : g \in left \/ g = machine.thread
StopWaits == /\ machine.running => ~machine.event
             /\ ~machine.running /\ route # "join" => GhostAlive \subseteq left
             /\ route = "join" => ~machine.running
ApiIdle == route # "cycle" => ghost[Api].pc = "none"

GhostInv ==
  /\ GhostTypeOK /\ GhostsNumbered /\ WithinSymbols /\ SentOnce /\ ThreadKnown /\ StopWaits /\ ApiIdle /\ CyclesAddUp

(* The invariant holds when no machine has been started.                    *)
LEMMA GhostInvInit == GhostInit => GhostInv
  <1> SUFFICES ASSUME GhostInit PROVE GhostInv
    OBVIOUS
  <1> USE GhostAssumption DEF GhostInit
  <1>1. \A w \in GhostWorkers : ghost[w] = [pc |-> "none", at |-> 1]
    OBVIOUS
  <1>2. Ghosts \subseteq GhostWorkers
    BY DEF GhostWorkers
  <1>3. GhostTypeOK
    <2>1. ghost \in [GhostWorkers -> [pc : GhostPc, at : 1 .. SymbolCount + 1]]
      BY DEF GhostPc
    <2>2. cycles \in [total : Nat, ok : Nat, blocked : Nat, other : Nat, bought : 0 .. MaxGhostOrders]
      OBVIOUS
    <2>3. sent \in [Ghosts -> 0 .. MaxGhostOrders] /\ machine \in [running : BOOLEAN, event : BOOLEAN, thread : 0 .. MaxGhosts]
      OBVIOUS
    <2> QED BY <2>1, <2>2, <2>3 DEF GhostTypeOK, GhostPc
  <1>4. GhostAlive = {} /\ {g \in Ghosts : ghost[g].pc # "none"} = {} /\ Recording = {}
    BY <1>1, <1>2 DEF GhostAlive, Recording
  <1>5. NextGhost = 1 /\ Cardinality(Recording) = 0
    <2>1. Cardinality({g \in Ghosts : ghost[g].pc # "none"}) = 0 /\ Cardinality(Recording) = 0
      BY <1>4, FS_EmptySet
    <2> QED BY <2>1 DEF NextGhost
  <1>6. GhostsNumbered
    BY <1>1, <1>2, <1>5 DEF GhostsNumbered, Ghosts
  <1>7. WithinSymbols /\ SentOnce
    BY <1>1, <1>2 DEF WithinSymbols, SentOnce, AtSymbol
  <1>8. CyclesAddUp
    BY <1>5 DEF CyclesAddUp, Recording
  <1>9. ApiIdle
    BY <1>1 DEF ApiIdle, GhostWorkers
  <1> QED BY <1>3, <1>4, <1>6, <1>7, <1>8, <1>9 DEF GhostInv, ThreadKnown, StopWaits

(* A step that starts no thread keeps the numbering.                        *)
LEMMA GhostNumbersKept ==
  ASSUME GhostInv, \A g \in Ghosts : ghost'[g].pc = "none" <=> ghost[g].pc = "none"
  PROVE  GhostsNumbered'
  <1>1. {g \in Ghosts : ghost'[g].pc # "none"} = {g \in Ghosts : ghost[g].pc # "none"}
    OBVIOUS
  <1>2. NextGhost' = NextGhost
    BY <1>1 DEF NextGhost
  <1> QED BY <1>2 DEF GhostInv, GhostsNumbered

(* start() makes a new thread, unless one is running.                       *)
LEMMA GhostStartStep ==
  ASSUME GhostInv, GhostStart
  PROVE  GhostInv'
  <1> DEFINE n == NextGhost
  <1>1. /\ GhostTypeOK /\ route = "idle" /\ ~machine.running /\ n \in Ghosts
        /\ machine' = [running |-> TRUE, event |-> FALSE, thread |-> n]
        /\ ghost' = [ghost EXCEPT ![n].pc = "top"] /\ UNCHANGED <<route, vetoed, cycles, sent, left>>
    BY DEF GhostStart, MayStart, GhostInv
  <1>2. ghost[n].pc = "none" /\ n \in 1 .. MaxGhosts /\ n \in GhostWorkers
    BY <1>1 DEF GhostInv, GhostsNumbered, Ghosts, GhostWorkers
  <1>3. ghost'[n].pc = "top" /\ \A w \in GhostWorkers \ {n} : ghost'[w] = ghost[w]
    BY <1>1, <1>2 DEF GhostTypeOK
  <1>4. GhostTypeOK'
    <2>1. machine' \in [running : BOOLEAN, event : BOOLEAN, thread : 0 .. MaxGhosts]
      BY <1>1, <1>2, GhostAssumption
    <2>2. ghost' \in [GhostWorkers -> [pc : GhostPc, at : 1 .. SymbolCount + 1]]
      BY <1>1, <1>2 DEF GhostTypeOK, GhostPc
    <2> QED BY <1>1, <2>1, <2>2 DEF GhostTypeOK, GhostPc
  <1>5. GhostsNumbered'
    <2> DEFINE S == {g \in Ghosts : ghost[g].pc # "none"}
    <2>1. IsFiniteSet(S) /\ n \notin S
      <3>1. IsFiniteSet(Ghosts)
        BY FS_Interval, GhostAssumption DEF Ghosts
      <3> QED BY <3>1, <1>2, FS_Subset
    <2>2. {g \in Ghosts : ghost'[g].pc # "none"} = S \cup {n}
      BY <1>1, <1>3 DEF GhostWorkers
    <2>3. Cardinality(S \cup {n}) = Cardinality(S) + 1 /\ Cardinality(S) \in Nat
      BY <2>1, FS_AddElement, FS_CardinalityType
    <2>4. NextGhost' = n + 1 /\ n \in Nat
      <3>1. n = Cardinality(S) + 1
        BY DEF NextGhost
      <3>2. NextGhost' = Cardinality({g \in Ghosts : ghost'[g].pc # "none"}) + 1
        BY DEF NextGhost, Ghosts
      <3>3. NextGhost' = Cardinality(S \cup {n}) + 1
        BY <2>2, <3>2
      <3> HIDE DEF n, S
      <3>4. Cardinality(S \cup {n}) = n /\ n \in Nat
        BY <2>3, <3>1
      <3> QED BY <3>3, <3>4
    <2>5. \A g \in Ghosts : (g < n + 1 <=> g < n \/ g = n) /\ (ghost'[g].pc # "none" <=> ghost[g].pc # "none" \/ g = n)
      BY <1>1, <1>3, <2>4 DEF Ghosts, GhostWorkers
    <2> QED BY <2>4, <2>5 DEF GhostInv, GhostsNumbered
  <1>6. GhostAlive' = GhostAlive \cup {n}
    BY <1>1, <1>3 DEF GhostAlive, GhostWorkers
  <1>7. ThreadKnown' /\ StopWaits'
    <2>1. GhostAlive \subseteq left
      BY <1>1 DEF GhostInv, StopWaits
    <2> QED BY <1>1, <1>6, <2>1 DEF ThreadKnown, StopWaits
  <1>8. WithinSymbols' /\ SentOnce'
    BY <1>1, <1>3 DEF GhostInv, WithinSymbols, SentOnce, AtSymbol, GhostWorkers
  <1>9. Recording' = Recording
    BY <1>2, <1>3 DEF Recording
  <1>10. CyclesAddUp'
    BY <1>1, <1>9 DEF GhostInv, CyclesAddUp, Recording
  <1>11. ApiIdle'
    BY <1>1, <1>3, GhostAssumption DEF GhostInv, ApiIdle, GhostWorkers
  <1> QED BY <1>4, <1>5, <1>7, <1>8, <1>10, <1>11 DEF GhostInv

(* The event loop moves: the threads stay where they are.                   *)
LEMMA RouteStep ==
  ASSUME GhostInv, GhostStop \/ GhostStopped \/ Supervise
  PROVE  GhostInv'
  <1>1. GhostTypeOK /\ UNCHANGED <<ghost, cycles, sent>>
    BY DEF GhostStop, GhostStopped, Supervise, GhostInv
  <1>2. GhostsNumbered' /\ WithinSymbols' /\ SentOnce' /\ CyclesAddUp' /\ GhostAlive' = GhostAlive
    BY <1>1, GhostNumbersKept DEF GhostInv, WithinSymbols, SentOnce, CyclesAddUp, GhostAlive
  <1>3. CASE GhostStop
    <2>1. /\ machine.running /\ route = "idle" /\ UNCHANGED <<vetoed, left>>
          /\ machine' = [machine EXCEPT !.event = TRUE, !.running = FALSE]
          /\ route' = (IF machine.thread \in GhostAlive THEN "join" ELSE "idle")
      BY <1>3 DEF GhostStop
    <2>2. machine' \in [running : BOOLEAN, event : BOOLEAN, thread : 0 .. MaxGhosts] /\ machine'.running = FALSE
          /\ machine'.event = TRUE /\ machine'.thread = machine.thread
      BY <1>1, <2>1 DEF GhostTypeOK
    <2>3. GhostTypeOK'
      BY <1>1, <2>1, <2>2 DEF GhostTypeOK
    <2>4. ThreadKnown' /\ StopWaits' /\ ApiIdle'
      BY <1>1, <1>2, <2>1, <2>2 DEF GhostInv, ThreadKnown, StopWaits, ApiIdle
    <2> QED BY <1>2, <2>3, <2>4 DEF GhostInv
  <1>4. CASE GhostStopped
    <2>1. /\ route = "join" /\ route' = "idle" /\ UNCHANGED <<machine, vetoed>>
          /\ left' = IF machine.thread \in GhostAlive THEN left \cup {machine.thread} ELSE left
      BY <1>4 DEF GhostStopped
    <2>2. GhostTypeOK'
      BY <1>1, <2>1 DEF GhostTypeOK, GhostAlive
    <2>3. ThreadKnown' /\ StopWaits' /\ ApiIdle'
      BY <1>1, <1>2, <2>1 DEF GhostInv, ThreadKnown, StopWaits, ApiIdle
    <2> QED BY <1>2, <2>2, <2>3 DEF GhostInv
  <1>5. CASE Supervise
    <2>1. UNCHANGED <<machine, route, left>> /\ vetoed' \in BOOLEAN
      BY <1>1, <1>5 DEF Supervise, GhostTypeOK
    <2> QED BY <1>1, <1>2, <2>1 DEF GhostInv, GhostTypeOK, ThreadKnown, StopWaits, ApiIdle
  <1> QED BY <1>3, <1>4, <1>5

(* A worker moves: it lives on or ends, and the loop of a start is never    *)
(* taken for a new one.                                                     *)
LEMMA WorkerMoves ==
  ASSUME GhostInv, NEW w \in GhostWorkers, NEW r \in [pc : GhostPc, at : 1 .. SymbolCount + 1],
         ghost' = [ghost EXCEPT ![w] = r],
         w \in Ghosts => ghost[w].pc \notin {"none", "dead"} /\ r.pc # "none",
         r.pc \in AtSymbol \cup {"record"} => r.at <= SymbolCount,
         sent' \in [Ghosts -> 0 .. MaxGhostOrders],
         \A g \in Ghosts \ {w} : sent'[g] = sent[g],
         w \in Ghosts => sent'[w] <= 1 /\ (r.pc \in AtSymbol => sent'[w] = 0),
         route' = "join" <=> route = "join", route' \in {"idle", "join", "cycle"},
         route' # "cycle" => route # "cycle" \/ w = Api, w = Api /\ route' # "cycle" => r.pc = "none",
         UNCHANGED <<machine, vetoed, left>>,
         cycles' \in [total : Nat, ok : Nat, blocked : Nat, other : Nat, bought : 0 .. MaxGhostOrders],
         CyclesAddUp'
  PROVE  GhostInv'
  <1>1. GhostTypeOK /\ ghost' \in [GhostWorkers -> [pc : GhostPc, at : 1 .. SymbolCount + 1]]
    BY DEF GhostInv, GhostTypeOK, GhostPc
  <1>2. GhostTypeOK'
    BY <1>1 DEF GhostTypeOK, GhostPc
  <1>3. ghost'[w] = r /\ \A v \in GhostWorkers \ {w} : ghost'[v] = ghost[v]
    BY <1>1 DEF GhostTypeOK
  <1>4. Ghosts \subseteq GhostWorkers
    BY DEF GhostWorkers
  <1>5. GhostsNumbered'
    BY <1>3, <1>4, GhostNumbersKept
  <1>6. WithinSymbols'
    BY <1>3 DEF GhostInv, WithinSymbols
  <1>7. SentOnce'
    BY <1>3, <1>4 DEF GhostInv, SentOnce
  <1>8. GhostAlive' \subseteq GhostAlive
    BY <1>3, <1>4 DEF GhostAlive
  <1>9. ThreadKnown' /\ StopWaits'
    BY <1>8 DEF GhostInv, ThreadKnown, StopWaits
  <1>10. ApiIdle'
    BY <1>3 DEF GhostInv, ApiIdle, GhostWorkers
  <1> QED BY <1>2, <1>5, <1>6, <1>7, <1>9, <1>10 DEF GhostInv

(* How many cycles wait to be recorded after a worker has moved.            *)
LEMMA RecordingMoves ==
  ASSUME GhostTypeOK, NEW w \in GhostWorkers, NEW r, ghost' = [ghost EXCEPT ![w] = r]
  PROVE  /\ Cardinality(Recording) \in Nat
         /\ (ghost[w].pc = "record" <=> r.pc = "record") => Cardinality(Recording') = Cardinality(Recording)
         /\ ghost[w].pc # "record" /\ r.pc = "record" => Cardinality(Recording') = Cardinality(Recording) + 1
         /\ ghost[w].pc = "record" /\ r.pc # "record" => Cardinality(Recording') = Cardinality(Recording) - 1
  <1>1. IsFiniteSet(GhostWorkers)
    <2>1. IsFiniteSet(Ghosts)
      BY FS_Interval, GhostAssumption DEF Ghosts
    <2> QED BY <2>1, FS_AddElement DEF GhostWorkers
  <1>2. IsFiniteSet(Recording)
    BY <1>1, FS_Subset DEF Recording
  <1>3. ghost'[w] = r /\ \A v \in GhostWorkers \ {w} : ghost'[v] = ghost[v]
    BY DEF GhostTypeOK
  <1>4. Recording' = IF r.pc = "record" THEN Recording \cup {w} ELSE Recording \ {w}
    BY <1>3 DEF Recording
  <1>5. w \in Recording <=> ghost[w].pc = "record"
    BY DEF Recording
  <1>6. CASE ghost[w].pc = "record" <=> r.pc = "record"
    <2>1. Recording' = Recording
      BY <1>4, <1>5, <1>6
    <2> QED BY <1>2, <1>6, <2>1, FS_CardinalityType
  <1>7. CASE ghost[w].pc # "record" /\ r.pc = "record"
    BY <1>2, <1>4, <1>5, <1>7, FS_AddElement, FS_CardinalityType
  <1>8. CASE ghost[w].pc = "record" /\ r.pc # "record"
    BY <1>2, <1>4, <1>5, <1>8, FS_RemoveElement, FS_CardinalityType
  <1> QED BY <1>6, <1>7, <1>8

(* The thread of a start looks at the event.                                *)
LEMMA LoopOwnStep ==
  ASSUME GhostInv, NEW g \in Ghosts, GhostTop(g) \/ GhostSymbol(g) \/ GhostSleep(g)
  PROVE  GhostInv'
  <1>1. /\ GhostTypeOK /\ CyclesAddUp /\ g \in GhostWorkers /\ g # Api /\ UNCHANGED <<machine, route, vetoed, cycles, left>>
        /\ ghost[g].pc \in GhostPc /\ ghost[g].at \in 1 .. SymbolCount + 1
    BY GhostAssumption DEF GhostTop, GhostSymbol, GhostSleep, GhostInv, GhostTypeOK, GhostWorkers, GhostPc
  <1>2. sent \in [Ghosts -> 0 .. MaxGhostOrders] /\ \A k \in Ghosts : sent[k] <= 1
    BY <1>1 DEF GhostInv, GhostTypeOK, SentOnce
  <1> DEFINE R == [pc : GhostPc, at : 1 .. SymbolCount + 1]
  <1>3. ASSUME NEW r \in R, ghost' = [ghost EXCEPT ![g] = r], r.pc \notin {"none", "record"},
               ghost[g].pc \in {"top", "symbol", "sleep"}, r.pc \in AtSymbol => r.at <= SymbolCount,
               sent' \in [Ghosts -> 0 .. MaxGhostOrders], \A k \in Ghosts \ {g} : sent'[k] = sent[k],
               sent'[g] <= 1, r.pc \in AtSymbol => sent'[g] = 0
        PROVE  GhostInv'
    <2>1. Cardinality(Recording') = Cardinality(Recording)
      BY <1>1, <1>3, RecordingMoves
    <2>2. CyclesAddUp'
      BY <1>1, <2>1 DEF CyclesAddUp, Recording
    <2> QED BY <1>1, <1>3, <2>2, WorkerMoves DEF GhostTypeOK
  <1>4. CASE GhostTop(g)
    <2> DEFINE r == [pc |-> IF machine.event THEN "dead" ELSE "symbol", at |-> 1]
    <2>1. r \in R /\ r.pc \in {"dead", "symbol"} /\ ghost' = [ghost EXCEPT ![g] = r] /\ ghost[g].pc = "top" /\ sent' = sent
      BY <1>4, GhostAssumption DEF GhostTop, GhostPc
    <2> HIDE DEF r
    <2> QED BY <1>2, <1>3, <2>1 DEF AtSymbol
  <1>5. CASE GhostSymbol(g)
    <2> DEFINE pc == IF ghost[g].at > SymbolCount \/ machine.event THEN "sleep" ELSE "fetch"
               r == [ghost[g] EXCEPT !.pc = pc]
    <2>1. /\ ghost' = [ghost EXCEPT ![g] = r] /\ ghost[g].pc = "symbol"
          /\ sent' = IF machine.event THEN sent ELSE [sent EXCEPT ![g] = 0]
      BY <1>5 DEF GhostSymbol, StopSeen
    <2>2. r \in R /\ r.pc = pc /\ r.at = ghost[g].at /\ pc \in {"sleep", "fetch"}
      BY <1>1 DEF GhostTypeOK, GhostPc
    <2>3. pc = "fetch" => ~machine.event /\ ghost[g].at <= SymbolCount
      BY <1>1, GhostAssumption
    <2> HIDE DEF r, pc
    <2>4. sent' \in [Ghosts -> 0 .. MaxGhostOrders] /\ (\A k \in Ghosts \ {g} : sent'[k] = sent[k]) /\ sent'[g] <= 1
          /\ (~machine.event => sent'[g] = 0)
      BY <1>2, <2>1, GhostAssumption
    <2> QED BY <1>3, <2>1, <2>2, <2>3, <2>4 DEF AtSymbol
  <1>6. CASE GhostSleep(g)
    <2> DEFINE pc == IF machine.event THEN "dead" ELSE "top"
               r == [ghost[g] EXCEPT !.pc = pc]
    <2>1. ghost' = [ghost EXCEPT ![g] = r] /\ ghost[g].pc = "sleep" /\ sent' = sent
      BY <1>6 DEF GhostSleep, LoopsOn
    <2>2. r \in R /\ r.pc \in {"dead", "top"}
      BY <1>1 DEF GhostTypeOK, GhostPc
    <2> HIDE DEF r, pc
    <2> QED BY <1>2, <1>3, <2>1, <2>2 DEF AtSymbol
  <1> QED BY <1>4, <1>5, <1>6

(* A manual cycle begins and ends on the event loop, beside the threads.    *)
LEMMA ManualStep ==
  ASSUME GhostInv, ManualCycle \/ ManualCycleReturns
  PROVE  GhostInv'
  <1>1. GhostTypeOK /\ CyclesAddUp /\ Api \in GhostWorkers /\ Api \notin Ghosts
        /\ UNCHANGED <<machine, vetoed, cycles, sent, left>> /\ route \in {"idle", "cycle"} /\ route' \in {"idle", "cycle"}
    BY GhostAssumption DEF ManualCycle, ManualCycleReturns, GhostInv, GhostWorkers
  <1> DEFINE R == [pc : GhostPc, at : 1 .. SymbolCount + 1]
  <1>2. ASSUME NEW r \in R, ghost' = [ghost EXCEPT ![Api] = r], r.pc # "record", ghost[Api].pc # "record",
               r.pc = "fetch" => r.at <= SymbolCount, r.pc \in {"fetch", "none"},
               r.pc = "none" \/ route' = "cycle"
        PROVE  GhostInv'
    <2>1. Cardinality(Recording') = Cardinality(Recording)
      BY <1>1, <1>2, RecordingMoves
    <2>2. CyclesAddUp'
      BY <1>1, <2>1 DEF CyclesAddUp, Recording
    <2> QED BY <1>1, <1>2, <2>2, WorkerMoves DEF GhostTypeOK, AtSymbol
  <1>3. CASE ManualCycleReturns
    <2>1. ghost' = [ghost EXCEPT ![Api] = [ghost[Api] EXCEPT !.pc = "none"]] /\ ghost[Api].pc = "dead"
      BY <1>3 DEF ManualCycleReturns
    <2>2. [ghost[Api] EXCEPT !.pc = "none"] \in R /\ [ghost[Api] EXCEPT !.pc = "none"].pc = "none"
      BY <1>1 DEF GhostTypeOK, GhostPc
    <2> QED BY <1>2, <2>1, <2>2
  <1>4. CASE ManualCycle
    <2>1. ghost' = [ghost EXCEPT ![Api] = [pc |-> "fetch", at |-> 1]]
      BY <1>4 DEF ManualCycle
    <2>2. [pc |-> "fetch", at |-> 1] \in R /\ 1 <= SymbolCount
      BY GhostAssumption DEF GhostPc
    <2>3. ghost[Api].pc # "record" /\ route' = "cycle"
      BY <1>1, <1>4 DEF ManualCycle, GhostInv, ApiIdle
    <2> QED BY <1>2, <2>1, <2>2, <2>3
  <1> QED BY <1>3, <1>4

(* A worker at a symbol: what ends a cycle counts it, and recording it      *)
(* counts it as ended.                                                      *)
LEMMA ProcessStep ==
  ASSUME GhostInv, NEW w \in GhostWorkers, Process(w)
  PROVE  GhostInv'
  <1> DEFINE R == [pc : GhostPc, at : 1 .. SymbolCount + 1]
             C == [total : Nat, ok : Nat, blocked : Nat, other : Nat, bought : 0 .. MaxGhostOrders]
  <1>1. /\ GhostTypeOK /\ CyclesAddUp /\ UNCHANGED <<machine, route, vetoed, left>>
        /\ ghost[w].pc \in AtSymbol \cup {"record"} /\ ghost[w] \in R /\ cycles \in C
        /\ ghost[w].at <= SymbolCount
    BY DEF Process, FetchFails, Predict, Guarded, Execute, RecordCycle, GhostInv, GhostTypeOK, GhostPc, AtSymbol,
           WithinSymbols
  <1>2. sent \in [Ghosts -> 0 .. MaxGhostOrders] /\ (\A k \in Ghosts : sent[k] <= 1)
        /\ (w \in Ghosts /\ ghost[w].pc \in AtSymbol => sent[w] = 0)
    BY <1>1 DEF GhostInv, GhostTypeOK, SentOnce
  <1>3. w = Api => route = "cycle"
    BY <1>1 DEF GhostInv, ApiIdle, AtSymbol
  <1>4. ASSUME NEW r \in R, ghost' = [ghost EXCEPT ![w] = r], r.pc # "none",
               r.pc \in AtSymbol \cup {"record"} => r.at <= SymbolCount,
               sent' \in [Ghosts -> 0 .. MaxGhostOrders], \A k \in Ghosts \ {w} : sent'[k] = sent[k],
               w \in Ghosts => sent'[w] <= 1 /\ (r.pc \in AtSymbol => sent'[w] = 0),
               cycles' \in C, CyclesAddUp'
        PROVE  GhostInv'
    BY <1>1, <1>3, <1>4, WorkerMoves DEF GhostTypeOK, AtSymbol
  <1> DEFINE to(pc) == [ghost[w] EXCEPT !.pc = pc]
  <1>5. \A pc \in GhostPc : to(pc) \in R /\ to(pc).pc = pc /\ to(pc).at = ghost[w].at
    BY <1>1
  <1> HIDE DEF to
  <1>6. {"record", "guard", "execute", "symbol", "fetch", "dead"} \subseteq GhostPc
    BY DEF GhostPc
  <1>7. cycles.total \in Nat /\ cycles.ok \in Nat /\ cycles.blocked \in Nat /\ cycles.other \in Nat
        /\ cycles.bought \in 0 .. MaxGhostOrders
    BY <1>1
  <1>8. \* a cycle that ends and one that goes on
        ASSUME ghost[w].pc \in AtSymbol, NEW pc \in {"record", "guard", "execute"}, ghost' = [ghost EXCEPT ![w] = to(pc)],
               cycles' \in C, cycles'.total = cycles.total,
               cycles'.ok + cycles'.blocked + cycles'.other =
                 cycles.ok + cycles.blocked + cycles.other + IF pc = "record" THEN 1 ELSE 0
        PROVE  CyclesAddUp'
    <2>1. to(pc).pc = pc /\ ghost[w].pc # "record"
      BY <1>5, <1>6, <1>8 DEF AtSymbol
    <2>2. Cardinality(Recording) \in Nat
          /\ Cardinality(Recording') = Cardinality(Recording) + IF pc = "record" THEN 1 ELSE 0
      <3>1. CASE pc = "record"
        BY <1>1, <1>8, <2>1, <3>1, RecordingMoves
      <3>2. CASE pc # "record"
        <4>1. Cardinality(Recording) \in Nat /\ Cardinality(Recording') = Cardinality(Recording)
          BY <1>1, <1>8, <2>1, <3>2, RecordingMoves
        <4> QED BY <3>2, <4>1
      <3> QED BY <3>1, <3>2
    <2>3. cycles.total + Cardinality(Recording) = cycles.ok + cycles.blocked + cycles.other
      BY <1>1 DEF CyclesAddUp, Recording
    <2>4. cycles'.total + Cardinality(Recording') = cycles'.ok + cycles'.blocked + cycles'.other
      BY <1>7, <1>8, <2>2, <2>3
    <2> QED BY <2>4 DEF CyclesAddUp, Recording
  <1>9. CASE FetchFails(w)
    <2>1. ghost[w].pc = "fetch" /\ ghost' = [ghost EXCEPT ![w] = to("record")] /\ sent' = sent
          /\ cycles' = [cycles EXCEPT !.other = @ + 1]
      BY <1>9 DEF FetchFails, to
    <2>2. cycles' \in C /\ cycles'.total = cycles.total /\ cycles'.ok = cycles.ok /\ cycles'.blocked = cycles.blocked
          /\ cycles'.other = cycles.other + 1
      BY <1>1, <1>7, <2>1
    <2>3. CyclesAddUp'
      BY <1>7, <1>8, <2>1, <2>2 DEF AtSymbol
    <2> QED BY <1>1, <1>2, <1>4, <1>5, <1>6, <2>1, <2>2, <2>3 DEF AtSymbol
  <1>10. CASE Predict(w)
    <2>1. ghost[w].pc = "fetch" /\ ghost' = [ghost EXCEPT ![w] = to("guard")] /\ sent' = sent /\ cycles' = cycles
      BY <1>10 DEF Predict, to
    <2>2. CyclesAddUp'
      BY <1>1, <1>7, <1>8, <2>1 DEF AtSymbol
    <2> QED BY <1>1, <1>2, <1>4, <1>5, <1>6, <2>1, <2>2 DEF AtSymbol
  <1>11. CASE Guarded(w)
    <2>1. /\ ghost[w].pc = "guard" /\ sent' = sent
          /\ \/ /\ ghost' = [ghost EXCEPT ![w] = to("record")]
                /\ cycles' = [cycles EXCEPT !.blocked = @ + 1] \/ cycles' = [cycles EXCEPT !.ok = @ + 1]
             \/ ghost' = [ghost EXCEPT ![w] = to("execute")] /\ cycles' = cycles
      BY <1>11 DEF Guarded, to
    <2>2. CASE ghost' = [ghost EXCEPT ![w] = to("record")] /\ cycles' = [cycles EXCEPT !.blocked = @ + 1]
      <3>1. cycles' \in C /\ cycles'.total = cycles.total /\ cycles'.ok = cycles.ok
            /\ cycles'.blocked = cycles.blocked + 1 /\ cycles'.other = cycles.other
        BY <1>1, <1>7, <2>2
      <3>2. CyclesAddUp'
        BY <1>7, <1>8, <2>1, <2>2, <3>1 DEF AtSymbol
      <3> QED BY <1>1, <1>2, <1>4, <1>5, <1>6, <2>1, <2>2, <3>1, <3>2 DEF AtSymbol
    <2>3. CASE ghost' = [ghost EXCEPT ![w] = to("record")] /\ cycles' = [cycles EXCEPT !.ok = @ + 1]
      <3>1. cycles' \in C /\ cycles'.total = cycles.total /\ cycles'.ok = cycles.ok + 1
            /\ cycles'.blocked = cycles.blocked /\ cycles'.other = cycles.other
        BY <1>1, <1>7, <2>3
      <3>2. CyclesAddUp'
        BY <1>7, <1>8, <2>1, <2>3, <3>1 DEF AtSymbol
      <3> QED BY <1>1, <1>2, <1>4, <1>5, <1>6, <2>1, <2>3, <3>1, <3>2 DEF AtSymbol
    <2>4. CASE ghost' = [ghost EXCEPT ![w] = to("execute")] /\ cycles' = cycles
      <3>1. CyclesAddUp'
        BY <1>1, <1>7, <1>8, <2>1, <2>4 DEF AtSymbol
      <3> QED BY <1>1, <1>2, <1>4, <1>5, <1>6, <2>1, <2>4, <3>1 DEF AtSymbol
    <2> QED BY <2>1, <2>2, <2>3, <2>4
  <1>12. CASE Execute(w)
    <2>1. ghost[w].pc = "execute" /\ ghost' = [ghost EXCEPT ![w] = to("record")]
      BY <1>12 DEF Execute, to
    <2>2. PICK filled \in {0, 1} :
            /\ cycles.bought + filled <= MaxGhostOrders
            /\ cycles' = [cycles EXCEPT !.ok = @ + 1, !.bought = @ + filled]
            /\ sent' = IF w \in Ghosts THEN [sent EXCEPT ![w] = @ + filled] ELSE sent
      BY <1>12 DEF Execute, Orders
    <2>3. cycles.bought + filled \in 0 .. MaxGhostOrders
      BY <1>7, <2>2, GhostAssumption
    <2>4. cycles' \in C /\ cycles'.total = cycles.total /\ cycles'.ok = cycles.ok + 1
            /\ cycles'.blocked = cycles.blocked /\ cycles'.other = cycles.other
      <3> DEFINE bought == cycles.bought + filled
             c == [cycles EXCEPT !.ok = @ + 1]
      <3>1. cycles' = [c EXCEPT !.bought = bought]
        BY <2>2
      <3>2. bought \in 0 .. MaxGhostOrders
        BY <2>3
      <3>3. c \in C /\ c.total = cycles.total /\ c.ok = cycles.ok + 1 /\ c.blocked = cycles.blocked
            /\ c.other = cycles.other
        BY <1>1, <1>7
      <3> HIDE DEF bought, c
      <3> QED BY <3>1, <3>2, <3>3
    <2>5. CyclesAddUp'
      BY <1>7, <1>8, <2>1, <2>4 DEF AtSymbol
    <2>6. sent' \in [Ghosts -> 0 .. MaxGhostOrders] /\ (\A k \in Ghosts \ {w} : sent'[k] = sent[k])
          /\ (w \in Ghosts => sent'[w] <= 1)
      <3>1. CASE w \in Ghosts
        <4>1. sent[w] = 0 /\ filled \in 0 .. MaxGhostOrders /\ 0 + filled = filled
          BY <1>2, <1>7, <2>1, <2>2, <3>1, GhostAssumption DEF AtSymbol
        <4>2. sent' = [sent EXCEPT ![w] = filled]
          BY <2>2, <3>1, <4>1
        <4> QED BY <1>2, <2>2, <4>1, <4>2
      <3>2. CASE w \notin Ghosts
        BY <1>2, <2>2, <3>2
      <3> QED BY <3>1, <3>2
    <2> QED BY <1>1, <1>4, <1>5, <1>6, <2>1, <2>4, <2>5, <2>6 DEF AtSymbol
  <1>13. CASE RecordCycle(w)
    <2> DEFINE pc == IF w \in Ghosts THEN "symbol" ELSE IF ghost[w].at < SymbolCount THEN "fetch" ELSE "dead"
               r == [pc |-> pc, at |-> ghost[w].at + 1]
    <2>1. ghost[w].pc = "record" /\ cycles' = [cycles EXCEPT !.total = @ + 1] /\ sent' = sent
          /\ ghost' = [ghost EXCEPT ![w] = r]
      BY <1>1, <1>13 DEF RecordCycle, Recorded
    <2>2. ghost[w].at + 1 \in 1 .. SymbolCount + 1
      BY <1>1, GhostAssumption
    <2>3. r \in R /\ r.pc \in {"symbol", "fetch", "dead"} /\ (r.pc = "fetch" => w \notin Ghosts /\ r.at <= SymbolCount)
      BY <1>1, <1>6, <2>2, GhostAssumption
    <2> HIDE DEF r, pc
    <2>4. cycles' \in C /\ cycles'.total = cycles.total + 1 /\ cycles'.ok = cycles.ok
            /\ cycles'.blocked = cycles.blocked /\ cycles'.other = cycles.other
      BY <1>1, <1>7, <2>1
    <2>5. Cardinality(Recording) \in Nat /\ Cardinality(Recording') = Cardinality(Recording) - 1
      BY <1>1, <2>1, <2>3, RecordingMoves
    <2>6. cycles.total + Cardinality(Recording) = cycles.ok + cycles.blocked + cycles.other
      BY <1>1 DEF CyclesAddUp, Recording
    <2>7. cycles'.total + Cardinality(Recording') = cycles'.ok + cycles'.blocked + cycles'.other
      BY <1>7, <2>4, <2>5, <2>6
    <2>8. CyclesAddUp'
      BY <2>7 DEF CyclesAddUp, Recording
    <2> QED BY <1>2, <1>4, <2>1, <2>3, <2>4, <2>8 DEF AtSymbol
  <1> QED BY <1>9, <1>10, <1>11, <1>12, <1>13 DEF Process

(* The invariant implies what the run checks.                               *)
LEMMA GhostInvImplies == GhostInv => GhostControlled
  <1> SUFFICES ASSUME GhostInv PROVE OneGhost /\ StoppedTradesOnce
    BY DEF GhostInv, GhostControlled
  <1>1. OneGhost
    <2>1. \A g \in GhostAlive \ left : g = machine.thread
      BY DEF GhostInv, ThreadKnown
    <2> QED BY <2>1, AtMostOne DEF OneGhost
  <1>2. StoppedTradesOnce
    BY DEF GhostInv, StopWaits, SentOnce, StoppedTradesOnce
  <1> QED BY <1>1, <1>2

(* GhostControlled: one thread trades, a stopped one trades at most once    *)
(* more, and every cycle is counted once, for any number of starts and      *)
(* symbols.                                                                 *)
THEOREM GhostIsControlled == GhostSpec => []GhostControlled
  <1>1. GhostInv /\ [GhostNext]_ghostVars => GhostInv'
    <2> SUFFICES ASSUME GhostInv, [GhostNext]_ghostVars PROVE GhostInv'
      OBVIOUS
    <2>1. CASE UNCHANGED ghostVars
      BY <2>1 DEF ghostVars, GhostInv, GhostTypeOK, GhostsNumbered, NextGhost, WithinSymbols, SentOnce, ThreadKnown,
                  StopWaits, ApiIdle, CyclesAddUp, GhostAlive
    <2>2. ASSUME NEW g \in Ghosts, GhostStep(g) PROVE GhostInv'
      BY <2>2, LoopOwnStep, ProcessStep DEF GhostStep, GhostWorkers
    <2>3. CASE Process(Api)
      BY <2>3, ProcessStep DEF GhostWorkers
    <2> QED BY <2>1, <2>2, <2>3, GhostStartStep, RouteStep, ManualStep DEF GhostNext
  <1> QED BY <1>1, GhostInvInit, GhostInvImplies, PTL DEF GhostSpec

-----------------------------------------------------------------------------
(* Notifications. *)
NoteTyped ==
  /\ registered \in [Users -> 0 .. Len(lists)] /\ lists \in Seq(Seq(Connections))
  /\ sending \in [Sends -> [pc : {"none", "channel", "sockets", "sent"}, user : Users,
                            wanted : SUBSET ToSet(Channels), channel : 1 .. 3, list : 0 .. Len(lists), at : Nat]]
  /\ open \in [Connections -> {"new", "open", "closed"}] /\ received \in [Connections -> Seq(Sends)]
  /\ whole \in [Sends -> SUBSET Connections] /\ handled \subseteq Sends /\ deliveryHandlers \subseteq ToSet(Channels)

(* No list is empty, and none holds a connection twice or connections of two users. *)
ListsSound ==
  \A k \in DOMAIN lists :
    /\ lists[k] # <<>> /\ IsInjective(lists[k])
    /\ \A i, j \in DOMAIN lists[k] : Owner(lists[k][i]) = Owner(lists[k][j])

Got(n, c) == n \in ToSet(received[c])
ListOf(n) == lists[sending[n].list]

(* How far a send has come: nothing is sent before the websocket channel; while it goes through its list, exactly
   the connections before its position have had their turn, and those registered throughout have got it.      *)
SendSound(n) ==
  /\ sending[n].pc = "none" => sending[n].channel = 1 /\ n \notin handled
  /\ sending[n].pc \in {"none", "channel"} /\ sending[n].channel = 1 =>
       /\ \A c \in Connections : ~Got(n, c)
       /\ n \in handled => "websocket" \in sending[n].wanted /\ "websocket" \in deliveryHandlers
  /\ sending[n].pc = "sockets" =>
       /\ sending[n].channel = 1 /\ sending[n].list \in DOMAIN lists /\ sending[n].at \in 1 .. Len(ListOf(n)) + 1
       /\ \A j \in DOMAIN ListOf(n) : Owner(ListOf(n)[j]) = sending[n].user
       /\ whole[n] \subseteq ToSet(ListOf(n))
       /\ \A c \in Connections : Got(n, c) => \E j \in DOMAIN ListOf(n) : j < sending[n].at /\ ListOf(n)[j] = c
       /\ \A j \in DOMAIN ListOf(n) : j < sending[n].at /\ ListOf(n)[j] \in whole[n] => Got(n, ListOf(n)[j])
  /\ sending[n].pc \in {"channel", "sent"} /\ sending[n].channel > 1 /\ n \in handled => \A c \in whole[n] : Got(n, c)
  /\ \A c \in whole[n] : open[c] = "open" /\ Owner(c) = sending[n].user

(* The inductive invariant behind NotifiedOnce. *)
NoteInv ==
  NoteTyped /\ ListsSound /\ RegisteredAreOpen /\ ReceivedOnce /\ \A n \in Sends : SendSound(n)

(* A sequence without repetition: one more element, one less. *)
LEMMA AppendedOnce ==
  ASSUME NEW S, NEW s \in Seq(S), IsInjective(s), NEW e \in S, e \notin ToSet(s)
  PROVE  /\ Append(s, e) \in Seq(S) /\ IsInjective(Append(s, e)) /\ ToSet(Append(s, e)) = ToSet(s) \cup {e}
         /\ Len(Append(s, e)) = Len(s) + 1 /\ Append(s, e)[Len(s) + 1] = e /\ \A k \in DOMAIN s : Append(s, e)[k] = s[k]
  <1>1. Len(s) \in Nat /\ DOMAIN s = 1 .. Len(s)
    OBVIOUS
  <1> DEFINE r == Append(s, e)
  <1>2. /\ r \in Seq(S) /\ Len(r) = Len(s) + 1 /\ DOMAIN r = 1 .. Len(s) + 1 /\ r[Len(s) + 1] = e
        /\ \A k \in 1 .. Len(s) : r[k] = s[k]
    BY <1>1
  <1> HIDE DEF r
  <1>3. \A k \in DOMAIN r : (k \in DOMAIN s /\ r[k] = s[k]) \/ (k = Len(s) + 1 /\ r[k] = e)
    BY <1>1, <1>2
  <1>4. ToSet(r) = ToSet(s) \cup {e}
    <2>1. Len(s) + 1 \in DOMAIN r /\ DOMAIN s \subseteq DOMAIN r
      BY <1>1, <1>2
    <2> QED BY <1>1, <1>2, <1>3, <2>1 DEF ToSet
  <1>5. IsInjective(r)
    <2>1. \A k \in DOMAIN s : s[k] # e
      BY DEF ToSet
    <2> QED BY <1>3, <2>1 DEF IsInjective
  <1> QED BY <1>1, <1>2, <1>4, <1>5 DEF r

(* A list without one of its connections: the others, once each; it is empty when that was the only one. *)
LEMMA WithoutOne ==
  ASSUME NEW S, NEW s \in Seq(S), IsInjective(s), NEW e \in ToSet(s)
  PROVE  /\ ListWithout(s, e) \in Seq(S) /\ IsInjective(ListWithout(s, e)) /\ ToSet(ListWithout(s, e)) = ToSet(s) \ {e}
         /\ (ListWithout(s, e) = <<>> <=> ToSet(s) = {e})
  <1> DEFINE p == CHOOSE k \in DOMAIN s : s[k] = e
             r == SubSeq(s, 1, p - 1) \o SubSeq(s, p + 1, Len(s))
  <1>1. Len(s) \in Nat /\ DOMAIN s = 1 .. Len(s)
    OBVIOUS
  <1>2. p \in 1 .. Len(s) /\ s[p] = e
    <2>1. \E k \in DOMAIN s : s[k] = e
      BY DEF ToSet
    <2> QED BY <1>1, <2>1
  <1>3. ListWithout(s, e) = r
    BY DEF ListWithout, RemoveAt
  <1> HIDE DEF p
  <1> DEFINE a == SubSeq(s, 1, p - 1)
             b == SubSeq(s, p + 1, Len(s))
  <1>4. a \in Seq(S) /\ Len(a) = p - 1 /\ \A k \in 1 .. p - 1 : a[k] = s[k]
    BY <1>1, <1>2
  <1>5. b \in Seq(S) /\ Len(b) = Len(s) - p /\ \A k \in 1 .. Len(s) - p : b[k] = s[k + p]
    <2>1. CASE p = Len(s)
      BY <1>1, <1>2, <2>1
    <2>2. CASE p < Len(s)
      <3> DEFINE q == p + 1
      <3>1. q \in 1 .. Len(s) /\ Len(s) - q + 1 = Len(s) - p /\ q - 1 = p
        BY <1>1, <1>2, <2>2
      <3> HIDE DEF q
      <3>2. /\ SubSeq(s, q, Len(s)) \in Seq(S) /\ Len(SubSeq(s, q, Len(s))) = Len(s) - q + 1
            /\ \A k \in 1 .. Len(s) - q + 1 : SubSeq(s, q, Len(s))[k] = s[k + (q - 1)]
        BY <1>1, <3>1
      <3>3. b = SubSeq(s, q, Len(s))
        BY DEF q
      <3> HIDE DEF b
      <3> QED BY <3>1, <3>2, <3>3
    <2>3. p = Len(s) \/ p < Len(s)
      <3>1. p \in Int /\ Len(s) \in Int /\ p <= Len(s)
        BY <1>1, <1>2
      <3> QED BY <3>1
    <2> HIDE DEF b
    <2> QED BY <2>1, <2>2, <2>3
  <1> HIDE DEF a, b
  <1>6. /\ r \in Seq(S) /\ Len(r) = Len(s) - 1 /\ DOMAIN r = 1 .. Len(s) - 1
        /\ \A k \in 1 .. Len(s) - 1 : r[k] = IF k < p THEN s[k] ELSE s[k + 1]
    <2>1. p - 1 \in Nat /\ Len(s) - p \in Nat /\ (p - 1) + (Len(s) - p) = Len(s) - 1
      BY <1>1, <1>2
    <2>2. r = a \o b
      BY DEF a, b
    <2> HIDE DEF r
    <2>3. r \in Seq(S) /\ Len(r) = Len(s) - 1 /\ DOMAIN r = 1 .. Len(s) - 1
      BY <1>4, <1>5, <2>1, <2>2
    <2>4. \A k \in 1 .. Len(s) - 1 : k < p => r[k] = s[k]
      BY <1>1, <1>2, <1>4, <1>5, <2>1, <2>2
    <2>5. ASSUME NEW k \in 1 .. Len(s) - 1, ~(k < p) PROVE r[k] = s[k + 1]
      <3>1. k - (p - 1) \in 1 .. Len(s) - p /\ (k - (p - 1)) + p = k + 1 /\ k > p - 1
        BY <1>1, <1>2, <2>5
      <3>2. r[k] = b[k - (p - 1)]
        BY <1>1, <1>4, <1>5, <2>1, <2>2, <3>1
      <3> QED BY <1>5, <3>1, <3>2
    <2> QED BY <2>3, <2>4, <2>5
  <1> HIDE DEF r
  <1> DEFINE old(k) == IF k < p THEN k ELSE k + 1
  <1>7. \A k \in DOMAIN r : k \in Nat /\ old(k) \in DOMAIN s /\ old(k) # p /\ r[k] = s[old(k)]
    BY <1>1, <1>2, <1>6
  <1>8. IsInjective(r)
    <2> SUFFICES ASSUME NEW j \in DOMAIN r, NEW k \in DOMAIN r, r[j] = r[k] PROVE j = k
      BY DEF IsInjective
    <2>1. old(j) = old(k)
      BY <1>7 DEF IsInjective
    <2> QED BY <1>2, <1>7, <2>1
  <1>9. ToSet(r) = ToSet(s) \ {e}
    <2>1. \A k \in DOMAIN r : r[k] \in ToSet(s) \ {e}
      BY <1>1, <1>2, <1>7 DEF IsInjective, ToSet
    <2>2. ASSUME NEW k \in DOMAIN s, s[k] # e PROVE \E j \in DOMAIN r : r[j] = s[k]
      <3>1. k \in 1 .. Len(s) /\ k # p
        BY <1>1, <1>2, <2>2
      <3>2. CASE k < p
        <4>1. k \in DOMAIN r /\ r[k] = s[k]
          BY <1>1, <1>2, <1>6, <3>1, <3>2
        <4> QED BY <4>1
      <3>3. CASE k > p
        <4>1. k - 1 \in DOMAIN r /\ ~(k - 1 < p) /\ (k - 1) + 1 = k
          BY <1>1, <1>2, <1>6, <3>1, <3>3
        <4>2. r[k - 1] = s[k]
          BY <1>6, <4>1
        <4> QED BY <4>1, <4>2
      <3> QED BY <1>1, <1>2, <3>1, <3>2, <3>3
    <2>3. \A x \in ToSet(s) : \E k \in DOMAIN s : s[k] = x
      BY DEF ToSet
    <2> QED BY <2>1, <2>2, <2>3 DEF ToSet
  <1>10. r = <<>> <=> ToSet(s) = {e}
    <2>1. r = <<>> <=> DOMAIN r = {}
      BY <1>6
    <2>2. DOMAIN r = {} <=> ToSet(r) = {}
      BY DEF ToSet
    <2> QED BY <1>9, <2>1, <2>2
  <1> QED BY <1>3, <1>6, <1>8, <1>9, <1>10

(* Lists only grow, at the end, by connections of the same user. *)
ListGrows(k) ==
  /\ k \in DOMAIN lists' /\ Len(lists[k]) <= Len(lists'[k]) /\ \A j \in DOMAIN lists[k] : lists'[k][j] = lists[k][j]
  /\ \A j \in DOMAIN lists'[k] : \E i \in DOMAIN lists[k] : Owner(lists'[k][j]) = Owner(lists[k][i])

(* A list that stays as it is. *)
LEMMA SameListGrows ==
  ASSUME NoteTyped, ListsSound, NEW k \in DOMAIN lists, k \in DOMAIN lists', lists'[k] = lists[k]
  PROVE  ListGrows(k)
  <1>1. lists[k] \in Seq(Connections) /\ Len(lists[k]) \in Nat
    BY DEF NoteTyped
  <1> QED BY <1>1 DEF ListGrows

(* A send that does not move stays sound while lists grow and connections close. *)
LEMMA SendKept ==
  ASSUME NoteTyped, NoteTyped', NEW n \in Sends, SendSound(n), sending'[n] = sending[n],
         \A k \in DOMAIN lists : ListGrows(k), whole'[n] \subseteq whole[n],
         n \in handled' <=> n \in handled, deliveryHandlers \subseteq deliveryHandlers',
         \A c \in Connections : Got(n, c)' <=> Got(n, c), \A c \in whole'[n] : open'[c] = "open"
  PROVE  SendSound(n)'
  <1> DEFINE m == sending[n]
  <1>1. whole[n] \subseteq Connections /\ whole'[n] \subseteq Connections
    BY DEF NoteTyped
  <1>2. /\ m.pc = "none" => m.channel = 1 /\ n \notin handled'
        /\ m.pc \in {"none", "channel"} /\ m.channel = 1 =>
             (\A c \in Connections : ~Got(n, c)') /\ (n \in handled' => "websocket" \in m.wanted /\ "websocket" \in deliveryHandlers')
        /\ m.pc \in {"channel", "sent"} /\ m.channel > 1 /\ n \in handled' => \A c \in whole'[n] : Got(n, c)'
        /\ \A c \in whole'[n] : open'[c] = "open" /\ Owner(c) = m.user
    BY <1>1 DEF SendSound
  <1>3. CASE m.pc = "sockets"
    <2> DEFINE k == m.list
               l == lists[k]
               g == lists'[k]
    <2>1. /\ m.channel = 1 /\ k \in DOMAIN lists /\ m.at \in 1 .. Len(l) + 1
          /\ \A j \in DOMAIN l : Owner(l[j]) = m.user
          /\ whole[n] \subseteq ToSet(l)
          /\ \A c \in Connections : Got(n, c) => \E j \in DOMAIN l : j < m.at /\ l[j] = c
          /\ \A j \in DOMAIN l : j < m.at /\ l[j] \in whole[n] => Got(n, l[j])
      BY <1>3 DEF SendSound, ListOf
    <2>2. /\ k \in DOMAIN lists' /\ Len(l) <= Len(g) /\ \A j \in DOMAIN l : g[j] = l[j]
          /\ \A j \in DOMAIN g : \E i \in DOMAIN l : Owner(g[j]) = Owner(l[i])
      BY <2>1 DEF ListGrows
    <2>3. l \in Seq(Connections) /\ g \in Seq(Connections)
      BY <2>1, <2>2 DEF NoteTyped
    <2>4. Len(l) \in Nat /\ DOMAIN l = 1 .. Len(l) /\ Len(g) \in Nat /\ DOMAIN g = 1 .. Len(g)
          /\ \A j \in DOMAIN l : l[j] \in Connections
      BY <2>3
    <2> HIDE DEF l, g
    <2>5. DOMAIN l \subseteq DOMAIN g /\ m.at \in 1 .. Len(g) + 1
      BY <2>1, <2>2, <2>4
    <2>6. \A j \in DOMAIN g : Owner(g[j]) = m.user
      BY <2>1, <2>2
    <2>7. whole'[n] \subseteq ToSet(g)
      BY <2>1, <2>2, <2>5 DEF ToSet
    <2>8. \A c \in Connections : Got(n, c)' => \E j \in DOMAIN g : j < m.at /\ g[j] = c
      BY <2>1, <2>2, <2>5
    <2>9. \A j \in DOMAIN g : j < m.at /\ g[j] \in whole'[n] => n \in ToSet(received'[g[j]])
      <3> SUFFICES ASSUME NEW j \in DOMAIN g, j < m.at, g[j] \in whole'[n] PROVE n \in ToSet(received'[g[j]])
        OBVIOUS
      <3>1. j \in DOMAIN l
        BY <2>1, <2>4
      <3>2. PICK c \in Connections : c = l[j]
        BY <2>4, <3>1
      <3>3. c = g[j] /\ Got(n, c)
        BY <2>1, <2>2, <3>1, <3>2
      <3>4. Got(n, c)'
        BY <3>3
      <3> QED BY <3>3, <3>4 DEF Got
    <2>10. \A c \in Connections : n \in ToSet(received'[c]) => \E j \in DOMAIN g : j < m.at /\ g[j] = c
      BY <2>8 DEF Got
    <2>11. sending'[n] = m /\ lists'[k] = g /\ m.pc = "sockets" /\ \A c \in whole'[n] : open'[c] = "open" /\ Owner(c) = m.user
      BY <1>2, <1>3 DEF g
    <2> HIDE DEF m, k
    <2> QED BY <2>1, <2>2, <2>5, <2>6, <2>7, <2>9, <2>10, <2>11 DEF SendSound, ListOf, Got, k
  <1>4. CASE m.pc # "sockets"
    BY <1>2, <1>4 DEF SendSound
  <1> QED BY <1>3, <1>4

(* The connections of a user are one list's, and no other user's. *)
LEMMA RegisteredApart ==
  ASSUME NoteTyped, RegisteredAreOpen, ListsSound, NEW u \in Users, NEW v \in Users, registered[u] # 0,
         registered[u] = registered[v]
  PROVE  u = v
  <1>1. registered[u] \in DOMAIN lists /\ Conns(u) = lists[registered[u]] /\ Conns(v) = lists[registered[u]]
    BY DEF NoteTyped, Conns
  <1>2. Conns(u) # <<>> /\ Conns(u) \in Seq(Connections)
    BY <1>1 DEF ListsSound, NoteTyped
  <1>3. 1 \in DOMAIN Conns(u)
    BY <1>2
  <1>4. Conns(u)[1] \in ToSet(Conns(u)) /\ Conns(u)[1] \in ToSet(Conns(v))
    BY <1>1, <1>3 DEF ToSet
  <1> QED BY <1>4 DEF RegisteredAreOpen

(* The connections registered for a user. *)
LEMMA ConnsTyped ==
  ASSUME NoteTyped, ListsSound, NEW u \in Users
  PROVE  Conns(u) \in Seq(Connections) /\ IsInjective(Conns(u)) /\ (registered[u] # 0 => registered[u] \in DOMAIN lists)
  <1>1. registered[u] \in 0 .. Len(lists)
    BY DEF NoteTyped
  <1>2. CASE registered[u] = 0
    BY <1>2 DEF Conns, IsInjective
  <1>3. CASE registered[u] # 0
    BY <1>1, <1>3 DEF Conns, NoteTyped, ListsSound
  <1> QED BY <1>2, <1>3

(* The list of one user is changed or replaced. *)
LEMMA Rewired ==
  ASSUME NoteTyped, ListsSound, RegisteredAreOpen, NEW c \in Connections, NEW r, NEW list \in Seq(Connections), IsInjective(list),
         registered' = [registered EXCEPT ![Owner(c)] = r], lists' \in Seq(Seq(Connections)),
         \A k \in DOMAIN lists : k \in DOMAIN lists',
         \A k \in DOMAIN lists' : k # r => k \in DOMAIN lists /\ lists'[k] = lists[k],
         (r = 0 /\ list = <<>>) \/ (r \in DOMAIN lists' /\ lists'[r] = list /\ list # <<>>),
         \A v \in Users : v # Owner(c) => registered[v] = 0 \/ registered[v] # r,
         \A d \in Connections : d # c => open'[d] = open[d],
         ToSet(list) = {d \in Connections : open'[d] = "open" /\ Owner(d) = Owner(c)}
  PROVE  ListsSound' /\ RegisteredAreOpen' /\ registered' \in [Users -> 0 .. Len(lists')]
  <1>1. Owner(c) \in Users /\ registered \in [Users -> 0 .. Len(lists)] /\ lists \in Seq(Seq(Connections))
    BY NoteAssumption DEF NoteTyped
  <1>2. /\ Len(lists) \in Nat /\ DOMAIN lists = 1 .. Len(lists) /\ Len(lists') \in Nat /\ DOMAIN lists' = 1 .. Len(lists')
        /\ Len(lists) <= Len(lists')
    <2>1. Len(lists) \in Nat /\ DOMAIN lists = 1 .. Len(lists) /\ Len(lists') \in Nat /\ DOMAIN lists' = 1 .. Len(lists')
      BY <1>1
    <2>2. Len(lists) = 0 \/ Len(lists) \in DOMAIN lists
      BY <2>1
    <2> QED BY <2>1, <2>2
  <1>3. registered'[Owner(c)] = r /\ \A v \in Users : v # Owner(c) => registered'[v] = registered[v]
    BY <1>1
  <1>4. registered' \in [Users -> 0 .. Len(lists')]
    <2>1. r \in 0 .. Len(lists') /\ 0 .. Len(lists) \subseteq 0 .. Len(lists')
      BY <1>2
    <2> QED BY <1>1, <2>1
  <1>5. \A i \in DOMAIN list : Owner(list[i]) = Owner(c)
    BY DEF ToSet
  <1>6. ListsSound'
    <2> SUFFICES ASSUME NEW k \in DOMAIN lists'
                 PROVE  /\ lists'[k] # <<>> /\ IsInjective(lists'[k])
                        /\ \A i, j \in DOMAIN lists'[k] : Owner(lists'[k][i]) = Owner(lists'[k][j])
      BY DEF ListsSound
    <2>1. CASE k = r
      <3>1. lists'[k] = list /\ list # <<>>
        BY <1>2, <2>1
      <3> QED BY <1>5, <3>1
    <2>2. CASE k # r
      BY <2>2 DEF ListsSound
    <2> QED BY <2>1, <2>2
  <1>7. RegisteredAreOpen'
    <2> SUFFICES ASSUME NEW v \in Users
                 PROVE  ToSet(Conns(v)') = {d \in Connections : open'[d] = "open" /\ Owner(d) = v}
      BY DEF RegisteredAreOpen
    <2>1. CASE v = Owner(c)
      <3>1. Conns(v)' = list
        BY <1>2, <1>3, <2>1 DEF Conns
      <3> QED BY <2>1, <3>1
    <2>2. CASE v # Owner(c)
      <3>1. Conns(v)' = Conns(v)
        <4>1. registered'[v] = registered[v] /\ registered[v] \in 0 .. Len(lists)
          BY <1>1, <1>3, <2>2
        <4>2. CASE registered[v] = 0
          BY <4>1, <4>2 DEF Conns
        <4>3. CASE registered[v] # 0
          <5>1. registered[v] # r /\ registered[v] \in DOMAIN lists'
            BY <1>2, <2>2, <4>1, <4>3
          <5>2. lists'[registered[v]] = lists[registered[v]]
            BY <5>1
          <5> QED BY <4>1, <4>3, <5>2 DEF Conns
        <4> QED BY <4>2, <4>3
      <3>2. ToSet(Conns(v)) = {d \in Connections : open[d] = "open" /\ Owner(d) = v}
        BY DEF RegisteredAreOpen
      <3>3. {d \in Connections : open'[d] = "open" /\ Owner(d) = v} = {d \in Connections : open[d] = "open" /\ Owner(d) = v}
        BY <2>2
      <3> QED BY <3>1, <3>2, <3>3
    <2> QED BY <2>1, <2>2
  <1> QED BY <1>4, <1>6, <1>7

(* What is kept when only lists and connections change. *)
LEMMA ReceivedKept ==
  ASSUME ReceivedOnce, received' = received, \A n \in Sends : sending'[n].user = sending[n].user,
         received \in [Connections -> Seq(Sends)]
  PROVE  ReceivedOnce'
  <1>1. \A c \in Connections : \A k \in DOMAIN received[c] : received[c][k] \in Sends
    OBVIOUS
  <1> QED BY <1>1 DEF ReceivedOnce

(* A connection opens: at the end of the list of its user, or in a new list. *)
LEMMA ConnectStep == ASSUME NoteInv, NEW c \in Connections, Connect(c) PROVE NoteInv'
  <1> DEFINE u == Owner(c)
  <1>0. NoteTyped /\ ListsSound /\ RegisteredAreOpen /\ ReceivedOnce /\ (\A n \in Sends : SendSound(n)) /\ u \in Users
    BY NoteAssumption DEF NoteInv
  <1>1. open[c] = "new" /\ open' = [open EXCEPT ![c] = "open"] /\ UNCHANGED <<deliveryHandlers, sending, received, whole, handled>>
    BY DEF Connect
  <1>2. /\ Conns(u) \in Seq(Connections) /\ IsInjective(Conns(u)) /\ (registered[u] # 0 => registered[u] \in DOMAIN lists)
        /\ lists \in Seq(Seq(Connections)) /\ Len(lists) \in Nat /\ DOMAIN lists = 1 .. Len(lists)
        /\ registered \in [Users -> 0 .. Len(lists)] /\ open \in [Connections -> {"new", "open", "closed"}]
    BY <1>0, ConnsTyped DEF NoteTyped
  <1> DEFINE list == Append(Conns(u), c)
  <1>3. c \notin ToSet(Conns(u)) /\ ToSet(Conns(u)) = {d \in Connections : open[d] = "open" /\ Owner(d) = u}
    BY <1>0, <1>1 DEF RegisteredAreOpen
  <1>4. /\ list \in Seq(Connections) /\ IsInjective(list) /\ ToSet(list) = ToSet(Conns(u)) \cup {c}
        /\ Len(list) = Len(Conns(u)) + 1 /\ list[Len(Conns(u)) + 1] = c /\ \A k \in DOMAIN Conns(u) : list[k] = Conns(u)[k]
    BY <1>2, <1>3, AppendedOnce
  <1>5. ToSet(list) = {d \in Connections : open'[d] = "open" /\ Owner(d) = u}
    BY <1>1, <1>2, <1>3, <1>4
  <1>6. list # <<>>
    <2>1. Len(Conns(u)) \in Nat /\ Len(<<>>) = 0
      BY <1>2
    <2> HIDE DEF list
    <2> QED BY <1>4, <2>1
  <1>7. PICK r \in DOMAIN lists' :
          /\ registered' = [registered EXCEPT ![u] = r] /\ lists' \in Seq(Seq(Connections)) /\ lists'[r] = list
          /\ (\A k \in DOMAIN lists : k \in DOMAIN lists') /\ (\A k \in DOMAIN lists' : k # r => k \in DOMAIN lists /\ lists'[k] = lists[k])
          /\ (\A v \in Users : v # u => registered[v] = 0 \/ registered[v] # r)
          /\ (r \in DOMAIN lists => registered[u] = r)
    <2>1. CASE registered[u] = 0
      <3>1. lists' = Append(lists, <<c>>) /\ registered' = [registered EXCEPT ![u] = Len(lists) + 1] /\ list = <<c>>
        BY <2>1 DEF Connect, Conns
      <3> HIDE DEF list
      <3>2. /\ lists' \in Seq(Seq(Connections)) /\ DOMAIN lists' = 1 .. Len(lists) + 1 /\ lists'[Len(lists) + 1] = list
            /\ \A k \in 1 .. Len(lists) : lists'[k] = lists[k]
        BY <1>2, <1>4, <3>1
      <3>3. Len(lists) + 1 \in DOMAIN lists' /\ Len(lists) + 1 \notin DOMAIN lists /\ \A v \in Users : registered[v] # Len(lists) + 1
        BY <1>2, <3>2
      <3>4. /\ \A k \in DOMAIN lists : k \in DOMAIN lists'
            /\ \A k \in DOMAIN lists' : k # Len(lists) + 1 => k \in DOMAIN lists /\ lists'[k] = lists[k]
        BY <1>2, <3>2
      <3> QED BY <3>1, <3>2, <3>3, <3>4
    <2>2. CASE registered[u] # 0
      <3>1. lists' = [lists EXCEPT ![registered[u]] = list] /\ registered' = registered
        BY <2>2 DEF Connect, Conns
      <3> HIDE DEF list
      <3>2. /\ registered[u] \in DOMAIN lists /\ DOMAIN lists' = DOMAIN lists /\ lists' \in Seq(Seq(Connections))
            /\ lists'[registered[u]] = list /\ \A k \in DOMAIN lists : k # registered[u] => lists'[k] = lists[k]
        BY <1>2, <1>4, <2>2, <3>1
      <3>3. \A v \in Users : v # u => registered[v] # registered[u]
        BY <1>0, <2>2, RegisteredApart
      <3>4. registered' = [registered EXCEPT ![u] = registered[u]]
        BY <1>0, <1>2, <3>1
      <3> QED BY <3>2, <3>3, <3>4
    <2> QED BY <2>1, <2>2
  <1> HIDE DEF list
  <1>8. \A d \in Connections : d # c => open'[d] = open[d]
    BY <1>1, <1>2
  <1>9. ListsSound' /\ RegisteredAreOpen' /\ registered' \in [Users -> 0 .. Len(lists')]
    BY <1>0, <1>4, <1>5, <1>6, <1>7, <1>8, Rewired
  <1>10. 0 .. Len(lists) \subseteq 0 .. Len(lists')
    <2>1. Len(lists) = 0 \/ Len(lists) \in DOMAIN lists
      BY <1>2
    <2>2. DOMAIN lists' = 1 .. Len(lists') /\ Len(lists') \in Nat
      BY <1>7
    <2> QED BY <1>2, <1>7, <2>1, <2>2
  <1>11. NoteTyped'
    <2>1. open' \in [Connections -> {"new", "open", "closed"}]
      BY <1>1, <1>2
    <2>2. sending' \in [Sends -> [pc : {"none", "channel", "sockets", "sent"}, user : Users,
                            wanted : SUBSET ToSet(Channels), channel : 1 .. 3, list : 0 .. Len(lists'), at : Nat]]
      BY <1>0, <1>1, <1>10 DEF NoteTyped
    <2> QED BY <1>0, <1>1, <1>7, <1>9, <2>1, <2>2 DEF NoteTyped
  <1>12. ASSUME NEW k \in DOMAIN lists PROVE ListGrows(k)
    <2>1. CASE lists'[k] = lists[k]
      BY <1>0, <1>7, <2>1, SameListGrows
    <2>2. CASE lists'[k] # lists[k]
      <3>1. k = r /\ registered[u] = k
        BY <1>7, <2>2
      <3>2. lists[k] = Conns(u) /\ lists'[k] = list
        BY <1>2, <1>7, <3>1 DEF Conns
      <3>3. Conns(u) # <<>> /\ Len(Conns(u)) \in Nat /\ DOMAIN Conns(u) = 1 .. Len(Conns(u)) /\ DOMAIN list = 1 .. Len(Conns(u)) + 1
        BY <1>0, <1>2, <1>4, <3>2 DEF ListsSound
      <3>4. 1 \in DOMAIN Conns(u)
        BY <1>2, <3>3
      <3>5. \A j \in DOMAIN list : Owner(list[j]) = u
        BY <1>5 DEF ToSet
      <3>6. \A i \in DOMAIN Conns(u) : Owner(Conns(u)[i]) = u
        BY <1>3 DEF ToSet
      <3>7. Len(Conns(u)) <= Len(list)
        BY <1>4, <3>3
      <3> QED BY <1>4, <1>7, <3>1, <3>2, <3>4, <3>5, <3>6, <3>7 DEF ListGrows
    <2> QED BY <2>1, <2>2
  <1>13. ASSUME NEW n \in Sends PROVE SendSound(n)'
    <2>1. \A d \in whole[n] : open[d] = "open" /\ d \in Connections
      BY <1>0 DEF SendSound, NoteTyped
    <2>2. \A d \in whole'[n] : open'[d] = "open"
      BY <1>1, <1>2, <1>8, <2>1
    <2>3. SendSound(n) /\ sending'[n] = sending[n] /\ whole'[n] \subseteq whole[n] /\ \A d \in Connections : Got(n, d)' <=> Got(n, d)
      BY <1>0, <1>1 DEF Got
    <2> QED BY <1>0, <1>1, <1>11, <1>12, <2>2, <2>3, SendKept
  <1>14. ReceivedOnce'
    BY <1>0, <1>1, ReceivedKept DEF NoteTyped
  <1> QED BY <1>9, <1>11, <1>13, <1>14 DEF NoteInv

(* A connection closes: a send that is on its way keeps the list it found. *)
LEMMA DisconnectStep == ASSUME NoteInv, NEW c \in Connections, Disconnect(c) PROVE NoteInv'
  <1> DEFINE u == Owner(c)
             list == ListWithout(Conns(u), c)
             r == IF list = <<>> THEN 0 ELSE Len(lists) + 1
  <1>0. NoteTyped /\ ListsSound /\ RegisteredAreOpen /\ ReceivedOnce /\ (\A n \in Sends : SendSound(n)) /\ u \in Users
    BY NoteAssumption DEF NoteInv
  <1>1. /\ open[c] = "open" /\ open' = [open EXCEPT ![c] = "closed"] /\ UNCHANGED <<deliveryHandlers, sending, received, handled>>
        /\ whole' = [n \in Sends |-> whole[n] \ {c}]
    BY DEF Disconnect
  <1>2. /\ Conns(u) \in Seq(Connections) /\ IsInjective(Conns(u))
        /\ lists \in Seq(Seq(Connections)) /\ Len(lists) \in Nat /\ DOMAIN lists = 1 .. Len(lists)
        /\ registered \in [Users -> 0 .. Len(lists)] /\ open \in [Connections -> {"new", "open", "closed"}]
    BY <1>0, ConnsTyped DEF NoteTyped
  <1>3. c \in ToSet(Conns(u)) /\ ToSet(Conns(u)) = {d \in Connections : open[d] = "open" /\ Owner(d) = u}
    BY <1>0, <1>1 DEF RegisteredAreOpen
  <1>4. list \in Seq(Connections) /\ IsInjective(list) /\ ToSet(list) = ToSet(Conns(u)) \ {c}
    BY <1>2, <1>3, WithoutOne
  <1>5. ToSet(list) = {d \in Connections : open'[d] = "open" /\ Owner(d) = u}
    BY <1>1, <1>2, <1>3, <1>4
  <1>6. /\ registered' = [registered EXCEPT ![u] = r]
        /\ lists' = IF list = <<>> THEN lists ELSE Append(lists, list)
    BY DEF Disconnect, AfterRemoval
  <1> HIDE DEF list
  <1>7. /\ lists' \in Seq(Seq(Connections)) /\ (\A k \in DOMAIN lists : k \in DOMAIN lists' /\ lists'[k] = lists[k])
        /\ (\A k \in DOMAIN lists' : k # r => k \in DOMAIN lists /\ lists'[k] = lists[k])
        /\ (\A v \in Users : registered[v] = 0 \/ registered[v] # r)
        /\ (r = 0 /\ list = <<>>) \/ (r \in DOMAIN lists' /\ lists'[r] = list /\ list # <<>>)
        /\ Len(lists') \in Nat /\ Len(lists) <= Len(lists')
    <2>1. CASE list = <<>>
      BY <1>2, <1>6, <2>1
    <2>2. CASE list # <<>>
      <3>1. lists' = Append(lists, list) /\ r = Len(lists) + 1
        BY <1>6, <2>2
      <3>2. /\ lists' \in Seq(Seq(Connections)) /\ DOMAIN lists' = 1 .. Len(lists) + 1 /\ lists'[Len(lists) + 1] = list
            /\ Len(lists') = Len(lists) + 1 /\ \A k \in 1 .. Len(lists) : lists'[k] = lists[k]
        BY <1>2, <1>4, <3>1
      <3> QED BY <1>2, <2>2, <3>1, <3>2
    <2> QED BY <2>1, <2>2
  <1>8. \A d \in Connections : d # c => open'[d] = open[d]
    BY <1>1, <1>2
  <1> HIDE DEF r
  <1>9. ListsSound' /\ RegisteredAreOpen' /\ registered' \in [Users -> 0 .. Len(lists')]
    BY <1>0, <1>4, <1>5, <1>6, <1>7, <1>8, Rewired
  <1>11. NoteTyped'
    <2>1. open' \in [Connections -> {"new", "open", "closed"}]
      BY <1>1, <1>2
    <2>2. sending' \in [Sends -> [pc : {"none", "channel", "sockets", "sent"}, user : Users,
                            wanted : SUBSET ToSet(Channels), channel : 1 .. 3, list : 0 .. Len(lists'), at : Nat]]
      <3>1. 0 .. Len(lists) \subseteq 0 .. Len(lists')
        BY <1>2, <1>7
      <3> QED BY <1>0, <1>1, <3>1 DEF NoteTyped
    <2>3. whole' \in [Sends -> SUBSET Connections]
      BY <1>0, <1>1 DEF NoteTyped
    <2> QED BY <1>0, <1>1, <1>7, <1>9, <2>1, <2>2, <2>3 DEF NoteTyped
  <1>12. \A k \in DOMAIN lists : ListGrows(k)
    BY <1>0, <1>7, SameListGrows
  <1>13. ASSUME NEW n \in Sends PROVE SendSound(n)'
    <2>1. \A d \in whole[n] : open[d] = "open" /\ d \in Connections
      BY <1>0 DEF SendSound, NoteTyped
    <2>2. whole'[n] = whole[n] \ {c}
      BY <1>1
    <2>3. \A d \in whole'[n] : open'[d] = "open"
      BY <1>8, <2>1, <2>2
    <2>4. SendSound(n) /\ sending'[n] = sending[n] /\ whole'[n] \subseteq whole[n] /\ \A d \in Connections : Got(n, d)' <=> Got(n, d)
      BY <1>0, <1>1, <2>2 DEF Got
    <2>5. (n \in handled' <=> n \in handled) /\ deliveryHandlers \subseteq deliveryHandlers'
      BY <1>1
    <2> QED BY <1>0, <1>11, <1>12, <2>3, <2>4, <2>5, SendKept
  <1>14. ReceivedOnce'
    BY <1>0, <1>1, ReceivedKept DEF NoteTyped
  <1> QED BY <1>9, <1>11, <1>13, <1>14 DEF NoteInv

(* A handler is registered: whoever has come past its channel stays without. *)
LEMMA RegisterStep == ASSUME NoteInv, NEW ch \in HandledChannels, RegisterHandler(ch) PROVE NoteInv'
  <1>0. NoteTyped /\ ListsSound /\ RegisteredAreOpen /\ ReceivedOnce /\ (\A n \in Sends : SendSound(n))
    BY DEF NoteInv
  <1>1. /\ deliveryHandlers' = deliveryHandlers \cup {ch} /\ ch \in {"websocket", "other"}
        /\ UNCHANGED <<registered, lists, sending, open, received, whole, handled>>
    BY NoteAssumption DEF RegisterHandler
  <1>2. NoteTyped'
    <2>1. {"websocket", "other"} \subseteq ToSet(Channels)
      <3>1. Channels = <<"websocket", "other">> /\ 1 \in DOMAIN Channels /\ 2 \in DOMAIN Channels
        BY DEF Channels
      <3> QED BY <3>1 DEF ToSet
    <2> QED BY <1>0, <1>1, <2>1 DEF NoteTyped
  <1>3. ListsSound' /\ RegisteredAreOpen' /\ ReceivedOnce'
    BY <1>0, <1>1 DEF ListsSound, RegisteredAreOpen, Conns, ReceivedOnce
  <1>4. ASSUME NEW n \in Sends PROVE SendSound(n)'
    <2>1. \A k \in DOMAIN lists : ListGrows(k)
      BY <1>0, <1>1, SameListGrows
    <2>2. \A c \in Connections : Got(n, c)' <=> Got(n, c)
      BY <1>1 DEF Got
    <2>3. \A c \in whole'[n] : open'[c] = "open"
      BY <1>0, <1>1 DEF SendSound
    <2> QED BY <1>0, <1>1, <1>2, <2>1, <2>2, <2>3, SendKept
  <1> QED BY <1>2, <1>3, <1>4 DEF NoteInv

(* The fields of a send. *)
SendRecords == [pc : {"none", "channel", "sockets", "sent"}, user : Users, wanted : SUBSET ToSet(Channels),
                channel : 1 .. 3, list : 0 .. Len(lists), at : Nat]

(* A send that goes on, field by field: its preference is found, its channel or its list. *)
LEMMA SendGoes ==
  ASSUME NEW s \in SendRecords, NEW pc, NEW wanted
  PROVE  [s EXCEPT !.pc = pc, !.wanted = wanted] =
           [pc |-> pc, user |-> s.user, wanted |-> wanted, channel |-> s.channel, list |-> s.list, at |-> s.at]
  <1> DEFINE r == [s EXCEPT !.pc = pc]
  <1>1. r = [pc |-> pc, user |-> s.user, wanted |-> s.wanted, channel |-> s.channel, list |-> s.list, at |-> s.at]
    BY DEF SendRecords
  <1>2. [s EXCEPT !.pc = pc, !.wanted = wanted] = [r EXCEPT !.wanted = wanted]
    OBVIOUS
  <1> HIDE DEF r
  <1> QED BY <1>1, <1>2

(* The same for its channel. *)
LEMMA SendGoesOn ==
  ASSUME NEW s \in SendRecords, NEW pc, NEW kth
  PROVE  [s EXCEPT !.pc = pc, !.channel = kth] =
           [pc |-> pc, user |-> s.user, wanted |-> s.wanted, channel |-> kth, list |-> s.list, at |-> s.at]
  <1> DEFINE r == [s EXCEPT !.pc = pc]
  <1>1. r = [pc |-> pc, user |-> s.user, wanted |-> s.wanted, channel |-> s.channel, list |-> s.list, at |-> s.at]
    BY DEF SendRecords
  <1>2. [s EXCEPT !.pc = pc, !.channel = kth] = [r EXCEPT !.channel = kth]
    OBVIOUS
  <1> HIDE DEF r
  <1> QED BY <1>1, <1>2

(* And for the list it iterates over. *)
LEMMA SendIterates ==
  ASSUME NEW s \in SendRecords, NEW pc, NEW list, NEW at
  PROVE  [s EXCEPT !.pc = pc, !.list = list, !.at = at] =
           [pc |-> pc, user |-> s.user, wanted |-> s.wanted, channel |-> s.channel, list |-> list, at |-> at]
  <1> DEFINE r == [s EXCEPT !.pc = pc]
             q == [r EXCEPT !.list = list]
  <1>1. r = [pc |-> pc, user |-> s.user, wanted |-> s.wanted, channel |-> s.channel, list |-> s.list, at |-> s.at]
    BY DEF SendRecords
  <1>2. [s EXCEPT !.pc = pc, !.list = list, !.at = at] = [q EXCEPT !.at = at]
    OBVIOUS
  <1> HIDE DEF r
  <1>3. q = [pc |-> pc, user |-> s.user, wanted |-> s.wanted, channel |-> s.channel, list |-> list, at |-> s.at]
    BY <1>1
  <1> HIDE DEF q
  <1> QED BY <1>2, <1>3

(* One send moves; lists and connections stay, and nobody else gets or loses anything. *)
LEMMA OneSendMoves ==
  ASSUME NoteInv, NEW n \in Sends, NEW next \in SendRecords, next.user = sending[n].user,
         sending' = [sending EXCEPT ![n] = next], UNCHANGED <<deliveryHandlers, registered, lists, open>>,
         handled' \subseteq Sends, \A m \in Sends : m # n => (m \in handled' <=> m \in handled),
         received' \in [Connections -> Seq(Sends)], ReceivedOnce,
         whole' \in [Sends -> SUBSET Connections], \A m \in Sends : m # n => whole'[m] = whole[m],
         \A m \in Sends, c \in Connections : m # n => (Got(m, c)' <=> Got(m, c)),
         ReceivedOnce', SendSound(n)'
  PROVE  NoteInv'
  <1>0. NoteTyped /\ ListsSound /\ RegisteredAreOpen /\ (\A m \in Sends : SendSound(m))
    BY DEF NoteInv
  <1>1. sending'[n] = next /\ \A m \in Sends : m # n => sending'[m] = sending[m]
    BY <1>0 DEF NoteTyped
  <1>2. sending' \in [Sends -> SendRecords]
    BY <1>0 DEF NoteTyped, SendRecords
  <1>3. NoteTyped'
    BY <1>0, <1>2 DEF NoteTyped, SendRecords
  <1>4. ListsSound' /\ RegisteredAreOpen'
    BY <1>0 DEF ListsSound, RegisteredAreOpen, Conns
  <1>5. ASSUME NEW m \in Sends, m # n PROVE SendSound(m)'
    <2>1. \A k \in DOMAIN lists : ListGrows(k)
      BY <1>0, SameListGrows
    <2>2. SendSound(m) /\ sending'[m] = sending[m] /\ whole'[m] \subseteq whole[m] /\ \A d \in Connections : Got(m, d)' <=> Got(m, d)
      BY <1>0, <1>1, <1>5
    <2>3. \A d \in whole'[m] : open'[d] = "open"
      BY <2>2 DEF SendSound
    <2> QED BY <1>0, <1>3, <2>1, <2>2, <2>3, SendKept
  <1> QED BY <1>3, <1>4, <1>5 DEF NoteInv

(* A notification is sent to a user: nothing has been sent of it yet. *)
LEMMA BeginStep == ASSUME NoteInv, NEW n \in Sends, BeginSend(n) PROVE NoteInv'
  <1>0. NoteTyped /\ ReceivedOnce /\ SendSound(n) /\ sending[n] \in SendRecords
    BY DEF NoteInv, NoteTyped, SendRecords
  <1>1. PICK enabled \in SUBSET ToSet(Channels) :
          /\ sending' = [sending EXCEPT ![n].pc = "channel", ![n].wanted = enabled]
          /\ handled' = IF "websocket" \in enabled \cap deliveryHandlers THEN handled \cup {n} ELSE handled
    BY DEF BeginSend
  <1>2. /\ sending[n].pc = "none" /\ UNCHANGED <<deliveryHandlers, registered, lists, open, received>>
        /\ whole' = [whole EXCEPT ![n] = ToSet(Conns(sending[n].user))]
    BY DEF BeginSend
  <1> DEFINE next == [pc |-> "channel", user |-> sending[n].user, wanted |-> enabled, channel |-> sending[n].channel,
                      list |-> sending[n].list, at |-> sending[n].at]
  <1>3. next \in SendRecords /\ sending' = [sending EXCEPT ![n] = next]
    <2>1. next = [sending[n] EXCEPT !.pc = "channel", !.wanted = enabled]
      BY <1>0, SendGoes
    <2>2. sending' = [sending EXCEPT ![n] = [sending[n] EXCEPT !.pc = "channel", !.wanted = enabled]]
      BY <1>0, <1>1 DEF NoteTyped
    <2> QED BY <1>0, <2>1, <2>2 DEF SendRecords
  <1>4. sending'[n] = next
    BY <1>0, <1>3 DEF NoteTyped
  <1>8. /\ whole' \in [Sends -> SUBSET Connections] /\ (\A m \in Sends : m # n => whole'[m] = whole[m])
        /\ whole'[n] = {c \in Connections : open[c] = "open" /\ Owner(c) = sending[n].user}
    <2>1. ToSet(Conns(sending[n].user)) = {c \in Connections : open[c] = "open" /\ Owner(c) = sending[n].user}
      BY <1>0 DEF NoteInv, RegisteredAreOpen, SendRecords
    <2> QED BY <1>0, <1>2, <2>1 DEF NoteTyped
  <1>9. handled' \subseteq Sends /\ \A m \in Sends : m # n => (m \in handled' <=> m \in handled)
    BY <1>0, <1>1 DEF NoteTyped
  <1>5. SendSound(n)'
    <2>1. sending[n].channel = 1 /\ n \notin handled /\ \A c \in Connections : ~Got(n, c)
      BY <1>0, <1>2 DEF SendSound
    <2>2. next.pc = "channel" /\ next.channel = 1 /\ next.wanted = enabled /\ next.user = sending[n].user
      BY <2>1
    <2> HIDE DEF next
    <2>3. n \in handled' => "websocket" \in enabled /\ "websocket" \in deliveryHandlers'
      BY <1>1, <1>2, <2>1
    <2>4. \A c \in whole'[n] : open'[c] = "open" /\ Owner(c) = next.user
      BY <1>2, <1>8, <2>2
    <2> QED BY <1>2, <1>4, <2>1, <2>2, <2>3, <2>4 DEF SendSound, Got
  <1>6. ReceivedOnce'
    <2>1. next.user = sending[n].user
      OBVIOUS
    <2> HIDE DEF next
    <2>2. \A m \in Sends : sending'[m].user = sending[m].user
      BY <1>0, <1>3, <2>1 DEF NoteTyped
    <2> QED BY <1>0, <1>2, <2>2, ReceivedKept DEF NoteTyped
  <1>7. next.user = sending[n].user
    OBVIOUS
  <1> HIDE DEF next
  <1> QED BY <1>0, <1>2, <1>3, <1>5, <1>6, <1>7, <1>8, <1>9, OneSendMoves DEF NoteTyped, Got

(* The next channel: for the websocket the iteration over the list of the user begins. *)
LEMMA NextChannelStep == ASSUME NoteInv, NEW n \in Sends, NextChannel(n) PROVE NoteInv'
  <1> DEFINE s == sending[n]
             found == registered[s.user]
             next == IF s.channel > Len(Channels) THEN [s EXCEPT !.pc = "sent"]
                     ELSE IF Channels[s.channel] = "websocket" /\ "websocket" \in s.wanted /\ Handled("websocket") /\ found # 0
                          THEN [s EXCEPT !.pc = "sockets", !.list = found, !.at = 1]
                          ELSE [s EXCEPT !.channel = @ + 1]
  <1>0. NoteTyped /\ ListsSound /\ RegisteredAreOpen /\ ReceivedOnce /\ SendSound(n) /\ s \in SendRecords
    BY DEF NoteInv, NoteTyped, SendRecords
  <1>1. /\ s.pc = "channel" /\ sending' = [sending EXCEPT ![n] = next]
        /\ UNCHANGED <<deliveryHandlers, registered, lists, open, received>>
        /\ sending'[n].pc = "sockets" => whole' = [whole EXCEPT ![n] = ToSet(Conns(s.user))] /\ handled' = handled \cup {n}
        /\ sending'[n].pc # "sockets" => UNCHANGED <<whole, handled>>
    BY DEF NextChannel
  <1>2. /\ s.user \in Users /\ s.channel \in 1 .. 3 /\ found \in 0 .. Len(lists) /\ Len(lists) \in Nat /\ DOMAIN lists = 1 .. Len(lists)
        /\ received \in [Connections -> Seq(Sends)] /\ whole \in [Sends -> SUBSET Connections] /\ sending \in [Sends -> SendRecords]
    BY <1>0 DEF NoteTyped, SendRecords
  <1>3. Len(Channels) = 2 /\ Channels[1] = "websocket" /\ Channels[2] = "other"
    BY DEF Channels
  <1>4. handled' \subseteq Sends /\ \A m \in Sends : m # n => whole'[m] = whole[m] /\ (m \in handled' <=> m \in handled)
    <2> HIDE DEF next
    <2> QED BY <1>0, <1>1, <1>2 DEF NoteTyped
  <1>5. ASSUME next \in SendRecords, next.user = s.user, next = sending'[n] => SendSound(n)', whole' \in [Sends -> SUBSET Connections]
        PROVE  NoteInv'
    <2> HIDE DEF next
    <2>1. sending'[n] = next /\ \A m \in Sends : sending'[m].user = sending[m].user
      BY <1>1, <1>2, <1>5
    <2>2. ReceivedOnce'
      BY <1>0, <1>1, <1>2, <2>1, ReceivedKept
    <2>3. \A m \in Sends, c \in Connections : m # n => (Got(m, c)' <=> Got(m, c))
      BY <1>1 DEF Got
    <2>4. received' \in [Connections -> Seq(Sends)] /\ SendSound(n)'
      BY <1>1, <1>2, <1>5, <2>1
    <2> QED BY <1>0, <1>1, <1>4, <1>5, <2>2, <2>3, <2>4, OneSendMoves
  <1>6. CASE s.channel > Len(Channels)
    <2>1. next = [pc |-> "sent", user |-> s.user, wanted |-> s.wanted, channel |-> s.channel, list |-> s.list, at |-> s.at]
      BY <1>0, <1>6 DEF SendRecords
    <2>2. next \in SendRecords /\ next.user = s.user /\ next.pc = "sent" /\ next.channel = s.channel /\ s.channel = 3
      <3>1. s.channel = 3
        BY <1>2, <1>3, <1>6
      <3> HIDE DEF next
      <3> QED BY <1>0, <2>1, <3>1 DEF SendRecords
    <2> HIDE DEF next
    <2>3. ASSUME next = sending'[n] PROVE SendSound(n)'
      <3>1. whole' = whole /\ handled' = handled
        BY <1>1, <2>2, <2>3
      <3> QED BY <1>0, <1>1, <2>2, <2>3, <3>1 DEF SendSound, Got
    <2>4. whole' = whole
      <3>1. sending'[n] = next
        BY <1>1, <1>2, <2>2
      <3> QED BY <1>1, <2>2, <3>1
    <2> QED BY <1>2, <1>5, <2>2, <2>3, <2>4
  <1>7. CASE ~(s.channel > Len(Channels)) /\ Channels[s.channel] = "websocket" /\ "websocket" \in s.wanted /\ Handled("websocket") /\ found # 0
    <2>1. next = [pc |-> "sockets", user |-> s.user, wanted |-> s.wanted, channel |-> s.channel, list |-> found, at |-> 1]
      <3>1. next = [s EXCEPT !.pc = "sockets", !.list = found, !.at = 1]
        BY <1>7
      <3> HIDE DEF next, found
      <3>2. [s EXCEPT !.pc = "sockets", !.list = found, !.at = 1] =
              [pc |-> "sockets", user |-> s.user, wanted |-> s.wanted, channel |-> s.channel, list |-> found, at |-> 1]
        <4>1. s \in SendRecords
          BY <1>0
        <4> HIDE DEF s
        <4> QED BY <4>1, SendIterates
      <3> QED BY <3>1, <3>2
    <2>2. /\ next \in SendRecords /\ next.user = s.user /\ next.pc = "sockets" /\ next.channel = s.channel /\ next.list = found
          /\ next.at = 1 /\ s.channel = 1
      BY <1>0, <1>2, <1>3, <1>7, <2>1 DEF SendRecords
    <2> HIDE DEF next
    <2>3. sending'[n] = next
      BY <1>1, <1>2, <2>2
    <2>4. /\ whole' = [whole EXCEPT ![n] = ToSet(Conns(s.user))] /\ Conns(s.user) = lists[found] /\ found \in DOMAIN lists
      BY <1>1, <1>2, <1>7, <2>2, <2>3 DEF Conns
    <2>5. ToSet(lists[found]) = {c \in Connections : open[c] = "open" /\ Owner(c) = s.user} /\ lists[found] \in Seq(Connections)
      BY <1>0, <1>2, <2>4 DEF RegisteredAreOpen, NoteTyped
    <2>6. whole' \in [Sends -> SUBSET Connections] /\ whole'[n] = ToSet(lists[found])
      BY <1>2, <2>4, <2>5
    <2>7. Len(lists[found]) \in Nat /\ 1 \in 1 .. Len(lists[found]) + 1
          /\ \A j \in DOMAIN lists[found] : j \in Nat /\ ~(j < 1) /\ Owner(lists[found][j]) = s.user
      BY <2>5 DEF ToSet
    <2>8. \A c \in Connections : ~Got(n, c)
      BY <1>0, <1>1, <2>2 DEF SendSound
    <2> HIDE DEF found, s
    <2>9. SendSound(n)'
      <3>1. \A c \in whole'[n] : open'[c] = "open" /\ Owner(c) = next.user
        BY <1>1, <2>2, <2>5, <2>6
      <3> QED BY <1>1, <2>2, <2>3, <2>4, <2>6, <2>7, <2>8, <3>1 DEF SendSound, ListOf, Got
    <2> QED BY <1>5, <2>2, <2>6, <2>9
  <1>8. CASE ~(s.channel > Len(Channels)) /\ ~(Channels[s.channel] = "websocket" /\ "websocket" \in s.wanted /\ Handled("websocket") /\ found # 0)
    <2>1. next = [pc |-> s.pc, user |-> s.user, wanted |-> s.wanted, channel |-> s.channel + 1, list |-> s.list, at |-> s.at]
      BY <1>0, <1>8 DEF SendRecords
    <2>2. /\ next \in SendRecords /\ next.user = s.user /\ next.pc = "channel" /\ next.channel = s.channel + 1
          /\ next.channel > 1 /\ next.channel # 1
      BY <1>0, <1>1, <1>2, <1>3, <1>8, <2>1 DEF SendRecords
    <2> HIDE DEF next
    <2>3. sending'[n] = next
      BY <1>1, <1>2, <2>2
    <2>4. whole' = whole /\ handled' = handled
      BY <1>1, <2>2, <2>3
    <2>5. n \in handled => \A c \in whole[n] : Got(n, c)
      <3>1. CASE s.channel = 1 /\ n \in handled
        <4>1. found = 0
          BY <1>0, <1>1, <1>2, <1>3, <1>8, <3>1 DEF SendSound, Handled
        <4>2. ToSet(Conns(s.user)) = {}
          BY <4>1 DEF Conns, ToSet
        <4>3. \A c \in whole[n] : c \in Connections /\ open[c] = "open" /\ Owner(c) = s.user
          BY <1>0, <1>2 DEF SendSound
        <4> QED BY <1>0, <1>2, <4>2, <4>3 DEF RegisteredAreOpen
      <3>2. CASE s.channel > 1
        BY <1>0, <1>1, <3>2 DEF SendSound
      <3> QED BY <1>2, <3>1, <3>2
    <2>6. SendSound(n)'
      BY <1>0, <1>1, <2>2, <2>3, <2>4, <2>5 DEF SendSound, Got
    <2> QED BY <1>2, <1>5, <2>2, <2>4, <2>6
  <1> QED BY <1>6, <1>7, <1>8

(* The iteration is at the end of its list: all that were there throughout have got the notification. *)
LEMMA SocketsDoneStep == ASSUME NoteInv, NEW n \in Sends, SocketsDone(n) PROVE NoteInv'
  <1> DEFINE s == sending[n]
             next == AfterSockets(n)
  <1>0. NoteTyped /\ ListsSound /\ ReceivedOnce /\ SendSound(n) /\ s \in SendRecords
    BY DEF NoteInv, NoteTyped, SendRecords
  <1>1. /\ s.pc = "sockets" /\ s.at > Len(ListOf(n)) /\ sending' = [sending EXCEPT ![n] = next]
        /\ UNCHANGED <<deliveryHandlers, registered, lists, open, received, whole, handled>>
    BY DEF SocketsDone, ListOf
  <1>2. s.channel = 1 /\ s.list \in DOMAIN lists /\ s.at \in 1 .. Len(ListOf(n)) + 1 /\ whole[n] \subseteq ToSet(ListOf(n))
        /\ \A j \in DOMAIN ListOf(n) : j < s.at /\ ListOf(n)[j] \in whole[n] => Got(n, ListOf(n)[j])
    BY <1>0, <1>1 DEF SendSound
  <1>3. next = [pc |-> "channel", user |-> s.user, wanted |-> s.wanted, channel |-> 2, list |-> s.list, at |-> s.at]
    <2>1. next = [s EXCEPT !.pc = "channel", !.channel = 2]
      BY <1>0, <1>2 DEF AfterSockets, SendRecords
    <2> HIDE DEF next
    <2> QED BY <1>0, <2>1, SendGoesOn
  <1>4. next \in SendRecords /\ next.user = s.user /\ next.pc = "channel" /\ next.channel = 2
    <2> HIDE DEF next
    <2> QED BY <1>0, <1>3 DEF SendRecords
  <1> HIDE DEF next
  <1>5. sending'[n] = next /\ \A m \in Sends : sending'[m].user = sending[m].user
    BY <1>0, <1>1, <1>4 DEF NoteTyped
  <1>6. \A c \in whole[n] : Got(n, c)
    <2> SUFFICES ASSUME NEW c \in whole[n] PROVE Got(n, c)
      OBVIOUS
    <2>1. PICK j \in DOMAIN ListOf(n) : ListOf(n)[j] = c
      BY <1>2 DEF ToSet
    <2>2. ListOf(n) \in Seq(Connections)
      BY <1>0, <1>2 DEF NoteTyped, ListOf
    <2>3. j < s.at
      BY <1>1, <1>2, <2>2
    <2> QED BY <1>2, <2>1, <2>3
  <1>7. SendSound(n)'
    <2>1. \A c \in whole[n] : open[c] = "open" /\ Owner(c) = next.user
      BY <1>0, <1>4 DEF SendSound
    <2> QED BY <1>1, <1>4, <1>5, <1>6, <2>1 DEF SendSound, Got
  <1>8. ReceivedOnce'
    BY <1>0, <1>1, <1>5, ReceivedKept DEF NoteTyped
  <1> QED BY <1>0, <1>1, <1>4, <1>7, <1>8, OneSendMoves DEF NoteTyped, Got

(* The connection at the position gets the notification, or is passed over when it has closed. *)
LEMMA SendToConnectionStep == ASSUME NoteInv, NEW n \in Sends, SendToConnection(n) PROVE NoteInv'
  <1> DEFINE s == sending[n]
             l == ListOf(n)
             c == l[s.at]
             next == [s EXCEPT !.at = @ + 1]
  <1>0. NoteTyped /\ ListsSound /\ ReceivedOnce /\ SendSound(n) /\ s \in SendRecords /\ \A m \in Sends : SendSound(m)
    BY DEF NoteInv, NoteTyped, SendRecords
  <1>1. /\ s.pc = "sockets" /\ s.at <= Len(l) /\ sending' = [sending EXCEPT ![n] = next]
        /\ received' = (IF open[c] = "open" THEN [received EXCEPT ![c] = Append(@, n)] ELSE received)
        /\ UNCHANGED <<deliveryHandlers, registered, lists, open, whole, handled>>
    <2>1. sending' = [sending EXCEPT ![n].at = @ + 1]
      BY DEF SendToConnection
    <2>2. sending' = [sending EXCEPT ![n] = next]
      BY <1>0, <2>1 DEF NoteTyped
    <2> QED BY <2>2 DEF SendToConnection, ListOf
  <1>2. /\ s.channel = 1 /\ s.list \in DOMAIN lists /\ s.at \in 1 .. Len(l) + 1
        /\ \A j \in DOMAIN l : Owner(l[j]) = s.user
        /\ whole[n] \subseteq ToSet(l)
        /\ \A d \in Connections : Got(n, d) => \E j \in DOMAIN l : j < s.at /\ l[j] = d
        /\ \A j \in DOMAIN l : j < s.at /\ l[j] \in whole[n] => Got(n, l[j])
        /\ \A d \in whole[n] : open[d] = "open" /\ Owner(d) = s.user
    BY <1>0, <1>1 DEF SendSound
  <1>3. l \in Seq(Connections) /\ Len(l) \in Nat /\ DOMAIN l = 1 .. Len(l) /\ IsInjective(l) /\ s.at \in Nat
    <2>1. l \in Seq(Connections) /\ IsInjective(l)
      BY <1>0, <1>2 DEF NoteTyped, ListsSound, ListOf
    <2> QED BY <1>2, <2>1
  <1>4. s.at \in DOMAIN l /\ c \in Connections /\ Owner(c) = s.user
    BY <1>1, <1>2, <1>3
  <1>5. ~Got(n, c)
    <2> SUFFICES ASSUME Got(n, c) PROVE FALSE
      OBVIOUS
    <2>1. PICK j \in DOMAIN l : j < s.at /\ l[j] = c
      BY <1>2, <1>4
    <2>2. j = s.at
      BY <1>3, <1>4, <2>1 DEF IsInjective
    <2> QED BY <1>3, <2>1, <2>2
  <1>6. next = [pc |-> "sockets", user |-> s.user, wanted |-> s.wanted, channel |-> s.channel, list |-> s.list, at |-> s.at + 1]
    BY <1>0, <1>1 DEF SendRecords
  <1>7. /\ next \in SendRecords /\ next.user = s.user /\ next.pc = "sockets" /\ next.channel = 1 /\ next.list = s.list
        /\ next.at = s.at + 1
    <2> HIDE DEF next
    <2> QED BY <1>0, <1>2, <1>3, <1>6 DEF SendRecords
  <1> HIDE DEF next
  <1>8. sending'[n] = next /\ \A m \in Sends : sending'[m].user = sending[m].user
    BY <1>0, <1>1, <1>7 DEF NoteTyped
  <1> HIDE DEF l, c
  <1>9. /\ received' \in [Connections -> Seq(Sends)] /\ \A d \in Connections : d # c => received'[d] = received[d]
        /\ received'[c] = IF open[c] = "open" THEN Append(received[c], n) ELSE received[c]
    BY <1>0, <1>1, <1>4 DEF NoteTyped
  <1>10. /\ received[c] \in Seq(Sends) /\ IsInjective(received[c]) /\ n \notin ToSet(received[c])
    BY <1>0, <1>4, <1>5 DEF NoteTyped, ReceivedOnce, Got
  <1> DEFINE r == Append(received[c], n)
  <1>11. /\ IsInjective(r) /\ ToSet(r) = ToSet(received[c]) \cup {n} /\ r \in Seq(Sends)
    BY <1>10, AppendedOnce
  <1> HIDE DEF r
  <1>12. \A m \in Sends, d \in Connections : Got(m, d)' <=> (Got(m, d) \/ (m = n /\ d = c /\ open[c] = "open"))
    BY <1>9, <1>11 DEF Got, r
  <1>13. ReceivedOnce'
    <2> SUFFICES ASSUME NEW d \in Connections
                 PROVE  IsInjective(received'[d]) /\ \A k \in DOMAIN received'[d] : sending'[received'[d][k]].user = Owner(d)
      BY DEF ReceivedOnce
    <2>1. /\ IsInjective(received[d]) /\ \A m \in ToSet(received[d]) : m \in Sends /\ sending[m].user = Owner(d)
      BY <1>0 DEF ReceivedOnce, ToSet, NoteTyped
    <2>2. CASE d # c \/ open[c] # "open"
      <3>1. received'[d] = received[d]
        BY <1>9, <2>2
      <3> QED BY <1>8, <2>1, <3>1 DEF ToSet
    <2>3. CASE d = c /\ open[c] = "open"
      <3>1. received'[d] = r /\ IsInjective(r) /\ \A m \in ToSet(r) : m \in Sends /\ sending[m].user = Owner(d)
        BY <1>4, <1>9, <1>11, <2>1, <2>3 DEF r
      <3> QED BY <1>8, <3>1 DEF ToSet
    <2> QED BY <2>2, <2>3
  <1>14. SendSound(n)'
    <2>1. \A d \in Connections : Got(n, d)' => \E j \in DOMAIN l : j < s.at + 1 /\ l[j] = d
      <3> SUFFICES ASSUME NEW d \in Connections, Got(n, d)' PROVE \E j \in DOMAIN l : j < s.at + 1 /\ l[j] = d
        OBVIOUS
      <3>1. CASE Got(n, d)
        <4>1. PICK j \in DOMAIN l : j < s.at /\ l[j] = d
          BY <1>2, <3>1
        <4> QED BY <1>3, <4>1
      <3>2. CASE d = c
        <4>1. s.at \in DOMAIN l /\ s.at < s.at + 1 /\ l[s.at] = c
          BY <1>3, <1>4 DEF c
        <4> QED BY <3>2, <4>1
      <3> QED BY <1>12, <3>1, <3>2
    <2>2. \A j \in DOMAIN l : j < s.at + 1 /\ l[j] \in whole[n] => n \in ToSet(received'[l[j]])
      <3> SUFFICES ASSUME NEW j \in DOMAIN l, j < s.at + 1, l[j] \in whole[n] PROVE n \in ToSet(received'[l[j]])
        OBVIOUS
      <3>1. PICK d \in Connections : d = l[j]
        BY <1>3
      <3>2. CASE j < s.at
        <4>1. Got(n, d)'
          BY <1>2, <1>12, <3>1, <3>2
        <4> QED BY <3>1, <4>1 DEF Got
      <3>3. CASE j = s.at
        <4>1. d = c /\ open[c] = "open"
          BY <1>2, <3>1, <3>3 DEF c
        <4>2. Got(n, d)'
          BY <1>12, <4>1
        <4> QED BY <3>1, <4>2 DEF Got
      <3> QED BY <1>3, <3>2, <3>3
    <2>3. s.at + 1 \in 1 .. Len(l) + 1 /\ lists'[s.list] = l /\ whole' = whole /\ open' = open /\ DOMAIN lists' = DOMAIN lists
      BY <1>1, <1>3, <1>4 DEF l, ListOf
    <2>4. \A d \in Connections : n \in ToSet(received'[d]) => \E j \in DOMAIN l : j < s.at + 1 /\ l[j] = d
      BY <2>1 DEF Got
    <2> HIDE DEF s
    <2> QED BY <1>2, <1>7, <1>8, <2>2, <2>3, <2>4 DEF SendSound, ListOf, Got
  <1>15. handled' \subseteq Sends /\ (\A m \in Sends, d \in Connections : m # n => (Got(m, d)' <=> Got(m, d))) /\ (\A m \in Sends : m # n => whole'[m] = whole[m])
         /\ whole' \in [Sends -> SUBSET Connections]
    BY <1>0, <1>1, <1>12 DEF NoteTyped
  <1> QED BY <1>0, <1>1, <1>7, <1>9, <1>13, <1>14, <1>15, OneSendMoves

(* NotifiedOnce: whoever connects and disconnects while notifications are being sent, for any users, connections and
   sends: each connection gets a notification of its own user at most once, and the ones that stay get it.           *)
THEOREM NotificationsArriveOnce == NoteSpec => []NotifiedOnce
  <1>1. NoteInit => NoteInv
    <2> SUFFICES ASSUME NoteInit PROVE NoteInv
      OBVIOUS
    <2>1. /\ registered = [u \in Users |-> 0] /\ lists = <<>> /\ open = [c \in Connections |-> "new"]
          /\ received = [c \in Connections |-> <<>>] /\ whole = [n \in Sends |-> {}] /\ handled = {} /\ deliveryHandlers = {}
          /\ sending \in [Sends -> {[pc |-> "none", user |-> u, wanted |-> {}, channel |-> 1, list |-> 0, at |-> 1] : u \in Users}]
      BY DEF NoteInit
    <2>2. Len(lists) = 0 /\ DOMAIN lists = {} /\ lists \in Seq(Seq(Connections))
      BY <2>1
    <2>3. \A n \in Sends : sending[n] \in SendRecords /\ sending[n].pc = "none" /\ sending[n].channel = 1
      BY <2>1, <2>2 DEF SendRecords
    <2>4. NoteTyped
      <3>1. sending \in [Sends -> SendRecords]
        BY <2>1, <2>3
      <3> QED BY <2>1, <2>2, <3>1 DEF NoteTyped, SendRecords
    <2>5. RegisteredAreOpen
      BY <2>1 DEF RegisteredAreOpen, Conns, ToSet
    <2>6. ReceivedOnce /\ \A n \in Sends, c \in Connections : ~Got(n, c)
      BY <2>1 DEF ReceivedOnce, IsInjective, Got, ToSet
    <2>7. \A n \in Sends : SendSound(n)
      BY <2>1, <2>3, <2>6 DEF SendSound
    <2> QED BY <2>2, <2>4, <2>5, <2>6, <2>7 DEF NoteInv, ListsSound
  <1>2. NoteInv /\ [NoteNext]_noteVars => NoteInv'
    <2> SUFFICES ASSUME NoteInv, [NoteNext]_noteVars PROVE NoteInv'
      OBVIOUS
    <2>1. CASE UNCHANGED noteVars
      BY <2>1 DEF noteVars, NoteInv, NoteTyped, ListsSound, RegisteredAreOpen, Conns, ReceivedOnce, SendSound, ListOf, Got
    <2>8. ASSUME NEW ch \in HandledChannels, RegisterHandler(ch) PROVE NoteInv'
      BY <2>8, RegisterStep
    <2>2. ASSUME NEW c \in Connections, Connect(c) PROVE NoteInv'
      BY <2>2, ConnectStep
    <2>3. ASSUME NEW c \in Connections, Disconnect(c) PROVE NoteInv'
      BY <2>3, DisconnectStep
    <2>4. ASSUME NEW n \in Sends, BeginSend(n) PROVE NoteInv'
      BY <2>4, BeginStep
    <2>5. ASSUME NEW n \in Sends, NextChannel(n) PROVE NoteInv'
      BY <2>5, NextChannelStep
    <2>6. ASSUME NEW n \in Sends, SendToConnection(n) PROVE NoteInv'
      BY <2>6, SendToConnectionStep
    <2>7. ASSUME NEW n \in Sends, SocketsDone(n) PROVE NoteInv'
      BY <2>7, SocketsDoneStep
    <2> QED BY <2>1, <2>2, <2>3, <2>4, <2>5, <2>6, <2>7, <2>8 DEF NoteNext
  <1>3. NoteInv => NotifiedOnce
    <2> SUFFICES ASSUME NoteInv PROVE NotifiedOnce
      OBVIOUS
    <2>1. NoteTyped /\ ListsSound /\ RegisteredAreOpen /\ ReceivedOnce /\ \A n \in Sends : SendSound(n)
      BY DEF NoteInv
    <2>2. NoteTypeOK
      <3>1. \A k \in DOMAIN lists : lists[k] \in Seq(Connections) /\ IsInjective(lists[k])
        BY <2>1 DEF NoteTyped, ListsSound
      <3>2. \A u \in Users : registered[u] # 0 => lists[registered[u]] # <<>>
        BY <2>1 DEF NoteTyped, ListsSound
      <3> QED BY <2>1, <3>1, <3>2 DEF NoteTyped, NoteTypeOK
    <2>3. ReachesConnected
      <3> SUFFICES ASSUME NEW n \in handled, sending[n].channel > 1 PROVE \A c \in whole[n] : Got(n, c)
        BY DEF ReachesConnected, Got
      <3>1. n \in Sends /\ SendSound(n) /\ sending[n].pc \in {"none", "channel", "sockets", "sent"} /\ sending[n].channel \in Nat
        <4>1. n \in Sends
          BY <2>1 DEF NoteTyped
        <4>2. sending[n] \in SendRecords
          BY <2>1, <4>1 DEF NoteTyped, SendRecords
        <4> QED BY <2>1, <4>1, <4>2 DEF SendRecords
      <3> QED BY <3>1 DEF SendSound
    <2> QED BY <2>1, <2>2, <2>3 DEF NotifiedOnce
  <1> QED BY <1>1, <1>2, <1>3, PTL DEF NoteSpec

-----------------------------------------------------------------------------
(* The event queue. *)
QueueTyped ==
  /\ seenMax \in Nat \ {0} /\ queueMax \in Nat \ {0} /\ seenMax \in SeenMaxima /\ queueMax \in QueueMaxima
  /\ queue \in [Instances -> Seq(Events)] /\ seen \in [Instances -> Seq(Events)]
  /\ channel \in [Instances -> Seq(Events)] /\ taken \in [Instances -> Seq(Events)]
  /\ popped \in [Instances -> Seq(Events)] /\ lost \in [Instances -> SUBSET Events]
  /\ pusher \in [Pushers -> Events \cup {NoEvent}] /\ pushed \in [Pushers -> 0 .. MaxEvents]
  /\ Pushes <= MaxEvents

(* The sizes are kept. *)
SizesKept == \A i \in Instances : Len(queue[i]) <= queueMax /\ Len(seen[i]) <= seenMax /\ IsInjective(seen[i])

(* Only what was pushed is anywhere; an event is published when it is the last of its thread. *)
OnlyPushed ==
  /\ \A i \in Instances :
       ToSet(queue[i]) \cup ToSet(seen[i]) \cup ToSet(channel[i]) \cup ToSet(taken[i]) \cup ToSet(popped[i]) \subseteq Happened
  /\ \A p \in Pushers : pusher[p] # NoEvent => pusher[p] = <<p, pushed[p]>>

(* Events in the order their threads pushed them, and a sequence before another. *)
InOrder(s) == \A k, l \in DOMAIN s : k < l /\ s[k][1] = s[l][1] => s[k][2] < s[l][2]
Before(s, t) == \A e \in ToSet(s), f \in ToSet(t) : e[1] = f[1] => e[2] < f[2]
BeforeAway(i, s, t) == \A e \in ToSet(s), f \in ToSet(t) : e[1] = f[1] /\ e[1][1] # i => e[2] < f[2]

(* What is not published yet is behind everything its thread has pushed before. *)
PendingLast(i, s) == \A p \in Pushers, e \in ToSet(s) : pusher[p] # NoEvent /\ e[1] = p => e[2] < pushed[p]
PendingLastAway(i, s) ==
  \A p \in Pushers, e \in ToSet(s) : pusher[p] # NoEvent /\ e[1] = p /\ p[1] # i => e[2] < pushed[p]

(* As long as the memory holds every event: own events are seen at once and never taken from the channel, the others
   come from it once, in order.                                                                                       *)
FlowInOrder(i) ==
  /\ \A e \in Happened : e[1][1] = i => e \in ToSet(seen[i])
  /\ \A e \in ToSet(taken[i]) : e[1][1] # i
  /\ InOrder(popped[i]) /\ InOrder(queue[i]) /\ InOrder(taken[i]) /\ InOrder(channel[i])
  /\ Before(popped[i], queue[i]) /\ Before(popped[i], taken[i]) /\ Before(queue[i], taken[i])
  /\ BeforeAway(i, popped[i], channel[i]) /\ BeforeAway(i, queue[i], channel[i]) /\ BeforeAway(i, taken[i], channel[i])
  /\ PendingLast(i, channel[i])
  /\ PendingLastAway(i, popped[i]) /\ PendingLastAway(i, queue[i]) /\ PendingLastAway(i, taken[i])

(* What was pushed on an instance waits there, was popped by some handler, or was dropped. *)
PushedIsPopped == \A e \in Happened : e \in ToSet(queue[e[1][1]]) \cup ToSet(popped[e[1][1]]) \cup lost[e[1][1]]

(* The inductive invariant of the queues and what was popped from them, by whichever handler. *)
QueueInv ==
  /\ QueueTyped /\ SizesKept /\ OnlyPushed /\ PushedIsPopped
  /\ seenMax >= MaxEvents => \A i \in Instances : FlowInOrder(i)

(* The handlers: what one holds was popped on its instance, what was popped is held or dropped. *)
HandlerSteps == {"new", "sleep", "poll", "append", "drain", "send", "gone"}
Held(c) == ToSet(delivered[c]) \cup ToSet(batch[c])

HandsInOrder ==
  /\ \A c \in Clients : InOrder(delivered[c]) /\ InOrder(batch[c]) /\ Before(delivered[c], batch[c])
  /\ \A c, d \in Clients : c # d /\ c[1] = d[1] => Held(c) \cap Held(d) = {}

HandsKept ==
  /\ handler \in [Clients -> HandlerSteps] /\ batch \in [Clients -> Seq(Events)] /\ delivered \in [Clients -> Seq(Events)]
  /\ \A c \in Clients : handler[c] = "send" <=> batch[c] # <<>>
  /\ \A c \in Clients : Held(c) \subseteq ToSet(popped[c[1]])
  /\ \A i \in Instances : ToSet(popped[i]) \subseteq InHand(i) \cup Delivered(i) \cup lost[i]
  /\ seenMax >= MaxEvents => HandsInOrder

-----------------------------------------------------------------------------
(* Sequences of events. *)
LEMMA EventParts ==
  /\ MaxEvents \in Nat /\ IsFiniteSet(Events) /\ NoEvent \notin Events
  /\ \A e \in Events : e[1] \in Pushers /\ e[2] \in 1 .. MaxEvents /\ e[2] \in Nat /\ e = <<e[1], e[2]>>
  /\ \A p \in Pushers, k \in 1 .. MaxEvents : <<p, k>> \in Events /\ <<p, k>>[1] = p /\ <<p, k>>[2] = k
  <1>1. MaxEvents \in Nat /\ IsFiniteSet(Pushers) /\ IsFiniteSet(1 .. MaxEvents)
    BY QueueAssumption, FS_Interval
  <1>2. IsFiniteSet(Events)
    BY <1>1, FS_Product DEF Events
  <1> QED BY <1>1, <1>2, QueueAssumption DEF Events

(* A prefix and a suffix of a concatenation. *)
LEMMA Concatenated ==
  ASSUME NEW S, NEW s \in Seq(S), NEW t \in Seq(S)
  PROVE  /\ s \o t \in Seq(S) /\ Len(s \o t) = Len(s) + Len(t) /\ DOMAIN (s \o t) = 1 .. Len(s) + Len(t)
         /\ \A k \in DOMAIN s : k \in DOMAIN (s \o t) /\ (s \o t)[k] = s[k]
         /\ \A k \in DOMAIN t : k + Len(s) \in DOMAIN (s \o t) /\ (s \o t)[k + Len(s)] = t[k]
         /\ \A k \in DOMAIN (s \o t) : k \in DOMAIN s \/ (k > Len(s) /\ k - Len(s) \in DOMAIN t /\ (s \o t)[k] = t[k - Len(s)])
         /\ ToSet(s \o t) = ToSet(s) \cup ToSet(t)
  <1> DEFINE r == s \o t
  <1>1. Len(s) \in Nat /\ DOMAIN s = 1 .. Len(s) /\ Len(t) \in Nat /\ DOMAIN t = 1 .. Len(t)
    OBVIOUS
  <1>2. r \in Seq(S) /\ Len(r) = Len(s) + Len(t) /\ DOMAIN r = 1 .. Len(s) + Len(t)
    BY <1>1
  <1>3. \A k \in DOMAIN s : k \in DOMAIN r /\ r[k] = s[k]
    BY <1>1
  <1>4. ASSUME NEW k \in DOMAIN r, ~(k \in DOMAIN s) PROVE k > Len(s) /\ k - Len(s) \in DOMAIN t /\ r[k] = t[k - Len(s)]
    BY <1>1, <1>2, <1>4
  <1>5. ASSUME NEW k \in DOMAIN t PROVE k + Len(s) \in DOMAIN r /\ r[k + Len(s)] = t[k]
    <2>1. k + Len(s) \in DOMAIN r /\ ~(k + Len(s) \in DOMAIN s) /\ (k + Len(s)) - Len(s) = k
      BY <1>1, <1>2
    <2> HIDE DEF r
    <2> QED BY <1>4, <2>1
  <1> HIDE DEF r
  <1>6. ToSet(r) = ToSet(s) \cup ToSet(t)
    <2>1. \A k \in DOMAIN r : r[k] \in ToSet(s) \cup ToSet(t)
      BY <1>3, <1>4 DEF ToSet
    <2>2. \A k \in DOMAIN s : s[k] \in ToSet(r)
      BY <1>3 DEF ToSet
    <2>3. \A k \in DOMAIN t : t[k] \in ToSet(r)
      BY <1>5 DEF ToSet
    <2> QED BY <2>1, <2>2, <2>3 DEF ToSet
  <1> QED BY <1>2, <1>3, <1>4, <1>5, <1>6 DEF r

(* A concatenation is in order when both parts are, and all of the first comes before the second. *)
LEMMA ConcatenatedInOrder ==
  ASSUME NEW s \in Seq(Events), NEW t \in Seq(Events), InOrder(s), InOrder(t), Before(s, t)
  PROVE  InOrder(s \o t)
  <1> DEFINE r == s \o t
  <1>1. /\ Len(s) \in Nat /\ DOMAIN s = 1 .. Len(s) /\ DOMAIN t = 1 .. Len(t) /\ Len(t) \in Nat
        /\ DOMAIN r = 1 .. Len(s) + Len(t)
        /\ (\A k \in DOMAIN s : r[k] = s[k])
        /\ \A k \in DOMAIN r : k \in DOMAIN s \/ (k > Len(s) /\ k - Len(s) \in DOMAIN t /\ r[k] = t[k - Len(s)])
    BY Concatenated
  <1> HIDE DEF r
  <1> SUFFICES ASSUME NEW k \in DOMAIN r, NEW l \in DOMAIN r, k < l, r[k][1] = r[l][1] PROVE r[k][2] < r[l][2]
    BY DEF InOrder, r
  <1>2. CASE l \in DOMAIN s
    <2>1. k \in DOMAIN s
      BY <1>1, <1>2
    <2> QED BY <1>1, <1>2, <2>1 DEF InOrder
  <1>3. CASE k \in DOMAIN s /\ l \notin DOMAIN s
    <2>1. r[k] \in ToSet(s) /\ r[l] \in ToSet(t)
      BY <1>1, <1>3 DEF ToSet
    <2> QED BY <2>1 DEF Before
  <1>4. CASE k \notin DOMAIN s /\ l \notin DOMAIN s
    <2>1. k - Len(s) \in DOMAIN t /\ l - Len(s) \in DOMAIN t /\ k - Len(s) < l - Len(s)
          /\ r[k] = t[k - Len(s)] /\ r[l] = t[l - Len(s)]
      BY <1>1, <1>4
    <2> QED BY <2>1 DEF InOrder
  <1> QED BY <1>2, <1>3, <1>4

(* What Enqueue keeps is the end of both, in order; what it does not keep has overflowed. *)
LEMMA Enqueued ==
  ASSUME NEW q \in Seq(Events), NEW more \in Seq(Events), queueMax \in Nat \ {0}
  PROVE  /\ Enqueue(q, more) \in Seq(Events) /\ Len(Enqueue(q, more)) <= queueMax
         /\ ToSet(Enqueue(q, more)) \subseteq ToSet(q) \cup ToSet(more)
         /\ ToSet(q) \cup ToSet(more) \subseteq ToSet(Enqueue(q, more)) \cup Overflow(q, more)
         /\ Overflow(q, more) \subseteq Events
         /\ InOrder(q) /\ InOrder(more) /\ Before(q, more) => InOrder(Enqueue(q, more))
  <1> DEFINE all == q \o more
             r == Enqueue(q, more)
  <1>1. /\ all \in Seq(Events) /\ Len(all) = Len(q) + Len(more) /\ DOMAIN all = 1 .. Len(all) /\ Len(all) \in Nat
        /\ (\A k \in DOMAIN q : k \in DOMAIN all /\ all[k] = q[k])
        /\ (\A k \in DOMAIN more : k + Len(q) \in DOMAIN all /\ all[k + Len(q)] = more[k])
        /\ ToSet(all) = ToSet(q) \cup ToSet(more)
        /\ Len(q) \in Nat /\ DOMAIN q = 1 .. Len(q) /\ Len(more) \in Nat /\ DOMAIN more = 1 .. Len(more)
    BY Concatenated
  <1>2. r = IF Len(all) > queueMax THEN SubSeq(all, Len(all) - queueMax + 1, Len(all)) ELSE all
    BY DEF Enqueue
  <1>3. InOrder(q) /\ InOrder(more) /\ Before(q, more) => InOrder(all)
    BY ConcatenatedInOrder
  <1> HIDE DEF all, r
  <1>4. PICK d \in Nat : /\ r \in Seq(Events) /\ Len(r) = Len(all) - d /\ Len(r) <= queueMax /\ DOMAIN r = 1 .. Len(all) - d
                         /\ d <= Len(all) /\ (d = 0 \/ d = Len(all) - queueMax)
                         /\ \A k \in 1 .. Len(all) - d : k + d \in DOMAIN all /\ r[k] = all[k + d]
    <2>1. CASE Len(all) > queueMax
      <3> DEFINE d == Len(all) - queueMax
                 a == d + 1
      <3>1. d \in Nat /\ a \in 1 .. Len(all) /\ Len(all) - a + 1 = queueMax /\ a - 1 = d /\ queueMax = Len(all) - d /\ d <= Len(all)
        BY <1>1, <2>1
      <3>2. r = SubSeq(all, a, Len(all))
        BY <1>2, <2>1
      <3> HIDE DEF a, d
      <3>3. /\ r \in Seq(Events) /\ Len(r) = Len(all) - a + 1
            /\ \A k \in 1 .. Len(all) - a + 1 : r[k] = all[k + (a - 1)]
        BY <1>1, <3>1, <3>2
      <3>4. \A k \in 1 .. Len(all) - d : k + d \in DOMAIN all
        BY <1>1, <3>1
      <3>5. Len(r) = Len(all) - d /\ Len(r) <= queueMax /\ DOMAIN r = 1 .. Len(all) - d
        BY <3>1, <3>3
      <3> QED BY <3>1, <3>3, <3>4, <3>5 DEF d
    <2>2. CASE ~(Len(all) > queueMax)
      <3>1. r = all /\ Len(all) - 0 = Len(all) /\ Len(all) <= queueMax
        BY <1>1, <1>2, <2>2
      <3>2. \A k \in 1 .. Len(all) : k + 0 = k
        OBVIOUS
      <3> QED BY <1>1, <3>1, <3>2
    <2> QED BY <2>1, <2>2
  <1>5. ToSet(r) \subseteq ToSet(q) \cup ToSet(more)
    <2>1. \A k \in DOMAIN r : r[k] \in ToSet(all)
      BY <1>4 DEF ToSet
    <2> QED BY <1>1, <2>1 DEF ToSet
  <1>6. Overflow(q, more) \subseteq Events
    BY DEF Overflow
  <1>7. ASSUME NEW k \in DOMAIN all, k > d PROVE all[k] \in ToSet(r)
    <2>1. k - d \in DOMAIN r /\ (k - d) + d = k
      BY <1>1, <1>4, <1>7
    <2>2. r[k - d] = all[k]
      BY <1>4, <2>1
    <2> QED BY <2>1, <2>2 DEF ToSet
  <1>8. ASSUME NEW j \in DOMAIN q, ~(j > d) PROVE q[j] \in Overflow(q, more)
    <2>1. Len(q) - j + Len(more) >= queueMax
      BY <1>1, <1>4, <1>8
    <2> QED BY <2>1 DEF Overflow
  <1>9. ASSUME NEW j \in DOMAIN more, ~(j + Len(q) > d) PROVE more[j] \in Overflow(q, more)
    <2>1. Len(more) - j >= queueMax
      BY <1>1, <1>4, <1>9
    <2> QED BY <2>1 DEF Overflow
  <1>10. ToSet(q) \cup ToSet(more) \subseteq ToSet(r) \cup Overflow(q, more)
    <2>1. \A j \in DOMAIN q : q[j] \in ToSet(r) \cup Overflow(q, more)
      BY <1>1, <1>7, <1>8
    <2>2. \A j \in DOMAIN more : more[j] \in ToSet(r) \cup Overflow(q, more)
      BY <1>1, <1>7, <1>9
    <2> QED BY <2>1, <2>2 DEF ToSet
  <1>11. ASSUME InOrder(all) PROVE InOrder(r)
    <2> SUFFICES ASSUME NEW k \in DOMAIN r, NEW l \in DOMAIN r, k < l, r[k][1] = r[l][1] PROVE r[k][2] < r[l][2]
      BY DEF InOrder
    <2>1. k + d \in DOMAIN all /\ l + d \in DOMAIN all /\ k + d < l + d /\ r[k] = all[k + d] /\ r[l] = all[l + d]
      <3>1. k \in 1 .. Len(all) - d /\ l \in 1 .. Len(all) - d
        BY <1>4
      <3>2. k \in Nat /\ l \in Nat
        BY <3>1
      <3>3. k + d < l + d
        BY <3>2
      <3> QED BY <1>4, <3>1, <3>3
    <2> QED BY <1>11, <2>1 DEF InOrder
  <1> QED BY <1>3, <1>4, <1>5, <1>6, <1>10, <1>11 DEF r

(* The first of a sequence, and the rest. *)
LEMMA FirstTaken ==
  ASSUME NEW s \in Seq(Events), s # <<>>
  PROVE  /\ Head(s) \in ToSet(s) /\ Head(s) \in Events /\ Tail(s) \in Seq(Events) /\ Len(Tail(s)) = Len(s) - 1
         /\ ToSet(Tail(s)) \subseteq ToSet(s) /\ ToSet(s) \subseteq ToSet(Tail(s)) \cup {Head(s)}
         /\ InOrder(s) => InOrder(Tail(s)) /\ \A f \in ToSet(Tail(s)) : Head(s)[1] = f[1] => Head(s)[2] < f[2]
         /\ IsInjective(s) => IsInjective(Tail(s))
  <1> DEFINE t == Tail(s)
  <1>1. Len(s) \in Nat /\ DOMAIN s = 1 .. Len(s) /\ 1 \in DOMAIN s /\ Head(s) = s[1]
    BY EmptySeq
  <1>2. t \in Seq(Events) /\ Len(t) = Len(s) - 1 /\ DOMAIN t = 1 .. Len(s) - 1 /\ \A k \in 1 .. Len(s) - 1 : t[k] = s[k + 1]
    BY <1>1
  <1> HIDE DEF t
  <1>3. \A k \in DOMAIN t : k + 1 \in DOMAIN s /\ t[k] = s[k + 1] /\ 1 < k + 1 /\ k \in Nat
    BY <1>1, <1>2
  <1>4. ToSet(t) \subseteq ToSet(s) /\ Head(s) \in ToSet(s)
    BY <1>1, <1>3 DEF ToSet
  <1>7. ToSet(s) \subseteq ToSet(t) \cup {Head(s)}
    <2> SUFFICES ASSUME NEW k \in DOMAIN s, k # 1 PROVE s[k] \in ToSet(t)
      BY <1>1 DEF ToSet
    <2>1. k - 1 \in DOMAIN t /\ (k - 1) + 1 = k
      BY <1>1, <1>2
    <2>2. t[k - 1] = s[k]
      BY <1>3, <2>1
    <2> QED BY <2>1, <2>2 DEF ToSet
  <1>5. ASSUME InOrder(s) PROVE InOrder(t) /\ \A f \in ToSet(t) : Head(s)[1] = f[1] => Head(s)[2] < f[2]
    <2>1. ASSUME NEW k \in DOMAIN t, NEW l \in DOMAIN t, k < l, t[k][1] = t[l][1] PROVE t[k][2] < t[l][2]
      <3>1. k + 1 < l + 1
        BY <1>3, <2>1
      <3> QED BY <1>3, <1>5, <2>1, <3>1 DEF InOrder
    <2>2. \A k \in DOMAIN t : s[1][1] = t[k][1] => s[1][2] < t[k][2]
      BY <1>1, <1>3, <1>5 DEF InOrder
    <2> QED BY <1>1, <2>1, <2>2 DEF InOrder, ToSet
  <1>6. ASSUME IsInjective(s) PROVE IsInjective(t)
    <2> SUFFICES ASSUME NEW k \in DOMAIN t, NEW l \in DOMAIN t, t[k] = t[l] PROVE k = l
      BY DEF IsInjective
    <2>1. k + 1 = l + 1
      BY <1>3, <1>6 DEF IsInjective
    <2> QED BY <1>3, <2>1
  <1> QED BY <1>1, <1>2, <1>4, <1>5, <1>6, <1>7 DEF t

(* A sequence without repetition is no longer than a set it is taken from. *)
LEMMA NoLongerThan ==
  ASSUME NEW s \in Seq(Events), IsInjective(s), NEW S, IsFiniteSet(S), ToSet(s) \subseteq S
  PROVE  Len(s) <= Cardinality(S) /\ Cardinality(S) \in Nat
  <1>1. Len(s) \in Nat /\ DOMAIN s = 1 .. Len(s)
    OBVIOUS
  <1>2. s \in [1 .. Len(s) -> S]
    BY <1>1 DEF ToSet
  <1>3. s \in Injection(1 .. Len(s), S)
    BY <1>2 DEF Injection
  <1>5. Cardinality(1 .. Len(s)) <= Cardinality(S)
    BY <1>3, FS_Injection
  <1>6. \A n \in Nat : Cardinality(1 .. n) = n
    <2> SUFFICES ASSUME NEW n \in Nat PROVE Cardinality(1 .. n) = n
      OBVIOUS
    <2>1. Cardinality(1 .. n) = IF 1 > n THEN 0 ELSE n - 1 + 1
      BY FS_Interval
    <2> QED BY <2>1
  <1> QED BY <1>1, <1>5, <1>6, FS_CardinalityType

(* The memory of ids: it forgets only when it is full. *)
LEMMA Remembered ==
  ASSUME seenMax \in Nat \ {0}, NEW ids \in Seq(Events), IsInjective(ids), Len(ids) <= seenMax, NEW e \in Events, e \notin ToSet(ids)
  PROVE  /\ Remember(ids, e) \in Seq(Events) /\ IsInjective(Remember(ids, e)) /\ Len(Remember(ids, e)) <= seenMax
         /\ ToSet(Remember(ids, e)) \subseteq ToSet(ids) \cup {e}
         /\ Len(ids) < seenMax => ToSet(Remember(ids, e)) = ToSet(ids) \cup {e}
  <1>1. Len(ids) \in Nat
    OBVIOUS
  <1>2. CASE Len(ids) < seenMax
    <2>1. Remember(ids, e) = Append(ids, e)
      BY <1>1, <1>2 DEF Remember
    <2>2. Len(ids) + 1 <= seenMax
      BY <1>1, <1>2
    <2> QED BY <2>1, <2>2, AppendedOnce
  <1>3. CASE ~(Len(ids) < seenMax)
    <2>1. Remember(ids, e) = Append(Tail(ids), e) /\ Len(ids) = seenMax /\ ids # <<>>
      BY <1>1, <1>3 DEF Remember
    <2>2. Tail(ids) \in Seq(Events) /\ Len(Tail(ids)) = Len(ids) - 1 /\ ToSet(Tail(ids)) \subseteq ToSet(ids) /\ IsInjective(Tail(ids))
      BY <2>1, FirstTaken
    <2>3. e \notin ToSet(Tail(ids)) /\ Len(Tail(ids)) + 1 <= seenMax
      BY <1>1, <2>1, <2>2
    <2> DEFINE t == Tail(ids)
    <2>0. t \in Seq(Events) /\ IsInjective(t) /\ e \notin ToSet(t)
      BY <2>2, <2>3
    <2> HIDE DEF t
    <2>4. /\ Append(t, e) \in Seq(Events) /\ IsInjective(Append(t, e)) /\ ToSet(Append(t, e)) = ToSet(t) \cup {e}
          /\ Len(Append(t, e)) = Len(t) + 1
      BY <2>0, AppendedOnce
    <2> QED BY <1>3, <2>1, <2>2, <2>3, <2>4 DEF t
  <1> QED BY <1>2, <1>3

(* The number of events is the number of those pushed. *)
LEMMA PushesCount ==
  /\ Pushes = Cardinality(Happened) /\ IsFiniteSet(Happened) /\ Happened \subseteq Events /\ Pushes \in Nat
  /\ QueueTyped => \A p \in Pushers : pushed[p] <= Pushes
  <1>1. Pushes = Cardinality(Happened)
    BY DEF Pushes, Happened
  <1>2. IsFiniteSet(Happened) /\ Happened \subseteq Events
    BY EventParts, FS_Subset DEF Happened
  <1>3. ASSUME QueueTyped, NEW p \in Pushers PROVE pushed[p] <= Cardinality(Happened)
    <2> DEFINE s == [k \in 1 .. pushed[p] |-> <<p, k>>]
    <2>1. pushed[p] \in 0 .. MaxEvents /\ pushed[p] \in Nat
      BY <1>3, EventParts DEF QueueTyped
    <2>2. \A k \in 1 .. pushed[p] : <<p, k>> \in Happened /\ <<p, k>> \in Events
      <3> SUFFICES ASSUME NEW k \in 1 .. pushed[p] PROVE <<p, k>> \in Happened /\ <<p, k>> \in Events
        OBVIOUS
      <3>1. k \in 1 .. MaxEvents
        BY <2>1, EventParts
      <3> QED BY <3>1, EventParts DEF Happened
    <2>3. s \in Seq(Events) /\ Len(s) = pushed[p] /\ DOMAIN s = 1 .. pushed[p]
      BY <2>1, <2>2
    <2>4. IsInjective(s) /\ ToSet(s) \subseteq Happened
      BY <2>2, <2>3 DEF IsInjective, ToSet
    <2> HIDE DEF s
    <2> QED BY <1>2, <2>3, <2>4, NoLongerThan
  <1> QED BY <1>1, <1>2, <1>3, FS_CardinalityType

-----------------------------------------------------------------------------
(* The steps.  What a step leaves alone at an instance stays in order. *)
LEMMA FlowKept ==
  ASSUME NEW i \in Instances, FlowInOrder(i), UNCHANGED <<pusher, pushed>>, seen'[i] = seen[i], taken'[i] = taken[i],
         queue'[i] = queue[i], popped'[i] = popped[i], channel'[i] = channel[i]
  PROVE  FlowInOrder(i)'
  <1>1. Happened' = Happened
    BY DEF Happened
  <1> QED BY <1>1 DEF FlowInOrder, InOrder, Before, BeforeAway, PendingLast, PendingLastAway

(* A step of a pop: what it leaves alone, and what is left to show of its own instance. *)
LEMMA PopSteps ==
  ASSUME QueueInv, NEW i \in Instances, UNCHANGED <<queueMax, seenMax, pusher, pushed>>,
         NEW q \in Seq(Events), NEW m \in Seq(Events), NEW c \in Seq(Events), NEW t \in Seq(Events), NEW d \in Seq(Events),
         NEW l \in SUBSET Events,
         queue' = [queue EXCEPT ![i] = q], seen' = [seen EXCEPT ![i] = m], channel' = [channel EXCEPT ![i] = c],
         taken' = [taken EXCEPT ![i] = t], popped' = [popped EXCEPT ![i] = d], lost' = [lost EXCEPT ![i] = l],
         Len(q) <= queueMax, Len(m) <= seenMax, IsInjective(m),
         ToSet(q) \cup ToSet(m) \cup ToSet(c) \cup ToSet(t) \cup ToSet(d) \subseteq Happened,
         ToSet(queue[i]) \cup ToSet(popped[i]) \cup lost[i] \subseteq ToSet(q) \cup ToSet(d) \cup l,
         seenMax >= MaxEvents => FlowInOrder(i)'
  PROVE  QueueInv'
  <1>0. QueueTyped /\ SizesKept /\ OnlyPushed /\ PushedIsPopped /\ (seenMax >= MaxEvents => \A j \in Instances : FlowInOrder(j))
    BY DEF QueueInv
  <1>1. Happened' = Happened /\ Pushes' = Pushes
    BY DEF Happened, Pushes
  <1>2. \A j \in Instances :
          /\ queue'[j] = (IF j = i THEN q ELSE queue[j]) /\ seen'[j] = (IF j = i THEN m ELSE seen[j])
          /\ channel'[j] = (IF j = i THEN c ELSE channel[j]) /\ taken'[j] = (IF j = i THEN t ELSE taken[j])
          /\ popped'[j] = (IF j = i THEN d ELSE popped[j]) /\ lost'[j] = IF j = i THEN l ELSE lost[j]
    BY <1>0 DEF QueueTyped
  <1>3. QueueTyped'
    BY <1>0, <1>1 DEF QueueTyped
  <1>4. SizesKept'
    BY <1>0, <1>2 DEF SizesKept
  <1>5. OnlyPushed'
    <2>1. \A j \in Instances : ToSet(queue'[j]) \cup ToSet(seen'[j]) \cup ToSet(channel'[j]) \cup ToSet(taken'[j])
                                 \cup ToSet(popped'[j]) \subseteq Happened
      <3> SUFFICES ASSUME NEW j \in Instances
                   PROVE  ToSet(queue'[j]) \cup ToSet(seen'[j]) \cup ToSet(channel'[j]) \cup ToSet(taken'[j])
                            \cup ToSet(popped'[j]) \subseteq Happened
        OBVIOUS
      <3>1. CASE j = i
        BY <1>2, <3>1
      <3>2. CASE j # i
        BY <1>0, <1>2, <3>2 DEF OnlyPushed
      <3> QED BY <3>1, <3>2
    <2> QED BY <1>0, <1>1, <2>1 DEF OnlyPushed
  <1>6. PushedIsPopped'
    <2> SUFFICES ASSUME NEW e \in Happened PROVE e \in ToSet(queue'[e[1][1]]) \cup ToSet(popped'[e[1][1]]) \cup lost'[e[1][1]]
      BY <1>1 DEF PushedIsPopped
    <2>1. e \in ToSet(queue[e[1][1]]) \cup ToSet(popped[e[1][1]]) \cup lost[e[1][1]]
      BY <1>0 DEF PushedIsPopped
    <2>2. e[1][1] \in Instances
      BY PushesCount, EventParts, QueueAssumption
    <2>3. CASE e[1][1] = i
      BY <1>2, <2>1, <2>2, <2>3
    <2>4. CASE e[1][1] # i
      BY <1>2, <2>1, <2>2, <2>4
    <2> QED BY <2>3, <2>4
  <1>7. ASSUME seenMax >= MaxEvents, NEW j \in Instances PROVE FlowInOrder(j)'
    <2>1. CASE j = i
      BY <1>7, <2>1
    <2>2. CASE j # i
      BY <1>0, <1>2, <1>7, <2>2, FlowKept
    <2> QED BY <2>1, <2>2
  <1> QED BY <1>3, <1>4, <1>5, <1>6, <1>7 DEF QueueInv

(* What is known of an instance before a step of a pop. *)
LEMMA AtInstance ==
  ASSUME QueueInv, NEW i \in Instances
  PROVE  /\ queue[i] \in Seq(Events) /\ seen[i] \in Seq(Events) /\ channel[i] \in Seq(Events) /\ taken[i] \in Seq(Events)
         /\ popped[i] \in Seq(Events) /\ lost[i] \in SUBSET Events
         /\ queue = [queue EXCEPT ![i] = queue[i]] /\ seen = [seen EXCEPT ![i] = seen[i]]
         /\ channel = [channel EXCEPT ![i] = channel[i]] /\ taken = [taken EXCEPT ![i] = taken[i]]
         /\ popped = [popped EXCEPT ![i] = popped[i]] /\ lost = [lost EXCEPT ![i] = lost[i]]
         /\ Len(queue[i]) <= queueMax /\ Len(seen[i]) <= seenMax /\ IsInjective(seen[i])
         /\ ToSet(queue[i]) \cup ToSet(seen[i]) \cup ToSet(channel[i]) \cup ToSet(taken[i]) \cup ToSet(popped[i]) \subseteq Happened
         /\ seenMax \in Nat \ {0} /\ queueMax \in Nat \ {0}
         /\ seenMax >= MaxEvents => FlowInOrder(i)
  <1>1. QueueTyped /\ SizesKept /\ OnlyPushed /\ (seenMax >= MaxEvents => FlowInOrder(i))
    BY DEF QueueInv
  <1>2. /\ queue \in [Instances -> Seq(Events)] /\ seen \in [Instances -> Seq(Events)]
        /\ channel \in [Instances -> Seq(Events)] /\ taken \in [Instances -> Seq(Events)]
        /\ popped \in [Instances -> Seq(Events)] /\ lost \in [Instances -> SUBSET Events]
        /\ seenMax \in Nat \ {0} /\ queueMax \in Nat \ {0}
    BY <1>1 DEF QueueTyped
  <1>3. \A S, f : f \in [Instances -> S] => f = [f EXCEPT ![i] = f[i]]
    OBVIOUS
  <1>4. /\ queue = [queue EXCEPT ![i] = queue[i]] /\ seen = [seen EXCEPT ![i] = seen[i]]
        /\ channel = [channel EXCEPT ![i] = channel[i]] /\ taken = [taken EXCEPT ![i] = taken[i]]
        /\ popped = [popped EXCEPT ![i] = popped[i]] /\ lost = [lost EXCEPT ![i] = lost[i]]
    BY <1>2, <1>3
  <1> QED BY <1>1, <1>2, <1>4 DEF SizesKept, OnlyPushed

(* The empty sequence. *)
LEMMA EmptySets == ToSet(<<>>) = {} /\ <<>> \in Seq(Events) /\ InOrder(<<>>)
  BY DEF ToSet, InOrder

(* A poll ends, or fails and drops what it took. *)
LEMMA PollStep ==
  ASSUME QueueInv, NEW h \in Clients, PollEnds(h) \/ PollFails(h)
  PROVE  QueueInv'
  <1> DEFINE i == h[1]
  <1>0. i \in Instances
    BY QueueAssumption
  <1> USE <1>0
  <1>1. /\ UNCHANGED <<queueMax, seenMax, queue, seen, channel, pusher, pushed, popped>>
        /\ \/ taken' = taken /\ lost' = lost
           \/ taken' = [taken EXCEPT ![i] = <<>>] /\ lost' = [lost EXCEPT ![i] = lost[i] \cup ToSet(taken[i])]
    BY AtInstance DEF PollEnds, PollFails
  <1> HIDE DEF i
  <1>2. PICK t \in {taken[i], <<>>}, l \in {lost[i], lost[i] \cup ToSet(taken[i])} :
          taken' = [taken EXCEPT ![i] = t] /\ lost' = [lost EXCEPT ![i] = l]
    BY <1>1, AtInstance
  <1>3. t \in Seq(Events) /\ ToSet(t) \subseteq ToSet(taken[i]) /\ l \in SUBSET Events /\ lost[i] \subseteq l /\ (t = taken[i] \/ t = <<>>)
    BY <1>2, AtInstance, EmptySets, PushesCount
  <1>4. ASSUME seenMax >= MaxEvents PROVE FlowInOrder(i)'
    <2>1. FlowInOrder(i) /\ taken'[i] = t /\ Happened' = Happened
      BY <1>1, <1>2, <1>4, AtInstance DEF Happened, QueueInv, QueueTyped
    <2>2. InOrder(t) /\ ToSet(t) \subseteq ToSet(taken[i])
      BY <1>3, <2>1, EmptySets DEF FlowInOrder
    <2> QED BY <1>1, <2>1, <2>2 DEF FlowInOrder, InOrder, Before, BeforeAway, PendingLast, PendingLastAway
  <1>5. /\ ToSet(queue[i]) \cup ToSet(seen[i]) \cup ToSet(channel[i]) \cup ToSet(t) \cup ToSet(popped[i]) \subseteq Happened
        /\ ToSet(queue[i]) \cup ToSet(popped[i]) \cup lost[i] \subseteq ToSet(queue[i]) \cup ToSet(popped[i]) \cup l
    BY <1>3, AtInstance
  <1>6. /\ queue' = [queue EXCEPT ![i] = queue[i]] /\ seen' = [seen EXCEPT ![i] = seen[i]]
        /\ channel' = [channel EXCEPT ![i] = channel[i]] /\ popped' = [popped EXCEPT ![i] = popped[i]]
    BY <1>1, AtInstance
  <1>7. /\ queue[i] \in Seq(Events) /\ seen[i] \in Seq(Events) /\ channel[i] \in Seq(Events) /\ popped[i] \in Seq(Events)
        /\ Len(queue[i]) <= queueMax /\ Len(seen[i]) <= seenMax /\ IsInjective(seen[i])
    BY AtInstance
  <1> QED BY <1>1, <1>2, <1>3, <1>4, <1>5, <1>6, <1>7, PopSteps

(* What was taken goes behind the queue: its events are later than the queue's. *)
LEMMA AppendStep ==
  ASSUME QueueInv, NEW h \in Clients, AppendTaken(h)
  PROVE  QueueInv'
  <1> DEFINE i == h[1]
  <1>0. i \in Instances
    BY QueueAssumption
  <1> USE <1>0
  <1> DEFINE q == Enqueue(queue[i], taken[i])
             l == lost[i] \cup Overflow(queue[i], taken[i])
  <1>1. /\ UNCHANGED <<queueMax, seenMax, seen, channel, pusher, pushed, popped>>
        /\ queue' = [queue EXCEPT ![i] = q] /\ taken' = [taken EXCEPT ![i] = <<>>] /\ lost' = [lost EXCEPT ![i] = l]
    BY AtInstance DEF AppendTaken
  <1> HIDE DEF i
  <1>2. /\ q \in Seq(Events) /\ Len(q) <= queueMax /\ ToSet(q) \subseteq ToSet(queue[i]) \cup ToSet(taken[i])
        /\ ToSet(queue[i]) \cup ToSet(taken[i]) \subseteq ToSet(q) \cup Overflow(queue[i], taken[i])
        /\ Overflow(queue[i], taken[i]) \subseteq Events
        /\ InOrder(queue[i]) /\ InOrder(taken[i]) /\ Before(queue[i], taken[i]) => InOrder(q)
    BY AtInstance, Enqueued
  <1> HIDE DEF q
  <1>3. l \in SUBSET Events /\ ToSet(queue[i]) \cup ToSet(popped[i]) \cup lost[i] \subseteq ToSet(q) \cup ToSet(popped[i]) \cup l
    BY <1>2, AtInstance
  <1> HIDE DEF l
  <1>4. ASSUME seenMax >= MaxEvents PROVE FlowInOrder(i)'
    <2>1. FlowInOrder(i) /\ taken'[i] = <<>> /\ queue'[i] = q /\ Happened' = Happened
      BY <1>1, <1>4, AtInstance DEF Happened, QueueInv, QueueTyped
    <2>2. InOrder(q)
      BY <1>2, <2>1 DEF FlowInOrder
    <2>3. Before(popped[i], q) /\ BeforeAway(i, q, channel[i]) /\ PendingLastAway(i, q)
      BY <1>2, <2>1 DEF FlowInOrder, Before, BeforeAway, PendingLastAway
    <2> QED BY <1>1, <2>1, <2>2, <2>3, EmptySets DEF FlowInOrder, InOrder, Before, BeforeAway, PendingLast, PendingLastAway
  <1>5. ToSet(q) \cup ToSet(seen[i]) \cup ToSet(channel[i]) \cup ToSet(<<>>) \cup ToSet(popped[i]) \subseteq Happened
    BY <1>2, AtInstance, EmptySets
  <1> QED BY <1>1, <1>2, <1>3, <1>4, <1>5, AtInstance, EmptySets, PopSteps

(* The queue goes to the clients, behind what they have. *)
LEMMA DrainStep ==
  ASSUME QueueInv, NEW h \in Clients, Drain(h)
  PROVE  QueueInv'
  <1> DEFINE i == h[1]
  <1>0. i \in Instances
    BY QueueAssumption
  <1> USE <1>0
  <1> DEFINE d == popped[i] \o queue[i]
  <1>1. /\ UNCHANGED <<queueMax, seenMax, seen, channel, taken, pusher, pushed, lost>>
        /\ queue' = [queue EXCEPT ![i] = <<>>] /\ popped' = [popped EXCEPT ![i] = d]
    BY AtInstance DEF Drain
  <1> HIDE DEF i
  <1>2. d \in Seq(Events) /\ ToSet(d) = ToSet(popped[i]) \cup ToSet(queue[i])
    BY AtInstance, Concatenated
  <1>3. InOrder(popped[i]) /\ InOrder(queue[i]) /\ Before(popped[i], queue[i]) => InOrder(d)
    BY AtInstance, ConcatenatedInOrder
  <1> HIDE DEF d
  <1>4. ASSUME seenMax >= MaxEvents PROVE FlowInOrder(i)'
    <2>1. FlowInOrder(i) /\ popped'[i] = d /\ queue'[i] = <<>> /\ Happened' = Happened
      BY <1>1, <1>4, AtInstance DEF Happened, QueueInv, QueueTyped
    <2>2. InOrder(d)
      BY <1>3, <2>1 DEF FlowInOrder
    <2>3. Before(d, taken[i]) /\ BeforeAway(i, d, channel[i]) /\ PendingLastAway(i, d)
      BY <1>2, <2>1 DEF FlowInOrder, Before, BeforeAway, PendingLastAway
    <2> QED BY <1>1, <2>1, <2>2, <2>3, EmptySets DEF FlowInOrder, InOrder, Before, BeforeAway, PendingLast, PendingLastAway
  <1>5. /\ ToSet(<<>>) \cup ToSet(seen[i]) \cup ToSet(channel[i]) \cup ToSet(taken[i]) \cup ToSet(d) \subseteq Happened
        /\ ToSet(queue[i]) \cup ToSet(popped[i]) \cup lost[i] \subseteq ToSet(<<>>) \cup ToSet(d) \cup lost[i]
    BY <1>2, AtInstance, EmptySets
  <1>6. Len(<<>>) <= queueMax
    BY AtInstance
  <1>7. /\ seen' = [seen EXCEPT ![i] = seen[i]] /\ channel' = [channel EXCEPT ![i] = channel[i]]
        /\ taken' = [taken EXCEPT ![i] = taken[i]] /\ lost' = [lost EXCEPT ![i] = lost[i]]
    BY <1>1, AtInstance
  <1>8. /\ <<>> \in Seq(Events) /\ seen[i] \in Seq(Events) /\ channel[i] \in Seq(Events) /\ taken[i] \in Seq(Events)
        /\ lost[i] \in SUBSET Events /\ Len(seen[i]) <= seenMax /\ IsInjective(seen[i])
    BY AtInstance, EmptySets
  <1> QED BY <1>1, <1>2, <1>4, <1>5, <1>6, <1>7, <1>8, PopSteps

(* A message is taken from the channel: it is new, from another instance, and later than all before it. *)
LEMMA TakeStep ==
  ASSUME QueueInv, NEW h \in Clients, TakeMessage(h)
  PROVE  QueueInv'
  <1> DEFINE i == h[1]
  <1>0. i \in Instances
    BY QueueAssumption
  <1> USE <1>0
  <1> DEFINE e == Head(channel[i])
             c == Tail(channel[i])
  <1>1. /\ channel[i] # <<>> /\ channel' = [channel EXCEPT ![i] = c]
        /\ UNCHANGED <<queueMax, seenMax, queue, pusher, pushed, popped, lost>>
        /\ \/ IsSeen(i, e) /\ UNCHANGED <<seen, taken>>
           \/ /\ ~IsSeen(i, e) /\ seen' = [seen EXCEPT ![i] = Remember(seen[i], e)]
              /\ taken' = [taken EXCEPT ![i] = Append(taken[i], e)]
    BY DEF TakeMessage
  <1> HIDE DEF i
  <1>2. /\ e \in ToSet(channel[i]) /\ e \in Events /\ c \in Seq(Events) /\ ToSet(c) \subseteq ToSet(channel[i])
        /\ InOrder(channel[i]) => InOrder(c) /\ \A f \in ToSet(c) : e[1] = f[1] => e[2] < f[2]
    BY <1>1, AtInstance, FirstTaken
  <1>3. e \in Happened
    BY <1>2, AtInstance
  <1> HIDE DEF e, c
  <1>5. Happened' = Happened
    BY <1>1 DEF Happened
  <1>6. CASE IsSeen(i, e) /\ UNCHANGED <<seen, taken>>
    <2>1. ASSUME seenMax >= MaxEvents PROVE FlowInOrder(i)'
      <3>1. FlowInOrder(i) /\ channel'[i] = c
        BY <1>1, <2>1, AtInstance DEF QueueInv, QueueTyped
      <3>2. InOrder(c)
        BY <1>2, <3>1 DEF FlowInOrder
      <3>3. /\ BeforeAway(i, popped[i], c) /\ BeforeAway(i, queue[i], c) /\ BeforeAway(i, taken[i], c) /\ PendingLast(i, c)
        BY <1>2, <3>1 DEF FlowInOrder, BeforeAway, PendingLast
      <3> QED BY <1>1, <1>5, <1>6, <3>1, <3>2, <3>3 DEF FlowInOrder, InOrder, Before, BeforeAway, PendingLast, PendingLastAway
    <2>2. ToSet(queue[i]) \cup ToSet(seen[i]) \cup ToSet(c) \cup ToSet(taken[i]) \cup ToSet(popped[i]) \subseteq Happened
      BY <1>2, AtInstance
    <2>3. /\ queue' = [queue EXCEPT ![i] = queue[i]] /\ seen' = [seen EXCEPT ![i] = seen[i]] /\ taken' = [taken EXCEPT ![i] = taken[i]]
          /\ popped' = [popped EXCEPT ![i] = popped[i]] /\ lost' = [lost EXCEPT ![i] = lost[i]]
      BY <1>1, <1>6, AtInstance
    <2> QED BY <1>1, <1>2, <2>1, <2>2, <2>3, AtInstance, PopSteps
  <1>7. CASE /\ ~IsSeen(i, e) /\ seen' = [seen EXCEPT ![i] = Remember(seen[i], e)]
             /\ taken' = [taken EXCEPT ![i] = Append(taken[i], e)]
    <2> DEFINE m == Remember(seen[i], e)
               t == taken[i] \o <<e>>
    <2>1. e \notin ToSet(seen[i])
      BY <1>7 DEF IsSeen
    <2>2. /\ m \in Seq(Events) /\ IsInjective(m) /\ Len(m) <= seenMax /\ ToSet(m) \subseteq ToSet(seen[i]) \cup {e}
          /\ Len(seen[i]) < seenMax => ToSet(m) = ToSet(seen[i]) \cup {e}
      BY <1>2, <2>1, AtInstance, Remembered
    <2>3. <<e>> \in Seq(Events) /\ ToSet(<<e>>) = {e} /\ InOrder(<<e>>)
      BY <1>2 DEF ToSet, InOrder
    <2>4. t = Append(taken[i], e) /\ t \in Seq(Events) /\ ToSet(t) = ToSet(taken[i]) \cup {e}
      <3>1. t \in Seq(Events) /\ ToSet(t) = ToSet(taken[i]) \cup {e}
        <4>1. taken[i] \in Seq(Events)
          BY AtInstance
        <4>2. \A x \in Seq(Events) : t = taken[i] \o x => t \in Seq(Events) /\ ToSet(t) = ToSet(taken[i]) \cup ToSet(x)
          BY <4>1, Concatenated
        <4>3. t = taken[i] \o <<e>>
          OBVIOUS
        <4> HIDE DEF t
        <4> QED BY <2>3, <4>2, <4>3
      <3>2. t = Append(taken[i], e)
        BY <1>2, AtInstance
      <3> QED BY <3>1, <3>2
    <2>5. InOrder(taken[i]) /\ Before(taken[i], <<e>>) => InOrder(t)
      BY <2>3, AtInstance, ConcatenatedInOrder
    <2> HIDE DEF m, t
    <2>6. ASSUME seenMax >= MaxEvents PROVE FlowInOrder(i)'
      <3>1. FlowInOrder(i) /\ channel'[i] = c /\ taken'[i] = t /\ seen'[i] = m
        BY <1>1, <1>7, <2>4, <2>6, AtInstance DEF QueueInv, QueueTyped, m
      <3>2. Len(seen[i]) < seenMax
        <4>1. /\ IsFiniteSet(Happened \ {e}) /\ ToSet(seen[i]) \subseteq Happened \ {e}
              /\ Cardinality(Happened \ {e}) = Pushes - 1 /\ Pushes \in Nat
          BY <1>3, <2>1, AtInstance, PushesCount, FS_RemoveElement
        <4>2. Len(seen[i]) <= Pushes - 1
          BY <4>1, AtInstance, NoLongerThan
        <4>3. Pushes <= MaxEvents /\ MaxEvents \in Nat /\ Len(seen[i]) \in Nat /\ seenMax \in Nat
          BY AtInstance, EventParts DEF QueueInv, QueueTyped
        <4> QED BY <2>6, <4>1, <4>2, <4>3
      <3>3. e[1][1] # i
        BY <1>3, <2>1, <3>1 DEF FlowInOrder
      <3>4. InOrder(c) /\ InOrder(t)
        BY <1>2, <2>3, <2>5, <3>1, <3>3 DEF FlowInOrder, Before, BeforeAway
      <3>5. /\ BeforeAway(i, popped[i], c) /\ BeforeAway(i, queue[i], c) /\ BeforeAway(i, t, c) /\ PendingLast(i, c)
        BY <1>2, <2>4, <3>1 DEF FlowInOrder, BeforeAway, PendingLast
      <3>6. Before(popped[i], t) /\ Before(queue[i], t) /\ PendingLastAway(i, t) /\ \A f \in ToSet(t) : f[1][1] # i
        BY <1>2, <2>4, <3>1, <3>3 DEF FlowInOrder, Before, BeforeAway, PendingLast, PendingLastAway
      <3>7. ToSet(seen[i]) \subseteq ToSet(m)
        BY <2>2, <3>2
      <3> QED BY <1>1, <1>5, <3>1, <3>4, <3>5, <3>6, <3>7
              DEF FlowInOrder, InOrder, Before, BeforeAway, PendingLast, PendingLastAway
    <2>7. ToSet(queue[i]) \cup ToSet(m) \cup ToSet(c) \cup ToSet(t) \cup ToSet(popped[i]) \subseteq Happened
      BY <1>2, <1>3, <2>2, <2>4, AtInstance
    <2>8. /\ queue' = [queue EXCEPT ![i] = queue[i]] /\ seen' = [seen EXCEPT ![i] = m] /\ taken' = [taken EXCEPT ![i] = t]
          /\ popped' = [popped EXCEPT ![i] = popped[i]] /\ lost' = [lost EXCEPT ![i] = lost[i]]
      BY <1>1, <1>7, <2>4, AtInstance DEF m
    <2> QED BY <1>1, <1>2, <2>2, <2>4, <2>6, <2>7, <2>8, AtInstance, PopSteps
  <1> QED BY <1>1, <1>6, <1>7

(* A thread publishes: its event is behind all it has pushed before, wherever those are. *)
LEMMA PublishStep == ASSUME QueueInv, NEW p \in Pushers, Publish(p) PROVE QueueInv'
  <1> DEFINE e == pusher[p]
  <1>0. QueueTyped /\ SizesKept /\ OnlyPushed /\ PushedIsPopped /\ (seenMax >= MaxEvents => \A j \in Instances : FlowInOrder(j))
    BY DEF QueueInv
  <1>1. /\ e # NoEvent /\ pusher' = [pusher EXCEPT ![p] = NoEvent]
        /\ UNCHANGED <<queueMax, seenMax, queue, seen, taken, pushed, popped, lost>>
        /\ channel' = [i \in Instances |-> Append(channel[i], e)] \/ channel' = channel
    BY DEF Publish
  <1>2. e = <<p, pushed[p]>> /\ e \in Events /\ e[1] = p /\ e[2] = pushed[p]
    BY <1>0, <1>1 DEF OnlyPushed, QueueTyped
  <1>3. Happened' = Happened /\ Pushes' = Pushes /\ e \in Happened
    <2>1. pushed[p] \in Nat
      BY <1>0, EventParts DEF QueueTyped
    <2> QED BY <1>1, <1>2, <2>1 DEF Happened, Pushes
  <1>4. pusher'[p] = NoEvent /\ (\A r \in Pushers : r # p => pusher'[r] = pusher[r]) /\ pusher' \in [Pushers -> Events \cup {NoEvent}]
    BY <1>0, <1>1 DEF QueueTyped
  <1> HIDE DEF e
  <1>5. ASSUME NEW i \in Instances
        PROVE  /\ channel'[i] \in Seq(Events) /\ ToSet(channel'[i]) \subseteq ToSet(channel[i]) \cup {e}
               /\ InOrder(channel[i]) /\ (\A f \in ToSet(channel[i]) : f[1] = p => f[2] < e[2]) => InOrder(channel'[i])
    <2>1. channel[i] \in Seq(Events)
      BY <1>0 DEF QueueTyped
    <2>2. CASE channel' = channel
      BY <2>1, <2>2
    <2>3. CASE channel'[i] = Append(channel[i], e)
      <3>1. <<e>> \in Seq(Events) /\ ToSet(<<e>>) = {e} /\ InOrder(<<e>>)
        BY <1>2 DEF ToSet, InOrder
      <3>2. channel'[i] = channel[i] \o <<e>>
        BY <1>2, <2>1, <2>3
      <3>3. channel[i] \o <<e>> \in Seq(Events) /\ ToSet(channel[i] \o <<e>>) = ToSet(channel[i]) \cup {e}
        <4> DEFINE b == <<e>>
        <4>1. b \in Seq(Events) /\ ToSet(b) = {e}
          BY <3>1
        <4> HIDE DEF b
        <4>2. channel[i] \o b \in Seq(Events) /\ ToSet(channel[i] \o b) = ToSet(channel[i]) \cup ToSet(b)
          BY <2>1, <4>1, Concatenated
        <4> QED BY <4>1, <4>2 DEF b
      <3>4. InOrder(channel[i]) /\ Before(channel[i], <<e>>) => InOrder(channel[i] \o <<e>>)
        BY <2>1, <3>1, ConcatenatedInOrder
      <3>5. (\A f \in ToSet(channel[i]) : f[1] = p => f[2] < e[2]) => Before(channel[i], <<e>>)
        BY <1>2, <3>1 DEF Before
      <3> QED BY <3>2, <3>3, <3>4, <3>5
    <2> QED BY <1>1, <2>2, <2>3
  <1>6. QueueTyped'
    <2>1. channel' \in [Instances -> Seq(Events)]
      <3>1. DOMAIN channel' = Instances /\ channel' = [i \in Instances |-> channel'[i]]
        BY <1>0, <1>1 DEF QueueTyped
      <3> QED BY <1>5, <3>1
    <2> QED BY <1>0, <1>1, <1>3, <1>4, <2>1 DEF QueueTyped
  <1>7. SizesKept' /\ PushedIsPopped'
    BY <1>0, <1>1, <1>3 DEF SizesKept, PushedIsPopped
  <1>8. OnlyPushed'
    <2>1. \A i \in Instances : ToSet(channel'[i]) \subseteq Happened
      BY <1>0, <1>3, <1>5 DEF OnlyPushed
    <2>2. \A r \in Pushers : pusher'[r] # NoEvent => pusher'[r] = <<r, pushed[r]>>
      BY <1>0, <1>4 DEF OnlyPushed
    <2>3. \A i \in Instances : ToSet(queue[i]) \cup ToSet(seen[i]) \cup ToSet(taken[i]) \cup ToSet(popped[i]) \subseteq Happened
      BY <1>0 DEF OnlyPushed
    <2> QED BY <1>1, <1>3, <2>1, <2>2, <2>3 DEF OnlyPushed
  <1>9. ASSUME seenMax >= MaxEvents, NEW i \in Instances PROVE FlowInOrder(i)'
    <2>1. FlowInOrder(i)
      BY <1>0, <1>9
    <2>2. \A f \in ToSet(channel[i]) : f[1] = p => f[2] < e[2]
      BY <1>1, <1>2, <2>1 DEF FlowInOrder, PendingLast, e
    <2>3. InOrder(channel'[i])
      BY <1>5, <2>1, <2>2 DEF FlowInOrder
    <2>4. ASSUME NEW s, PendingLastAway(i, s), BeforeAway(i, s, channel[i])
          PROVE  /\ BeforeAway(i, s, channel'[i])
                 /\ \A r \in Pushers, f \in ToSet(s) : pusher'[r] # NoEvent /\ f[1] = r /\ r[1] # i => f[2] < pushed'[r]
      <3>1. \A f \in ToSet(s) : f[1] = p /\ p[1] # i => f[2] < e[2]
        BY <1>1, <1>2, <2>4 DEF PendingLastAway, e
      <3>2. BeforeAway(i, s, channel'[i])
        BY <1>2, <1>5, <2>4, <3>1 DEF BeforeAway
      <3> QED BY <1>1, <1>4, <2>4, <3>2 DEF PendingLastAway
    <2>5. \A r \in Pushers, f \in ToSet(channel'[i]) : pusher'[r] # NoEvent /\ f[1] = r => f[2] < pushed'[r]
      <3>1. \A r \in Pushers, f \in ToSet(channel[i]) : pusher[r] # NoEvent /\ f[1] = r => f[2] < pushed[r]
        BY <2>1 DEF FlowInOrder, PendingLast
      <3>2. ToSet(channel'[i]) \subseteq ToSet(channel[i]) \cup {e}
        BY <1>5
      <3> QED BY <1>1, <1>2, <1>4, <3>1, <3>2
    <2>6. /\ PendingLastAway(i, popped[i]) /\ PendingLastAway(i, queue[i]) /\ PendingLastAway(i, taken[i])
          /\ BeforeAway(i, popped[i], channel[i]) /\ BeforeAway(i, queue[i], channel[i]) /\ BeforeAway(i, taken[i], channel[i])
      BY <2>1 DEF FlowInOrder
    <2>7. /\ BeforeAway(i, popped[i], channel'[i]) /\ BeforeAway(i, queue[i], channel'[i]) /\ BeforeAway(i, taken[i], channel'[i])
          /\ \A r \in Pushers, f \in ToSet(popped[i]) : pusher'[r] # NoEvent /\ f[1] = r /\ r[1] # i => f[2] < pushed'[r]
          /\ \A r \in Pushers, f \in ToSet(queue[i]) : pusher'[r] # NoEvent /\ f[1] = r /\ r[1] # i => f[2] < pushed'[r]
          /\ \A r \in Pushers, f \in ToSet(taken[i]) : pusher'[r] # NoEvent /\ f[1] = r /\ r[1] # i => f[2] < pushed'[r]
      BY <2>4, <2>6
    <2> QED BY <1>1, <1>3, <2>1, <2>3, <2>5, <2>7 DEF FlowInOrder, InOrder, Before, BeforeAway, PendingLast, PendingLastAway
  <1> QED BY <1>1, <1>6, <1>7, <1>8, <1>9 DEF QueueInv

(* A thread pushes: its event is marked as seen and queued on its own instance. *)
LEMMA PushStep == ASSUME QueueInv, NEW p \in Pushers, Push(p) PROVE QueueInv'
  <1> DEFINE n == pushed[p] + 1
             e == <<p, n>>
             i == p[1]
             q == Enqueue(queue[i], <<e>>)
             m == Remember(seen[i], e)
             over == Overflow(queue[i], <<e>>)
  <1>0. QueueTyped /\ SizesKept /\ OnlyPushed /\ PushedIsPopped /\ (seenMax >= MaxEvents => \A j \in Instances : FlowInOrder(j))
    BY DEF QueueInv
  <1>1. /\ pusher[p] = NoEvent /\ Pushes < MaxEvents /\ pushed' = [pushed EXCEPT ![p] = n] /\ ~IsSeen(i, e)
        /\ seen' = [seen EXCEPT ![i] = m] /\ queue' = [queue EXCEPT ![i] = q] /\ lost' = [lost EXCEPT ![i] = lost[i] \cup over]
        /\ pusher' = [pusher EXCEPT ![p] = e]
        /\ UNCHANGED <<queueMax, seenMax, channel, taken, queueFaults, popped>>
    BY DEF Push
  <1>2. i \in Instances /\ pushed \in [Pushers -> 0 .. MaxEvents] /\ MaxEvents \in Nat
    BY <1>0, QueueAssumption DEF QueueTyped
  <1>3. n \in 1 .. MaxEvents /\ n = pushed[p] + 1 /\ pushed[p] \in Nat /\ n \in Nat
    <2>1. pushed[p] <= Pushes /\ Pushes \in Nat /\ pushed[p] \in Nat
      BY <1>0, <1>2, PushesCount
    <2> QED BY <1>1, <1>2, <2>1
  <1>4. e \in Events /\ e[1] = p /\ e[2] = n /\ e # NoEvent
    <2> HIDE DEF n
    <2> QED BY <1>3, EventParts
  <1> HIDE DEF e, n
  <1>5. e \notin Happened /\ Happened' = Happened \cup {e}
    <2>1. pushed'[p] = n /\ \A r \in Pushers : r # p => pushed'[r] = pushed[r]
      BY <1>1, <1>2
    <2>2. ASSUME NEW f \in Events PROVE f \in Happened' <=> f \in Happened \/ f = e
      <3>1. f[1] \in Pushers /\ f[2] \in Nat /\ f = <<f[1], f[2]>>
        BY EventParts
      <3>2. CASE f[1] = p
        <4>1. f \in Happened' <=> n >= f[2]
          BY <2>1, <3>2 DEF Happened
        <4>2. f \in Happened <=> pushed[p] >= f[2]
          BY <3>2 DEF Happened
        <4>3. f = e <=> f[2] = n
          BY <1>4, <3>1, <3>2 DEF e
        <4> QED BY <1>3, <3>1, <4>1, <4>2, <4>3
      <3>3. CASE f[1] # p
        BY <1>4, <2>1, <3>1, <3>3 DEF Happened
      <3> QED BY <3>2, <3>3
    <2>3. e \notin Happened
      BY <1>3, <1>4 DEF Happened
    <2>4. Happened' \subseteq Events /\ Happened \subseteq Events
      BY DEF Happened
    <2> QED BY <1>4, <2>2, <2>3, <2>4
  <1>6. Pushes' <= MaxEvents
    <2>1. Cardinality(Happened \cup {e}) = Cardinality(Happened) + 1
      BY <1>5, PushesCount, FS_AddElement
    <2>2. Pushes' = Cardinality(Happened')
      BY DEF Pushes, Happened
    <2>3. Pushes' = Pushes + 1
      BY <1>5, <2>1, <2>2, PushesCount
    <2> QED BY <1>1, <1>2, <2>3, PushesCount
  <1>7. /\ queue[i] \in Seq(Events) /\ seen[i] \in Seq(Events) /\ IsInjective(seen[i]) /\ Len(seen[i]) <= seenMax
        /\ ToSet(seen[i]) \subseteq Happened /\ queueMax \in Nat \ {0} /\ seenMax \in Nat \ {0} /\ e \notin ToSet(seen[i])
    BY <1>0, <1>2, <1>5 DEF QueueTyped, SizesKept, OnlyPushed
  <1>8. /\ m \in Seq(Events) /\ IsInjective(m) /\ Len(m) <= seenMax /\ ToSet(m) \subseteq ToSet(seen[i]) \cup {e}
        /\ Len(seen[i]) < seenMax => ToSet(m) = ToSet(seen[i]) \cup {e}
    BY <1>4, <1>7, Remembered
  <1>9. <<e>> \in Seq(Events) /\ ToSet(<<e>>) = {e} /\ InOrder(<<e>>)
    BY <1>4 DEF ToSet, InOrder
  <1>10. /\ q \in Seq(Events) /\ Len(q) <= queueMax /\ ToSet(q) \subseteq ToSet(queue[i]) \cup {e}
         /\ ToSet(queue[i]) \cup {e} \subseteq ToSet(q) \cup over /\ over \subseteq Events
         /\ InOrder(queue[i]) /\ Before(queue[i], <<e>>) => InOrder(q)
    BY <1>7, <1>9, Enqueued
  <1> HIDE DEF q, m, over
  <1>11. /\ queue'[i] = q /\ seen'[i] = m /\ lost'[i] = lost[i] \cup over
         /\ \A j \in Instances : j # i => queue'[j] = queue[j] /\ seen'[j] = seen[j] /\ lost'[j] = lost[j]
    BY <1>0, <1>1, <1>2 DEF QueueTyped
  <1>12. pusher'[p] = e /\ pushed'[p] = n /\ \A r \in Pushers : r # p => pusher'[r] = pusher[r] /\ pushed'[r] = pushed[r]
    BY <1>0, <1>1 DEF QueueTyped
  <1>13. QueueTyped'
    <2>1. pushed' \in [Pushers -> 0 .. MaxEvents]
      BY <1>1, <1>2, <1>3
    <2>2. pusher' \in [Pushers -> Events \cup {NoEvent}]
      BY <1>0, <1>1, <1>4 DEF QueueTyped
    <2>3. queue' \in [Instances -> Seq(Events)] /\ seen' \in [Instances -> Seq(Events)] /\ lost' \in [Instances -> SUBSET Events]
      BY <1>0, <1>1, <1>8, <1>10 DEF QueueTyped
    <2> QED BY <1>0, <1>1, <1>6, <2>1, <2>2, <2>3 DEF QueueTyped
  <1>14. SizesKept'
    BY <1>0, <1>1, <1>8, <1>10, <1>11 DEF SizesKept
  <1>15. OnlyPushed'
    <2>1. ASSUME NEW j \in Instances
          PROVE  ToSet(queue'[j]) \cup ToSet(seen'[j]) \cup ToSet(channel'[j]) \cup ToSet(taken'[j]) \cup ToSet(popped'[j])
                   \subseteq Happened \cup {e}
      <3>1. ToSet(queue[j]) \cup ToSet(seen[j]) \cup ToSet(channel[j]) \cup ToSet(taken[j]) \cup ToSet(popped[j]) \subseteq Happened
        BY <1>0 DEF OnlyPushed
      <3>2. CASE j = i
        BY <1>1, <1>8, <1>10, <1>11, <3>1, <3>2
      <3>3. CASE j # i
        BY <1>1, <1>11, <3>1, <3>3
      <3> QED BY <3>2, <3>3
    <2>2. \A r \in Pushers : pusher'[r] # NoEvent => pusher'[r] = <<r, pushed'[r]>>
      BY <1>0, <1>12 DEF OnlyPushed, e
    <2> QED BY <1>5, <2>1, <2>2 DEF OnlyPushed
  <1>16. PushedIsPopped'
    <2> SUFFICES ASSUME NEW f \in Happened \cup {e}
                 PROVE  f \in ToSet(queue'[f[1][1]]) \cup ToSet(popped'[f[1][1]]) \cup lost'[f[1][1]]
      BY <1>5 DEF PushedIsPopped
    <2>1. CASE f = e
      <3>1. f[1][1] = i
        BY <1>4, <2>1
      <3> QED BY <1>10, <1>11, <2>1, <3>1
    <2>2. CASE f \in Happened
      <3>1. f \in ToSet(queue[f[1][1]]) \cup ToSet(popped[f[1][1]]) \cup lost[f[1][1]]
        BY <1>0, <2>2 DEF PushedIsPopped
      <3>2. f[1][1] \in Instances
        BY <2>2, PushesCount, EventParts, QueueAssumption
      <3>3. CASE f[1][1] = i
        BY <1>1, <1>10, <1>11, <3>1, <3>3
      <3>4. CASE f[1][1] # i
        BY <1>1, <1>11, <3>1, <3>2, <3>4
      <3> QED BY <3>3, <3>4
    <2> QED BY <2>1, <2>2
  <1>17. ASSUME seenMax >= MaxEvents, NEW j \in Instances PROVE FlowInOrder(j)'
    <2>1. FlowInOrder(j)
      BY <1>0, <1>17
    <2>2. \A f \in Happened : f[1] = p => f[2] <= pushed[p] /\ f[2] < n
      <3>1. \A f \in Happened : f[2] \in Nat
        BY PushesCount, EventParts
      <3> QED BY <1>3, <3>1 DEF Happened
    <2>3. ASSUME NEW s, ToSet(s) \subseteq Happened, PendingLastAway(j, s)
          PROVE  \A r \in Pushers, f \in ToSet(s) : pusher'[r] # NoEvent /\ f[1] = r /\ r[1] # j => f[2] < pushed'[r]
      BY <1>12, <2>2, <2>3 DEF PendingLastAway
    <2>4. ASSUME NEW s, ToSet(s) \subseteq Happened, PendingLast(j, s)
          PROVE  \A r \in Pushers, f \in ToSet(s) : pusher'[r] # NoEvent /\ f[1] = r => f[2] < pushed'[r]
      BY <1>12, <2>2, <2>4 DEF PendingLast
    <2>5. ToSet(queue[j]) \cup ToSet(seen[j]) \cup ToSet(channel[j]) \cup ToSet(taken[j]) \cup ToSet(popped[j]) \subseteq Happened
      BY <1>0 DEF OnlyPushed
    <2>6. /\ \A r \in Pushers, f \in ToSet(channel[j]) : pusher'[r] # NoEvent /\ f[1] = r => f[2] < pushed'[r]
          /\ \A r \in Pushers, f \in ToSet(popped[j]) : pusher'[r] # NoEvent /\ f[1] = r /\ r[1] # j => f[2] < pushed'[r]
          /\ \A r \in Pushers, f \in ToSet(queue[j]) : pusher'[r] # NoEvent /\ f[1] = r /\ r[1] # j => f[2] < pushed'[r]
          /\ \A r \in Pushers, f \in ToSet(taken[j]) : pusher'[r] # NoEvent /\ f[1] = r /\ r[1] # j => f[2] < pushed'[r]
      <3>1. /\ PendingLast(j, channel[j]) /\ PendingLastAway(j, popped[j])
            /\ PendingLastAway(j, queue[j]) /\ PendingLastAway(j, taken[j])
        BY <2>1 DEF FlowInOrder
      <3> QED BY <2>3, <2>4, <2>5, <3>1
    <2>7. CASE j # i
      <3>1. \A f \in Happened \cup {e} : f[1][1] = j => f \in ToSet(seen[j])
        BY <1>4, <2>1, <2>7 DEF FlowInOrder
      <3>2. UNCHANGED <<queue[j], seen[j], channel[j], taken[j], popped[j]>>
        BY <1>1, <1>11, <2>7
      <3> QED BY <1>5, <2>1, <2>6, <3>1, <3>2
              DEF FlowInOrder, InOrder, Before, BeforeAway, PendingLast, PendingLastAway
    <2>8. CASE j = i
      <3>1. Len(seen[i]) < seenMax
        <4>1. Len(seen[i]) <= Cardinality(Happened) /\ Cardinality(Happened) \in Nat
          BY <1>7, PushesCount, NoLongerThan
        <4>2. Len(seen[i]) \in Nat /\ seenMax \in Nat
          BY <1>7
        <4> QED BY <1>1, <1>2, <1>17, <4>1, <4>2, PushesCount
      <3>2. ToSet(m) = ToSet(seen[i]) \cup {e}
        BY <1>8, <3>1
      <3>3. \A f \in Happened \cup {e} : f[1][1] = i => f \in ToSet(m)
        BY <2>1, <2>8, <3>2 DEF FlowInOrder
      <3>4. \A s \in {queue[i], popped[i]} : Before(s, <<e>>)
        BY <1>4, <1>9, <2>2, <2>5, <2>8 DEF Before
      <3>5. InOrder(q)
        BY <1>10, <2>1, <2>8, <3>4 DEF FlowInOrder
      <3>6. Before(popped[i], q)
        BY <1>4, <1>10, <2>1, <2>2, <2>5, <2>8 DEF FlowInOrder, Before
      <3>7. Before(q, taken[i]) /\ BeforeAway(i, q, channel[i])
        BY <1>4, <1>10, <2>1, <2>8 DEF FlowInOrder, Before, BeforeAway
      <3>8. \A r \in Pushers, f \in ToSet(q) : pusher'[r] # NoEvent /\ f[1] = r /\ r[1] # i => f[2] < pushed'[r]
        BY <1>4, <1>10, <2>6, <2>8
      <3>9. UNCHANGED <<channel[i], taken[i], popped[i]>>
        BY <1>1
      <3>10. /\ InOrder(popped[i]) /\ InOrder(taken[i]) /\ InOrder(channel[i]) /\ Before(popped[i], taken[i])
             /\ BeforeAway(i, popped[i], channel[i]) /\ BeforeAway(i, taken[i], channel[i])
             /\ \A f \in ToSet(taken[i]) : f[1][1] # i
        BY <2>1, <2>8 DEF FlowInOrder
      <3> QED BY <1>5, <1>11, <2>6, <2>8, <3>3, <3>5, <3>6, <3>7, <3>8, <3>9, <3>10
              DEF FlowInOrder, InOrder, Before, BeforeAway, PendingLast, PendingLastAway
    <2> QED BY <2>7, <2>8
  <1> QED BY <1>1, <1>13, <1>14, <1>15, <1>16, <1>17 DEF QueueInv

(* The empty queues of the start. *)
LEMMA QueueStarts == ASSUME QueueInit PROVE QueueInv
  <1>1. Happened = {} /\ Pushes = 0
    <2>1. \A e \in Events : ~(pushed[e[1]] >= e[2])
      <3> SUFFICES ASSUME NEW e \in Events PROVE ~(pushed[e[1]] >= e[2])
        OBVIOUS
      <3>1. e[1] \in Pushers /\ e[2] \in 1 .. MaxEvents
        BY EventParts
      <3>2. pushed[e[1]] = 0
        BY <3>1 DEF QueueInit
      <3> QED BY <3>1, <3>2
    <2>2. Happened = {}
      BY <2>1 DEF Happened
    <2>3. Cardinality({}) = 0
      BY FS_EmptySet
    <2> QED BY <2>2, <2>3, PushesCount
  <1>2. \A i \in Instances : queue[i] = <<>> /\ seen[i] = <<>> /\ channel[i] = <<>> /\ taken[i] = <<>> /\ popped[i] = <<>>
    BY DEF QueueInit
  <1>3. QueueTyped
    <2>1. seenMax \in Nat \ {0} /\ queueMax \in Nat \ {0} /\ seenMax \in SeenMaxima /\ queueMax \in QueueMaxima
      BY QueueAssumption DEF QueueInit
    <2>2. /\ queue \in [Instances -> Seq(Events)] /\ seen \in [Instances -> Seq(Events)]
          /\ channel \in [Instances -> Seq(Events)] /\ taken \in [Instances -> Seq(Events)]
          /\ popped \in [Instances -> Seq(Events)] /\ lost \in [Instances -> SUBSET Events]
      BY EmptySets DEF QueueInit
    <2>3. /\ pusher \in [Pushers -> Events \cup {NoEvent}] /\ pushed \in [Pushers -> 0 .. MaxEvents]
      BY EventParts DEF QueueInit
    <2> QED BY <1>1, <2>1, <2>2, <2>3, EventParts DEF QueueTyped
  <1>4. SizesKept
    BY <1>2, <1>3 DEF SizesKept, QueueTyped, IsInjective
  <1>5. OnlyPushed
    <2>1. \A p \in Pushers : pusher[p] = NoEvent
      BY DEF QueueInit
    <2> QED BY <1>1, <1>2, <2>1, EmptySets DEF OnlyPushed
  <1>6. PushedIsPopped
    BY <1>1 DEF PushedIsPopped
  <1>7. ASSUME NEW i \in Instances PROVE FlowInOrder(i)
    BY <1>1, <1>2, EmptySets DEF FlowInOrder, Before, BeforeAway, PendingLast, PendingLastAway
  <1> QED BY <1>3, <1>4, <1>5, <1>6, <1>7 DEF QueueInv

(* A handler that pops nothing: what is dropped grows at most, by a send that fails. *)
LEMMA IdleStep ==
  ASSUME QueueInv, NEW h \in Clients,
         Accept(h) \/ BeginPop(h) \/ SendNext(h) \/ SendFails(h), HandsKept
  PROVE  QueueInv'
  <1> DEFINE i == h[1]
  <1>1. /\ UNCHANGED <<queueMax, seenMax, queue, seen, channel, pusher, pushed, taken, popped>>
        /\ \/ lost' = lost
           \/ lost' = [lost EXCEPT ![i] = lost[i] \cup ToSet(batch[h])]
    BY DEF Accept, BeginPop, SendNext, SendFails
  <1>2. i \in Instances
    BY QueueAssumption
  <1>3. batch[h] \in Seq(Events)
    BY DEF HandsKept
  <1> HIDE DEF i
  <1>4. PICK l \in {lost[i], lost[i] \cup ToSet(batch[h])} : lost' = [lost EXCEPT ![i] = l]
    BY <1>1, <1>2, AtInstance
  <1>5. l \in SUBSET Events /\ lost[i] \subseteq l
    <2>1. ToSet(batch[h]) \subseteq Events
      BY <1>3 DEF ToSet
    <2> QED BY <1>2, <1>4, <2>1, AtInstance
  <1>6. ASSUME seenMax >= MaxEvents PROVE FlowInOrder(i)'
    <2>1. FlowInOrder(i)
      BY <1>2, <1>6, AtInstance
    <2> QED BY <1>1, <1>2, <2>1, FlowKept
  <1>7. /\ queue' = [queue EXCEPT ![i] = queue[i]] /\ seen' = [seen EXCEPT ![i] = seen[i]]
        /\ channel' = [channel EXCEPT ![i] = channel[i]] /\ taken' = [taken EXCEPT ![i] = taken[i]]
        /\ popped' = [popped EXCEPT ![i] = popped[i]]
    BY <1>1, <1>2, AtInstance
  <1>8. /\ queue[i] \in Seq(Events) /\ seen[i] \in Seq(Events) /\ channel[i] \in Seq(Events)
        /\ taken[i] \in Seq(Events) /\ popped[i] \in Seq(Events)
        /\ Len(queue[i]) <= queueMax /\ Len(seen[i]) <= seenMax /\ IsInjective(seen[i])
        /\ ToSet(queue[i]) \cup ToSet(seen[i]) \cup ToSet(channel[i]) \cup ToSet(taken[i]) \cup ToSet(popped[i]) \subseteq Happened
    BY <1>2, AtInstance
  <1>9. ToSet(queue[i]) \cup ToSet(popped[i]) \cup lost[i] \subseteq ToSet(queue[i]) \cup ToSet(popped[i]) \cup l
    BY <1>5
  <1> QED BY <1>1, <1>2, <1>4, <1>5, <1>6, <1>7, <1>8, <1>9, PopSteps

-----------------------------------------------------------------------------
(* What a handler holds and has sent. *)

(* What is held on an instance: by its handlers and its clients. *)
LEMMA HeldBy == \A i, e : e \in InHand(i) \cup Delivered(i) <=> \E c \in Clients : c[1] = i /\ e \in Held(c)
  BY DEF InHand, Delivered, ClientsOf, Held

(* A step that leaves batches and clients alone keeps it. *)
LEMMA HandsUntouched ==
  ASSUME HandsKept, UNCHANGED <<seenMax, batch, popped, delivered>>,
         handler' \in [Clients -> HandlerSteps], \A c \in Clients : handler'[c] = "send" <=> handler[c] = "send",
         \A i \in Instances : lost[i] \subseteq lost'[i]
  PROVE  HandsKept'
  <1>1. \A c \in Clients : Held(c)' = Held(c)
    BY DEF Held
  <1>2. \A i : InHand(i)' = InHand(i) /\ Delivered(i)' = Delivered(i)
    BY DEF InHand, Delivered
  <1>3. /\ batch' \in [Clients -> Seq(Events)] /\ delivered' \in [Clients -> Seq(Events)]
        /\ \A c \in Clients : handler'[c] = "send" <=> batch'[c] # <<>>
    BY DEF HandsKept
  <1>4. \A c \in Clients : Held(c)' \subseteq ToSet(popped'[c[1]])
    BY <1>1 DEF HandsKept
  <1>5. \A i \in Instances : ToSet(popped'[i]) \subseteq InHand(i)' \cup Delivered(i)' \cup lost'[i]
    BY <1>2 DEF HandsKept
  <1>6. seenMax' >= MaxEvents => HandsInOrder'
    BY <1>1 DEF HandsKept, HandsInOrder, InOrder, Before
  <1> QED BY <1>3, <1>4, <1>5, <1>6 DEF HandsKept

(* A handler pops, or sends: what it holds is what it held and X, which nobody else on its instance holds. *)
LEMMA HandMoves ==
  ASSUME HandsKept, NEW h \in Clients, NEW X, NEW d \in Seq(Events), NEW b \in Seq(Events), NEW p, NEW l, NEW step \in HandlerSteps,
         seenMax' = seenMax, handler' = [handler EXCEPT ![h] = step], step = "send" <=> b # <<>>,
         delivered' = [delivered EXCEPT ![h] = d], batch' = [batch EXCEPT ![h] = b],
         popped \in [Instances -> Seq(Events)], lost \in [Instances -> SUBSET Events],
         popped' = [popped EXCEPT ![h[1]] = p], lost' = [lost EXCEPT ![h[1]] = l],
         ToSet(p) = ToSet(popped[h[1]]) \cup X, lost[h[1]] \subseteq l,
         ToSet(d) \cup ToSet(b) \subseteq Held(h) \cup X, Held(h) \cup X \subseteq ToSet(d) \cup ToSet(b) \cup l,
         seenMax >= MaxEvents => /\ X \cap ToSet(popped[h[1]]) = {}
                                 /\ InOrder(d) /\ InOrder(b) /\ Before(d, b)
  PROVE  HandsKept'
  <1>0. /\ handler \in [Clients -> HandlerSteps] /\ batch \in [Clients -> Seq(Events)] /\ delivered \in [Clients -> Seq(Events)]
        /\ (\A c \in Clients : handler[c] = "send" <=> batch[c] # <<>>)
        /\ (\A c \in Clients : Held(c) \subseteq ToSet(popped[c[1]]))
        /\ (\A i \in Instances : ToSet(popped[i]) \subseteq InHand(i) \cup Delivered(i) \cup lost[i])
        /\ (seenMax >= MaxEvents => HandsInOrder)
    BY DEF HandsKept
  <1>1. /\ h[1] \in Instances /\ \A c \in Clients : c[1] \in Instances
    BY QueueAssumption
  <1>2. /\ handler' \in [Clients -> HandlerSteps] /\ batch' \in [Clients -> Seq(Events)] /\ delivered' \in [Clients -> Seq(Events)]
        /\ \A c \in Clients : handler'[c] = "send" <=> batch'[c] # <<>>
    BY <1>0
  <1>3. /\ delivered'[h] = d /\ batch'[h] = b
        /\ \A c \in Clients : c # h => delivered'[c] = delivered[c] /\ batch'[c] = batch[c]
    BY <1>0
  <1>4. Held(h)' = ToSet(d) \cup ToSet(b) /\ \A c \in Clients : c # h => Held(c)' = Held(c)
    BY <1>3 DEF Held
  <1>5. /\ popped'[h[1]] = p /\ lost'[h[1]] = l
        /\ \A i \in Instances : i # h[1] => popped'[i] = popped[i] /\ lost'[i] = lost[i]
    BY <1>1
  <1>6. \A c \in Clients : Held(c)' \subseteq ToSet(popped'[c[1]])
    <2> SUFFICES ASSUME NEW c \in Clients PROVE Held(c)' \subseteq ToSet(popped'[c[1]])
      OBVIOUS
    <2>1. CASE c = h
      BY <1>0, <1>4, <1>5, <2>1
    <2>2. CASE c # h
      <3>1. Held(c)' \subseteq ToSet(popped[c[1]])
        BY <1>0, <1>4, <2>2
      <3>2. ToSet(popped[c[1]]) \subseteq ToSet(popped'[c[1]])
        BY <1>1, <1>5
      <3> QED BY <3>1, <3>2
    <2> QED BY <2>1, <2>2
  <1>7. ASSUME NEW i \in Instances PROVE ToSet(popped'[i]) \subseteq InHand(i)' \cup Delivered(i)' \cup lost'[i]
    <2> SUFFICES ASSUME NEW e \in ToSet(popped'[i]), e \notin lost'[i] PROVE e \in InHand(i)' \cup Delivered(i)'
      OBVIOUS
    <2>1. ASSUME NEW c \in Clients, c[1] = i, e \in Held(c) PROVE \E a \in Clients : a[1] = i /\ e \in Held(a)'
      <3>1. CASE c = h
        <4>1. e \notin l
          BY <1>5, <2>1, <3>1
        <4> QED BY <1>4, <2>1, <3>1, <4>1
      <3>2. CASE c # h
        BY <1>4, <2>1, <3>2
      <3> QED BY <3>1, <3>2
    <2>2. CASE e \in ToSet(popped[i])
      <3>1. e \notin lost[i]
        BY <1>5
      <3>2. \E c \in Clients : c[1] = i /\ e \in Held(c)
        BY <1>0, <2>2, <3>1, HeldBy
      <3>3. \E a \in Clients : a[1] = i /\ e \in Held(a)'
        BY <2>1, <3>2
      <3> QED BY <3>3 DEF InHand, Delivered, ClientsOf, Held
    <2>3. CASE e \notin ToSet(popped[i])
      <3>1. i = h[1] /\ e \in X /\ e \notin l
        BY <1>5, <2>3
      <3>2. e \in Held(h)'
        BY <1>4, <3>1
      <3> QED BY <3>1, <3>2 DEF InHand, Delivered, ClientsOf, Held
    <2> QED BY <2>2, <2>3
  <1>8. ASSUME seenMax >= MaxEvents PROVE HandsInOrder'
    <2>1. \A c \in Clients : InOrder(delivered'[c]) /\ InOrder(batch'[c]) /\ Before(delivered'[c], batch'[c])
      <3> SUFFICES ASSUME NEW c \in Clients PROVE InOrder(delivered'[c]) /\ InOrder(batch'[c]) /\ Before(delivered'[c], batch'[c])
        OBVIOUS
      <3>1. CASE c = h
        BY <1>3, <1>8, <3>1
      <3>2. CASE c # h
        BY <1>0, <1>3, <1>8, <3>2 DEF HandsInOrder
      <3> QED BY <3>1, <3>2
    <2>2. ASSUME NEW c \in Clients, c # h, c[1] = h[1] PROVE Held(c)' \cap Held(h)' = {}
      <3>1. Held(c) \cap Held(h) = {} /\ Held(c) \cap X = {}
        BY <1>0, <1>8, <2>2 DEF HandsInOrder
      <3> QED BY <1>4, <2>2, <3>1
    <2>3. \A c, a \in Clients : c # a /\ c[1] = a[1] => Held(c)' \cap Held(a)' = {}
      BY <1>0, <1>4, <1>8, <2>2 DEF HandsInOrder
    <2> QED BY <2>1, <2>3 DEF HandsInOrder, InOrder, Before
  <1> QED BY <1>2, <1>6, <1>7, <1>8 DEF HandsKept

(* The queue goes to one handler, behind what its client has. *)
LEMMA DrainHands == ASSUME QueueInv, HandsKept, NEW h \in Clients, Drain(h) PROVE HandsKept'
  <1> DEFINE i == h[1]
             X == ToSet(queue[i])
             p == popped[i] \o queue[i]
             step == IF queue[i] = <<>> THEN "sleep" ELSE "send"
  <1>1. i \in Instances
    BY QueueAssumption
  <1>2. /\ handler[h] = "drain" /\ seenMax' = seenMax /\ handler' = [handler EXCEPT ![h] = step]
        /\ batch' = [batch EXCEPT ![h] = queue[i]] /\ popped' = [popped EXCEPT ![i] = p]
        /\ delivered' = delivered /\ lost' = lost
    BY DEF Drain
  <1>3. queue[i] \in Seq(Events) /\ ToSet(p) = ToSet(popped[i]) \cup X
    BY <1>1, AtInstance, Concatenated
  <1>4. /\ popped \in [Instances -> Seq(Events)] /\ lost \in [Instances -> SUBSET Events]
        /\ lost' = [lost EXCEPT ![i] = lost[i]]
    BY <1>1, <1>2, AtInstance DEF QueueInv, QueueTyped
  <1>5. /\ delivered' = [delivered EXCEPT ![h] = delivered[h]] /\ delivered[h] \in Seq(Events)
        /\ batch[h] = <<>> /\ step \in HandlerSteps /\ (step = "send" <=> queue[i] # <<>>)
    BY <1>2 DEF HandsKept, HandlerSteps
  <1>6. Held(h) = ToSet(delivered[h])
    <2>1. batch[h] = <<>>
      BY <1>5
    <2>2. ToSet(batch[h]) = {}
      BY <2>1, EmptySets
    <2> QED BY <2>2 DEF Held
  <1>7. ASSUME seenMax >= MaxEvents
        PROVE  /\ X \cap ToSet(popped[i]) = {}
               /\ InOrder(delivered[h]) /\ InOrder(queue[i]) /\ Before(delivered[h], queue[i])
    <2>1. InOrder(queue[i]) /\ Before(popped[i], queue[i])
      BY <1>1, <1>7, AtInstance DEF FlowInOrder
    <2>2. ToSet(delivered[h]) \subseteq ToSet(popped[i]) /\ InOrder(delivered[h])
      BY <1>6, <1>7 DEF HandsKept, HandsInOrder
    <2>3. \A e \in X : e[2] \in Nat
      BY <1>1, AtInstance, PushesCount, EventParts
    <2>4. X \cap ToSet(popped[i]) = {}
      BY <2>1, <2>3 DEF Before
    <2> QED BY <2>1, <2>2, <2>4 DEF Before
  <1>8. ToSet(delivered[h]) \cup ToSet(queue[i]) \subseteq Held(h) \cup X /\ Held(h) \cup X \subseteq ToSet(delivered[h]) \cup ToSet(queue[i]) \cup lost[i]
    BY <1>6
  <1> HIDE DEF step, p, X
  <1> DEFINE b == queue[i]
             d == delivered[h]
             l == lost[i]
  <1>9. /\ b \in Seq(Events) /\ d \in Seq(Events) /\ lost[i] \subseteq l
        /\ seenMax' = seenMax /\ handler' = [handler EXCEPT ![h] = step] /\ step \in HandlerSteps /\ (step = "send" <=> b # <<>>)
    BY <1>2, <1>3, <1>5
  <1>10. /\ delivered' = [delivered EXCEPT ![h] = d] /\ batch' = [batch EXCEPT ![h] = b]
         /\ popped' = [popped EXCEPT ![i] = p] /\ lost' = [lost EXCEPT ![i] = l]
    BY <1>2, <1>4, <1>5
  <1>11. /\ ToSet(d) \cup ToSet(b) \subseteq Held(h) \cup X /\ Held(h) \cup X \subseteq ToSet(d) \cup ToSet(b) \cup l
         /\ seenMax >= MaxEvents => X \cap ToSet(popped[i]) = {} /\ InOrder(d) /\ InOrder(b) /\ Before(d, b)
    BY <1>7, <1>8
  <1> HIDE DEF b, d, l
  <1> QED BY <1>3, <1>4, <1>9, <1>10, <1>11, HandMoves

(* The first of a batch goes to the client, behind what it has. *)
LEMMA SendHands == ASSUME QueueInv, HandsKept, NEW h \in Clients, SendNext(h) PROVE HandsKept'
  <1> DEFINE i == h[1]
             e == Head(batch[h])
             b == Tail(batch[h])
             d == delivered[h] \o <<e>>
             step == IF b = <<>> THEN "sleep" ELSE "send"
  <1>1. i \in Instances
    BY QueueAssumption
  <1>2. /\ handler[h] = "send" /\ seenMax' = seenMax /\ handler' = [handler EXCEPT ![h] = step]
        /\ batch' = [batch EXCEPT ![h] = b] /\ delivered' = [delivered EXCEPT ![h] = Append(delivered[h], e)]
        /\ popped' = popped /\ lost' = lost
    BY DEF SendNext
  <1>3. batch[h] \in Seq(Events) /\ batch[h] # <<>> /\ delivered[h] \in Seq(Events)
    BY <1>2 DEF HandsKept
  <1>4. /\ e \in ToSet(batch[h]) /\ e \in Events /\ b \in Seq(Events) /\ ToSet(b) \subseteq ToSet(batch[h])
        /\ InOrder(batch[h]) => InOrder(b) /\ \A f \in ToSet(b) : e[1] = f[1] => e[2] < f[2]
    BY <1>3, FirstTaken
  <1>5. ToSet(batch[h]) \subseteq ToSet(b) \cup {e}
    BY <1>3, FirstTaken
  <1>6. <<e>> \in Seq(Events) /\ ToSet(<<e>>) = {e} /\ InOrder(<<e>>)
    BY <1>4 DEF ToSet, InOrder
  <1>7. Append(delivered[h], e) = d
    BY <1>3, <1>4
  <1>8. d \in Seq(Events) /\ ToSet(d) = ToSet(delivered[h]) \cup {e}
    <2> DEFINE one == <<e>>
    <2>1. one \in Seq(Events) /\ ToSet(one) = {e}
      BY <1>6
    <2> HIDE DEF one
    <2>2. delivered[h] \o one \in Seq(Events) /\ ToSet(delivered[h] \o one) = ToSet(delivered[h]) \cup ToSet(one)
      BY <1>3, <2>1, Concatenated
    <2> QED BY <2>1, <2>2 DEF one
  <1>9. InOrder(delivered[h]) /\ Before(delivered[h], <<e>>) => InOrder(d)
    BY <1>3, <1>6, ConcatenatedInOrder
  <1> HIDE DEF e, b, d
  <1>10. /\ popped \in [Instances -> Seq(Events)] /\ lost \in [Instances -> SUBSET Events]
         /\ popped' = [popped EXCEPT ![i] = popped[i]] /\ lost' = [lost EXCEPT ![i] = lost[i]]
    BY <1>1, <1>2, AtInstance DEF QueueInv, QueueTyped
  <1>11. step \in HandlerSteps /\ (step = "send" <=> b # <<>>)
    BY DEF HandlerSteps
  <1>12. ASSUME seenMax >= MaxEvents PROVE InOrder(d) /\ InOrder(b) /\ Before(d, b)
    <2>1. InOrder(delivered[h]) /\ InOrder(batch[h]) /\ Before(delivered[h], batch[h])
      BY <1>12 DEF HandsKept, HandsInOrder
    <2>2. Before(delivered[h], <<e>>)
      BY <1>4, <1>6, <2>1 DEF Before
    <2>3. Before(d, b)
      BY <1>4, <1>8, <2>1 DEF Before
    <2> QED BY <1>4, <1>9, <2>1, <2>2, <2>3
  <1> DEFINE X == {}
             p == popped[i]
             l == lost[i]
  <1>13. /\ ToSet(d) \cup ToSet(b) \subseteq Held(h) \cup X /\ Held(h) \cup X \subseteq ToSet(d) \cup ToSet(b) \cup l
         /\ ToSet(p) = ToSet(popped[i]) \cup X /\ lost[i] \subseteq l /\ X \cap ToSet(popped[i]) = {}
    BY <1>4, <1>5, <1>8 DEF Held
  <1>14. /\ delivered' = [delivered EXCEPT ![h] = d] /\ batch' = [batch EXCEPT ![h] = b]
         /\ popped' = [popped EXCEPT ![i] = p] /\ lost' = [lost EXCEPT ![i] = l]
    BY <1>2, <1>7, <1>10
  <1>15. /\ b \in Seq(Events) /\ d \in Seq(Events) /\ seenMax' = seenMax
         /\ handler' = [handler EXCEPT ![h] = step] /\ step \in HandlerSteps /\ (step = "send" <=> b # <<>>)
    BY <1>2, <1>4, <1>8, <1>11
  <1> HIDE DEF step, X, p, l
  <1> QED BY <1>10, <1>12, <1>13, <1>14, <1>15, HandMoves

(* A send fails: what is left of the batch is dropped. *)
LEMMA FailHands == ASSUME QueueInv, HandsKept, NEW h \in Clients, SendFails(h) PROVE HandsKept'
  <1> DEFINE i == h[1]
             l == lost[i] \cup ToSet(batch[h])
  <1>1. i \in Instances
    BY QueueAssumption
  <1>2. /\ seenMax' = seenMax /\ handler' = [handler EXCEPT ![h] = "gone"] /\ batch' = [batch EXCEPT ![h] = <<>>]
        /\ lost' = [lost EXCEPT ![i] = l] /\ delivered' = delivered /\ popped' = popped
    BY DEF SendFails
  <1>3. /\ delivered' = [delivered EXCEPT ![h] = delivered[h]] /\ delivered[h] \in Seq(Events)
        /\ <<>> \in Seq(Events) /\ "gone" \in HandlerSteps
    BY <1>2, EmptySets DEF HandsKept, HandlerSteps
  <1>4. /\ popped \in [Instances -> Seq(Events)] /\ lost \in [Instances -> SUBSET Events]
        /\ popped' = [popped EXCEPT ![i] = popped[i]]
    BY <1>1, <1>2, AtInstance DEF QueueInv, QueueTyped
  <1> DEFINE X == {}
             d == delivered[h]
             b == <<>>
             p == popped[i]
             step == "gone"
  <1>5. /\ ToSet(d) \cup ToSet(b) \subseteq Held(h) \cup X /\ Held(h) \cup X \subseteq ToSet(d) \cup ToSet(b) \cup l
        /\ ToSet(p) = ToSet(popped[i]) \cup X /\ lost[i] \subseteq l /\ X \cap ToSet(popped[i]) = {}
    BY EmptySets DEF Held
  <1>6. ASSUME seenMax >= MaxEvents PROVE InOrder(d) /\ InOrder(b) /\ Before(d, b)
    BY <1>6, EmptySets DEF HandsKept, HandsInOrder, Before
  <1>7. /\ delivered' = [delivered EXCEPT ![h] = d] /\ batch' = [batch EXCEPT ![h] = b]
        /\ popped' = [popped EXCEPT ![i] = p] /\ lost' = [lost EXCEPT ![i] = l]
    BY <1>2, <1>3, <1>4
  <1>8. /\ b \in Seq(Events) /\ d \in Seq(Events) /\ seenMax' = seenMax
        /\ handler' = [handler EXCEPT ![h] = step] /\ step \in HandlerSteps /\ (step = "send" <=> b # <<>>)
    BY <1>2, <1>3
  <1> HIDE DEF X, d, b, p, l, step
  <1> QED BY <1>4, <1>5, <1>6, <1>7, <1>8, HandMoves

(* The invariant is kept by every step. *)
LEMMA QueueStep == ASSUME QueueInv, HandsKept, [QueueNext]_queueVars PROVE QueueInv' /\ HandsKept'
  <1>0. /\ lost \in [Instances -> SUBSET Events] /\ handler \in [Clients -> HandlerSteps]
    BY DEF QueueInv, QueueTyped, HandsKept
  <1>1. CASE UNCHANGED queueVars
    <2>1. QueueInv'
      BY <1>1 DEF queueVars, QueueInv, QueueTyped, Pushes, Happened, SizesKept, OnlyPushed, PushedIsPopped,
                  FlowInOrder, InOrder, Before, BeforeAway, PendingLast, PendingLastAway
    <2>2. HandsKept'
      BY <1>0, <1>1, HandsUntouched DEF queueVars
    <2> QED BY <2>1, <2>2
  <1>2. ASSUME NEW p \in Pushers, Push(p) \/ Publish(p) PROVE QueueInv' /\ HandsKept'
    <2>1. QueueInv'
      BY <1>2, PushStep, PublishStep
    <2>2. /\ UNCHANGED <<seenMax, handler, batch, popped, delivered>>
          /\ lost' = lost \/ lost' = [lost EXCEPT ![p[1]] = lost[p[1]] \cup Overflow(queue[p[1]], <<<<p, pushed[p] + 1>>>>)]
      BY <1>2 DEF Push, Publish
    <2>3. \A i \in Instances : lost[i] \subseteq lost'[i]
      BY <1>0, <2>2
    <2> QED BY <1>0, <2>1, <2>2, <2>3, HandsUntouched
  <1>3. ASSUME NEW h \in Clients, Drain(h) \/ SendNext(h) \/ SendFails(h) PROVE QueueInv' /\ HandsKept'
    <2>1. h[1] \in Instances
      BY QueueAssumption
    <2>2. QueueInv'
      BY <1>3, <2>1, DrainStep, IdleStep
    <2> QED BY <1>3, <2>2, DrainHands, SendHands, FailHands
  <1>4. ASSUME NEW h \in Clients, Accept(h) \/ BeginPop(h) \/ TakeMessage(h) \/ PollEnds(h) \/ PollFails(h) \/ AppendTaken(h)
        PROVE  QueueInv' /\ HandsKept'
    <2>1. h[1] \in Instances
      BY QueueAssumption
    <2>2. QueueInv'
      BY <1>4, <2>1, TakeStep, PollStep, AppendStep, IdleStep
    <2>3. UNCHANGED <<seenMax, batch, popped, delivered>>
      BY <1>4 DEF Accept, BeginPop, TakeMessage, PollEnds, PollFails, AppendTaken
    <2>4. PICK step \in HandlerSteps \ {"send"} : handler[h] # "send" /\ handler' = [handler EXCEPT ![h] = step]
      <3>1. CASE TakeMessage(h)
        <4>1. handler[h] = "poll" /\ handler' = handler /\ handler = [handler EXCEPT ![h] = handler[h]]
          BY <1>0, <3>1 DEF TakeMessage
        <4> QED BY <4>1 DEF HandlerSteps
      <3>2. CASE PollEnds(h)
        <4>1. handler[h] = "poll" /\ \E step \in {"drain", "append"} : handler' = [handler EXCEPT ![h] = step]
          BY <3>2 DEF PollEnds
        <4> QED BY <4>1 DEF HandlerSteps
      <3>3. CASE Accept(h) \/ BeginPop(h) \/ PollFails(h) \/ AppendTaken(h)
        BY <3>3 DEF Accept, BeginPop, PollFails, AppendTaken, HandlerSteps
      <3> QED BY <1>4, <3>1, <3>2, <3>3
    <2>5. handler' \in [Clients -> HandlerSteps] /\ \A c \in Clients : handler'[c] = "send" <=> handler[c] = "send"
      BY <1>0, <2>4
    <2>6. \E x : lost' = lost \/ lost' = [lost EXCEPT ![h[1]] = lost[h[1]] \cup x]
      BY <1>4 DEF Accept, BeginPop, TakeMessage, PollEnds, PollFails, AppendTaken
    <2>7. \A i \in Instances : lost[i] \subseteq lost'[i]
      BY <1>0, <2>6
    <2> QED BY <2>2, <2>3, <2>5, <2>7, HandsUntouched
  <1> QED BY <1>1, <1>2, <1>3, <1>4 DEF QueueNext, HandlerStep

(* Events on their way through queue and channel to the clients (event_queue.py, server.py), for any instances, threads,
   clients, sizes and interleaving: while the memory of ids holds them all no client gets an event twice and no two
   clients of an instance get the same, those of one thread reach a client in the order it pushed them; and what was
   pushed is queued, in the hands of a handler, sent to a client or dropped on the instance it was pushed on.             *)
THEOREM EventsStayInOrder == QueueSpec => []EventsInOrder
  <1>1. QueueInit => QueueInv /\ HandsKept
    <2> SUFFICES ASSUME QueueInit PROVE QueueInv /\ HandsKept
      OBVIOUS
    <2>1. /\ handler \in [Clients -> HandlerSteps] /\ batch \in [Clients -> Seq(Events)] /\ delivered \in [Clients -> Seq(Events)]
          /\ \A c \in Clients : handler[c] = "new" /\ batch[c] = <<>> /\ delivered[c] = <<>>
      BY EmptySets DEF QueueInit, HandlerSteps
    <2>2. \A i \in Instances : popped[i] = <<>>
      BY DEF QueueInit
    <2>3. \A c \in Clients : Held(c) = {}
      BY <2>1, EmptySets DEF Held
    <2>4. HandsInOrder
      BY <2>1, <2>3, EmptySets DEF HandsInOrder, Before
    <2>5. HandsKept
      BY <2>1, <2>2, <2>3, <2>4, EmptySets DEF HandsKept
    <2> QED BY <2>5, QueueStarts
  <1>2. QueueInv /\ HandsKept /\ [QueueNext]_queueVars => QueueInv' /\ HandsKept'
    BY QueueStep
  <1>3. QueueInv /\ HandsKept => EventsInOrder
    <2> SUFFICES ASSUME QueueInv, HandsKept PROVE EventsInOrder
      OBVIOUS
    <2>0. QueueTyped /\ SizesKept /\ PushedIsPopped
      BY DEF QueueInv
    <2>1. QueueTypeOK
      BY <2>0 DEF QueueTypeOK, QueueTyped, SizesKept, HandsKept, HandlerSteps
    <2>2. \A c \in Clients : delivered[c] \in Seq(Events) /\ (seenMax >= MaxEvents => InOrder(delivered[c]))
      BY DEF HandsKept, HandsInOrder
    <2>3. InPushOrder
      BY <2>2 DEF InPushOrder, InOrder
    <2>4. ASSUME seenMax >= MaxEvents, NEW c \in Clients PROVE IsInjective(delivered[c])
      <3> SUFFICES ASSUME NEW k \in DOMAIN delivered[c], NEW l \in DOMAIN delivered[c], delivered[c][k] = delivered[c][l]
                   PROVE  k = l
        BY DEF IsInjective
      <3>1. delivered[c] \in Seq(Events) /\ InOrder(delivered[c])
        BY <2>2, <2>4
      <3>2. k \in Nat /\ l \in Nat /\ delivered[c][k] \in Events
        BY <3>1
      <3>3. ~(delivered[c][k][2] < delivered[c][k][2])
        BY <3>2, EventParts
      <3>4. ~(k < l) /\ ~(l < k)
        BY <3>1, <3>3 DEF InOrder
      <3> QED BY <3>2, <3>4
    <2>5. ASSUME seenMax >= MaxEvents, NEW c \in Clients, NEW d \in Clients, c # d, c[1] = d[1]
          PROVE  ToSet(delivered[c]) \cap ToSet(delivered[d]) = {}
      BY <2>5 DEF HandsKept, HandsInOrder, Held
    <2>6. DeliveredOnce
      BY <2>4, <2>5 DEF DeliveredOnce
    <2>7. PushedIsKept
      <3> SUFFICES ASSUME NEW e \in Happened
                   PROVE  e \in ToSet(queue[e[1][1]]) \cup InHand(e[1][1]) \cup Delivered(e[1][1]) \cup lost[e[1][1]]
        BY DEF PushedIsKept
      <3>1. e[1][1] \in Instances
        BY PushesCount, EventParts, QueueAssumption
      <3>2. ToSet(popped[e[1][1]]) \subseteq InHand(e[1][1]) \cup Delivered(e[1][1]) \cup lost[e[1][1]]
        BY <3>1 DEF HandsKept
      <3> QED BY <2>0, <3>2 DEF PushedIsPopped
    <2> QED BY <2>1, <2>3, <2>6, <2>7 DEF EventsInOrder
  <1> QED BY <1>1, <1>2, <1>3, PTL DEF QueueSpec
=============================================================================
