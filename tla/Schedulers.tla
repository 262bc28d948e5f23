------------------------------ MODULE Schedulers ------------------------------
(***************************************************************************)
(* The background loops: PipelineScheduler and SentimentScheduler          *)
(* (src/pipeline/scheduler.py), ContinuousAutoMLScheduler                  *)
(* (src/pipeline/continuous_automl_scheduler.py), the reconciliation loop  *)
(* of src/execution/manager.py, MLTrainerService (src/ml/service.py) and   *)
(* MarketDataService (src/marketdata/service.py).  They share one shape, a *)
(* thread that works until a stop event is set, and differ in who holds a  *)
(* lock, what a stop that gives up waiting leaves, and what a cycle does;  *)
(* a behaviour chooses one.  The first three start and stop under a lock;  *)
(* the server calls the others one call after the other.                   *)
(***************************************************************************)
EXTENDS Naturals, FiniteSets

CONSTANTS Callers, MaxLoops, MaxTrials, NoCaller

ASSUME SchedAssumption == NoCaller \notin Callers /\ MaxLoops \in Nat /\ MaxTrials \in Nat

VARIABLES kind,
          holder,      \* the caller inside start or stop, NoCaller
          event,       \* the stop event
          thread,      \* self._thread: the number of the loop, 0 for None
          loop,        \* loop[l]: where the thread of the l-th start is
          caller,      \* caller[c]: where the call is, and whether its stop has a timeout
          flag,        \* ContinuousAutoMLScheduler._is_running
          best,        \* _best_params, by the number of the search that found them, 0 for none
          trials,      \* searches so far
          cycle,       \* cycle[w]: the step of the AutoML cycle of a worker
          promoted,    \* latest.json: the parameters promoted last
          validated,   \* history: the parameters that passed the validation
          overlapped,  \* history: two AutoML cycles ran at the same time
          abandoned    \* history: loops a stop gave up waiting for

schedVars == <<kind, holder, event, thread, loop, caller, flag, best, trials, cycle, promoted,
               validated, overlapped, abandoned>>

Kinds == {"pipeline", "sentiment", "automl", "reconcile", "trainer", "market"}
Loops == 1 .. MaxLoops
Workers == Loops \cup Callers
Alive == {l \in Loops : loop[l] \in {"begin", "wait", "work", "store", "end"}}
InCycle == {w \in Workers : cycle[w] # "none"}
NoCall == [pc |-> "idle", timed |-> FALSE]

SchedTypeOK ==
  /\ kind \in Kinds /\ holder \in Callers \cup {NoCaller} /\ event \in BOOLEAN
  /\ thread \in 0 .. MaxLoops /\ flag \in BOOLEAN
  /\ loop \in [Loops -> {"none", "begin", "wait", "work", "store", "end", "dead"}]
  /\ caller \in [Callers -> [pc : {"idle", "stop", "join", "cycle"}, timed : BOOLEAN]]
  /\ cycle \in [Workers -> {"none", "search", "validate", "promote"}]
  /\ {best, trials, promoted} \subseteq 0 .. MaxTrials /\ validated \subseteq 1 .. MaxTrials
  /\ overlapped \in BOOLEAN /\ abandoned \subseteq Loops
  /\ \A c \in Callers : caller[c].pc \in {"stop", "join"} <=> holder = c

SchedInit ==
  /\ kind \in Kinds /\ holder = NoCaller /\ event = FALSE /\ thread = 0
  /\ loop = [l \in Loops |-> "none"] /\ caller = [c \in Callers |-> NoCall]
  /\ flag = FALSE /\ best = 0 /\ trials = 0 /\ cycle = [w \in Workers |-> "none"]
  /\ promoted = 0 /\ validated = {} /\ overlapped = FALSE /\ abandoned = {}

NextLoop == Cardinality({l \in Loops : loop[l] # "none"}) + 1

RunningNever == FALSE                                                      \* mutant
\* start() asks whether the thread it knows is alive.
RunningNow == thread \in Alive

-----------------------------------------------------------------------------
Start(c) ==
  /\ caller[c].pc = "idle" /\ holder = NoCaller /\ ~RunningNow /\ NextLoop \in Loops
  /\ event' = FALSE
  /\ thread' = NextLoop
  /\ loop' = [loop EXCEPT ![NextLoop] = "begin"]
  /\ flag' = (flag \/ kind = "automl")
  /\ UNCHANGED <<kind, holder, caller, best, trials, cycle, promoted, validated, overlapped, abandoned>>

\* stop(timeout): only the locked ones are also called without a timeout.
BeginStop(c, timed) ==
  /\ caller[c].pc = "idle" /\ holder = NoCaller
  /\ timed \/ kind \in {"pipeline", "sentiment", "automl"}
  /\ holder' = c
  /\ caller' = [caller EXCEPT ![c] = [pc |-> "stop", timed |-> timed]]
  /\ UNCHANGED <<kind, event, thread, loop, flag, best, trials, cycle, promoted, validated,
                 overlapped, abandoned>>

SetEvent(c) ==
  /\ caller[c].pc = "stop"
  /\ event' = IF kind = "reconcile" /\ thread = 0 THEN event ELSE TRUE
  /\ caller' = [caller EXCEPT ![c].pc = "join"]
  /\ UNCHANGED <<kind, holder, thread, loop, flag, best, trials, cycle, promoted, validated,
                 overlapped, abandoned>>

ThreadAfterDropped(gaveUp) == 0                                            \* mutant
\* The trainer and the market service keep the thread they have joined, the others forget it, dead
\* or not.
ThreadAfter(gaveUp) == IF kind \in {"trainer", "market"} THEN thread ELSE 0

JoinedAny == TRUE                                                          \* mutant
Joined == thread \notin Alive

EndStop(c, gaveUp) ==
  /\ caller[c].pc = "join"
  /\ IF gaveUp THEN caller[c].timed /\ RunningNow ELSE Joined
  /\ thread' = ThreadAfter(gaveUp)
  /\ abandoned' = IF gaveUp THEN abandoned \cup {thread} ELSE abandoned
  /\ holder' = NoCaller /\ caller' = [caller EXCEPT ![c] = NoCall]
  /\ UNCHANGED <<kind, event, loop, flag, best, trials, cycle, promoted, validated, overlapped>>

-----------------------------------------------------------------------------
\* The thread: sentiment, trainer and market work before they wait, the others wait first.
LoopBegins(l) ==
  /\ loop[l] = "begin"
  /\ loop' = [loop EXCEPT ![l] =
       CASE kind = "sentiment" -> "work"
         [] kind \in {"trainer", "market"} -> IF event THEN "end" ELSE "work"
         [] OTHER -> "wait"]
  /\ flag' = (flag \/ kind = "automl")
  /\ UNCHANGED <<kind, holder, event, thread, caller, best, trials, cycle, promoted, validated,
                 overlapped, abandoned>>

AfterWaitAlways == "work"                                                  \* mutant
\* The wait ends by the event, or by the interval.
AfterWait == IF event THEN "end" ELSE "work"

LoopWakes(l) ==
  /\ loop[l] = "wait"
  /\ loop' = [loop EXCEPT ![l] = AfterWait]
  /\ cycle' = IF kind = "automl" /\ ~event THEN [cycle EXCEPT ![l] = "search"] ELSE cycle
  /\ overlapped' = (overlapped \/ (kind = "automl" /\ ~event /\ InCycle # {}))
  /\ UNCHANGED <<kind, holder, event, thread, caller, flag, best, trials, promoted, validated, abandoned>>

\* A cycle ends, its exceptions swallowed; one that has fetched a sentiment goes on to store it.
LoopWorked(l, fetched) ==
  /\ loop[l] = "work" /\ cycle[l] = "none"
  /\ loop' = [loop EXCEPT ![l] = IF kind = "sentiment" /\ fetched THEN "store" ELSE "wait"]
  /\ UNCHANGED <<kind, holder, event, thread, caller, flag, best, trials, cycle, promoted, validated,
                 overlapped, abandoned>>

\* The sentiment loop, here of one symbol, stores its vector under the lock that start and stop hold.
LoopStores(l) ==
  /\ loop[l] = "store" /\ holder = NoCaller
  /\ loop' = [loop EXCEPT ![l] = "wait"]
  /\ UNCHANGED <<kind, holder, event, thread, caller, flag, best, trials, cycle, promoted, validated,
                 overlapped, abandoned>>

FlagAfterKept == flag                                                      \* mutant
FlagAfter == flag /\ kind # "automl"

LoopEnds(l) ==
  /\ loop[l] = "end"
  /\ loop' = [loop EXCEPT ![l] = "dead"]
  /\ flag' = FlagAfter
  /\ UNCHANGED <<kind, holder, event, thread, caller, best, trials, cycle, promoted, validated,
                 overlapped, abandoned>>

-----------------------------------------------------------------------------
\* run_once of the AutoML scheduler, beside its loop; the lock is only for the counter.
RunOnce(c) ==
  /\ kind = "automl" /\ caller[c].pc = "idle" /\ holder = NoCaller
  /\ caller' = [caller EXCEPT ![c].pc = "cycle"]
  /\ cycle' = [cycle EXCEPT ![c] = "search"]
  /\ overlapped' = (overlapped \/ InCycle # {})
  /\ UNCHANGED <<kind, holder, event, thread, loop, flag, best, trials, promoted, validated, abandoned>>

RunOnceReturns(c) ==
  /\ caller[c].pc = "cycle" /\ cycle[c] = "none"
  /\ caller' = [caller EXCEPT ![c] = NoCall]
  /\ UNCHANGED <<kind, holder, event, thread, loop, flag, best, trials, cycle, promoted, validated,
                 overlapped, abandoned>>

\* _run_automl_cycle: the search stores its best parameters in the object, the validation reads them
\* there, the promotion reads them there again.  Each of them may raise, which ends the cycle.
Search(w) ==
  /\ cycle[w] = "search" /\ trials < MaxTrials
  /\ trials' = trials + 1 /\ best' = trials + 1
  /\ cycle' = [cycle EXCEPT ![w] = "validate"]
  /\ UNCHANGED <<kind, holder, event, thread, loop, caller, flag, promoted, validated, overlapped,
                 abandoned>>

AfterValidationAlways(passed) == "promote"                                 \* mutant
AfterValidation(passed) == IF passed THEN "promote" ELSE "none"

Validate(w) ==
  /\ cycle[w] = "validate"
  /\ \E passed \in BOOLEAN :
       /\ validated' = IF passed THEN validated \cup {best} ELSE validated
       /\ cycle' = [cycle EXCEPT ![w] = AfterValidation(passed)]
  /\ UNCHANGED <<kind, holder, event, thread, loop, caller, flag, best, trials, promoted,
                 overlapped, abandoned>>

Promote(w) ==
  /\ cycle[w] = "promote"
  /\ promoted' = best
  /\ cycle' = [cycle EXCEPT ![w] = "none"]
  /\ UNCHANGED <<kind, holder, event, thread, loop, caller, flag, best, trials, validated,
                 overlapped, abandoned>>

CycleFails(w) ==
  /\ cycle[w] # "none"
  /\ cycle' = [cycle EXCEPT ![w] = "none"]
  /\ UNCHANGED <<kind, holder, event, thread, loop, caller, flag, best, trials, promoted, validated,
                 overlapped, abandoned>>

CycleStep(w) == Search(w) \/ Validate(w) \/ Promote(w) \/ CycleFails(w)
LoopStep(l) ==
  \/ LoopBegins(l) \/ LoopWakes(l) \/ LoopStores(l) \/ LoopEnds(l) \/ CycleStep(l)
  \/ \E fetched \in BOOLEAN : LoopWorked(l, fetched)
StopStep(c) == SetEvent(c) \/ \E gaveUp \in BOOLEAN : EndStop(c, gaveUp)

SchedNext ==
  \/ \E c \in Callers : \/ Start(c) \/ StopStep(c) \/ \E timed \in BOOLEAN : BeginStop(c, timed)
                        \/ RunOnce(c) \/ RunOnceReturns(c) \/ CycleStep(c)
  \/ \E l \in Loops : LoopStep(l)

SchedSpec == SchedInit /\ [][SchedNext]_schedVars

-----------------------------------------------------------------------------
\* At most one loop works beside those a stop has given up on: two starts, or a start against a stop,
\* never leave two.
OneLoop == Cardinality(Alive \ abandoned) <= 1

\* The trainer and the market service never run twice, also after a stop that gave up: their start
\* still sees the old thread.
NeverTwice == kind \in {"trainer", "market"} => Cardinality(Alive) <= 1

\* When a stop has returned and nothing was started since, only loops it gave up on are left, and the
\* stop event is set for those.
StoppedIsStopped == thread = 0 /\ holder = NoCaller /\ Alive # {} => Alive \subseteq abandoned /\ event

\* is_running of the AutoML scheduler says whether a loop is alive, as long as no stop gave up.
StatusTrue == kind = "automl" /\ abandoned = {} => (flag <=> Alive # {})

\* The promoted parameters have passed the walk-forward validation, unless run_once ran beside the
\* loop: the parameters are passed through the object.
PromotedWasValidated == ~overlapped /\ promoted # 0 => promoted \in validated

\* A stop returns, unless it is one without a timeout, of a sentiment loop that waits for the lock the
\* stop holds.
Deadlocked(c) == holder = c /\ ~caller[c].timed /\ \E l \in Loops : loop[l] = "store"
StopReturns == \A c \in Callers : caller[c].pc = "join" ~> caller[c].pc # "join" \/ Deadlocked(c)

\* Every stop returns.  This fails: the sentiment loop needs the lock to store what it has fetched.
EveryStopReturns == \A c \in Callers : caller[c].pc = "join" ~> caller[c].pc # "join"

\* All of it: the loops with a stop event (scheduler.py, continuous_automl_scheduler.py, service.py).
LoopsControlled ==
  SchedTypeOK /\ OneLoop /\ NeverTwice /\ StoppedIsStopped /\ StatusTrue /\ PromotedWasValidated
=============================================================================
