----------------------------- MODULE GhostMachine -----------------------------
(***************************************************************************)
(* The trading loop of src/pipeline/ghost_machine.py.  The routes of       *)
(* src/api/ghost_machine_routes.py start it, stop it and run a cycle on    *)
(* the event loop, one call after the other; the loop is a thread of its   *)
(* own and nothing is locked.  A stop waits 30 seconds for the thread, and *)
(* a start does not look whether the old thread is alive.  _process_symbol *)
(* answers every failure with an ERROR result, so the pause after          *)
(* consecutive exceptions is never reached and is left out.                *)
(***************************************************************************)
EXTENDS Naturals, Sequences, FiniteSets

CONSTANTS MaxGhosts, MaxGhostOrders, MaxGhostCycles, SymbolCount, Api

VARIABLES machine,   \* _running, the stop event, the number of the thread of _thread
          ghost,     \* ghost[g]: where the thread of the g-th start is, and at which symbol
          route,     \* the call on the event loop: idle, waiting in stop, or in a manual cycle
          vetoed,    \* the anomaly guard blocks every trade (mimo_veto_active)
          cycles,    \* total_cycles and the counters of how they ended
          sent,      \* history: orders sent to the executor by a worker after the last event it saw unset
          left       \* history: threads a stop gave up waiting for

ghostVars == <<machine, ghost, route, vetoed, cycles, sent, left>>

Ghosts == 1 .. MaxGhosts
GhostWorkers == Ghosts \cup {Api}
GhostAlive == {g \in Ghosts : ghost[g].pc \notin {"none", "dead"}}
Orders == cycles.bought

ASSUME GhostAssumption ==
  /\ MaxGhosts \in Nat /\ MaxGhostOrders \in Nat /\ SymbolCount \in Nat \ {0}
  /\ Api \notin Ghosts

GhostTypeOK ==
  /\ machine \in [running : BOOLEAN, event : BOOLEAN, thread : 0 .. MaxGhosts]
  /\ ghost \in [GhostWorkers -> [pc : {"none", "top", "symbol", "fetch", "guard", "execute", "record",
                                       "sleep", "dead"}, at : 1 .. SymbolCount + 1]]
  /\ route \in {"idle", "join", "cycle"} /\ vetoed \in BOOLEAN
  /\ cycles \in [total : Nat, ok : Nat, blocked : Nat, other : Nat, bought : 0 .. MaxGhostOrders]
  /\ sent \in [Ghosts -> 0 .. MaxGhostOrders] /\ left \subseteq Ghosts

GhostInit ==
  /\ machine = [running |-> FALSE, event |-> FALSE, thread |-> 0]
  /\ ghost = [w \in GhostWorkers |-> [pc |-> "none", at |-> 1]]
  /\ route = "idle" /\ vetoed = FALSE /\ left = {}
  /\ cycles = [total |-> 0, ok |-> 0, blocked |-> 0, other |-> 0, bought |-> 0]
  /\ sent = [g \in Ghosts |-> 0]

NextGhost == Cardinality({g \in Ghosts : ghost[g].pc # "none"}) + 1

MayStartAlways == TRUE                                                     \* mutant
MayStart == ~machine.running

-----------------------------------------------------------------------------
GhostStart ==
  /\ route = "idle" /\ MayStart /\ NextGhost \in Ghosts
  /\ machine' = [running |-> TRUE, event |-> FALSE, thread |-> NextGhost]
  /\ ghost' = [ghost EXCEPT ![NextGhost].pc = "top"]
  /\ UNCHANGED <<route, vetoed, cycles, sent, left>>

\* stop: joins the thread it knows, if that is alive; otherwise it returns.
GhostStop ==
  /\ route = "idle" /\ machine.running
  /\ machine' = [machine EXCEPT !.event = TRUE, !.running = FALSE]
  /\ route' = IF machine.thread \in GhostAlive THEN "join" ELSE "idle"
  /\ UNCHANGED <<ghost, vetoed, cycles, sent, left>>

GhostStopped ==
  /\ route = "join" /\ route' = "idle"
  /\ left' = IF machine.thread \in GhostAlive THEN left \cup {machine.thread} ELSE left
  /\ UNCHANGED <<machine, ghost, vetoed, cycles, sent>>

\* run_single_cycle: over all symbols, whatever the stop event says.
ManualCycle ==
  /\ route = "idle" /\ route' = "cycle"
  /\ ghost' = [ghost EXCEPT ![Api] = [pc |-> "fetch", at |-> 1]]
  /\ UNCHANGED <<machine, vetoed, cycles, sent, left>>

ManualCycleReturns ==
  /\ route = "cycle" /\ ghost[Api].pc = "dead" /\ route' = "idle"
  /\ ghost' = [ghost EXCEPT ![Api].pc = "none"]
  /\ UNCHANGED <<machine, vetoed, cycles, sent, left>>

\* update_mimo_veto, from another thread.
Supervise == vetoed' = ~vetoed /\ UNCHANGED <<machine, ghost, route, cycles, sent, left>>

-----------------------------------------------------------------------------
\* _run_loop: the event is looked at at the top, before every symbol, before and by the wait.
LoopsOn(g, pc) == ghost' = [ghost EXCEPT ![g].pc = IF machine.event THEN "dead" ELSE pc]

GhostTop(g) ==
  /\ ghost[g].pc = "top"
  /\ ghost' = [ghost EXCEPT ![g] = [pc |-> IF machine.event THEN "dead" ELSE "symbol", at |-> 1]]
  /\ UNCHANGED <<machine, route, vetoed, cycles, sent, left>>

StopSeenNever(g) == FALSE                                                  \* mutant
StopSeen(g) == machine.event

GhostSymbol(g) ==
  /\ ghost[g].pc = "symbol"
  /\ ghost' = [ghost EXCEPT ![g].pc = IF ghost[g].at > SymbolCount \/ StopSeen(g) THEN "sleep" ELSE "fetch"]
  /\ sent' = IF machine.event THEN sent ELSE [sent EXCEPT ![g] = 0]
  /\ UNCHANGED <<machine, route, vetoed, cycles, left>>

GhostSleep(g) ==
  /\ ghost[g].pc = "sleep" /\ LoopsOn(g, "top")
  /\ UNCHANGED <<machine, route, vetoed, cycles, sent, left>>

\* _process_symbol: candles, features and agent fail, or there is no agent ...
FetchFails(w) ==
  /\ ghost[w].pc = "fetch"
  /\ ghost' = [ghost EXCEPT ![w].pc = "record"]
  /\ cycles' = [cycles EXCEPT !.other = @ + 1]
  /\ UNCHANGED <<machine, route, vetoed, sent, left>>

Predict(w) ==
  /\ ghost[w].pc = "fetch"
  /\ ghost' = [ghost EXCEPT ![w].pc = "guard"]
  /\ UNCHANGED <<machine, route, vetoed, cycles, sent, left>>

\* ... the guard blocks, or the fraction is too small to trade, or an order is sent ...
Guarded(w) ==
  /\ ghost[w].pc = "guard"
  /\ \/ /\ vetoed
        /\ ghost' = [ghost EXCEPT ![w].pc = "record"] /\ cycles' = [cycles EXCEPT !.blocked = @ + 1]
     \/ /\ ~vetoed
        /\ ghost' = [ghost EXCEPT ![w].pc = "record"] /\ cycles' = [cycles EXCEPT !.ok = @ + 1]
     \/ /\ ~vetoed /\ Orders < MaxGhostOrders
        /\ ghost' = [ghost EXCEPT ![w].pc = "execute"] /\ UNCHANGED cycles
  /\ UNCHANGED <<machine, route, vetoed, sent, left>>

\* ... whose failure is an EXEC_ERROR in a successful cycle.
Execute(w) ==
  /\ ghost[w].pc = "execute"
  /\ ghost' = [ghost EXCEPT ![w].pc = "record"]
  /\ \E filled \in {0, 1} :
       /\ Orders + filled <= MaxGhostOrders
       /\ cycles' = [cycles EXCEPT !.ok = @ + 1, !.bought = @ + filled]
       /\ sent' = IF w \in Ghosts THEN [sent EXCEPT ![w] = @ + filled] ELSE sent
  /\ UNCHANGED <<machine, route, vetoed, left>>

RecordedTwice(w) == 2                                                      \* mutant
Recorded(w) == 1

RecordCycle(w) ==
  /\ ghost[w].pc = "record" /\ cycles.total < MaxGhostCycles
  /\ cycles' = [cycles EXCEPT !.total = @ + Recorded(w)]
  /\ ghost' = [ghost EXCEPT ![w] =
       [pc |-> IF w \in Ghosts THEN "symbol" ELSE IF @.at < SymbolCount THEN "fetch" ELSE "dead",
        at |-> @.at + 1]]
  /\ UNCHANGED <<machine, route, vetoed, sent, left>>

Process(w) == FetchFails(w) \/ Predict(w) \/ Guarded(w) \/ Execute(w) \/ RecordCycle(w)
GhostStep(g) == GhostTop(g) \/ GhostSymbol(g) \/ GhostSleep(g) \/ Process(g)

GhostNext ==
  \/ GhostStart \/ GhostStop \/ GhostStopped \/ ManualCycle \/ ManualCycleReturns \/ Supervise
  \/ Process(Api) \/ \E g \in Ghosts : GhostStep(g)

GhostSpec == GhostInit /\ [][GhostNext]_ghostVars

-----------------------------------------------------------------------------
\* Two loops trade at the same time only after a stop that did not wait for the first to end.
OneGhost == Cardinality(GhostAlive \ left) <= 1

\* Once the machine is stopped, only threads that the stop gave up on are alive, and no such thread
\* sends more than the one order it was at: it does not go on to its next symbol.
StoppedTradesOnce ==
  machine.event /\ route = "idle" => GhostAlive \subseteq left /\ \A g \in Ghosts : sent[g] <= 1

\* Every cycle that has ended is counted once and in one of the ways it can end, with the loop, a
\* revived loop and manual cycles side by side.
CyclesAddUp ==
  cycles.total + Cardinality({w \in GhostWorkers : ghost[w].pc = "record"})
    = cycles.ok + cycles.blocked + cycles.other

\* All of it: the autonomous loop and manual cycles (ghost_machine.py).
GhostControlled == GhostTypeOK /\ OneGhost /\ StoppedTradesOnce /\ CyclesAddUp
=============================================================================
