------------------------------- MODULE MCWorkers -------------------------------
(* The threads and tasks that work in the background, checked one after the other: the loops with a stop *)
(* event, the ghost machine, the event queue with the connections it serves, the notifications.          *)
EXTENDS Schedulers, EventQueue, GhostMachine, Notifications
CONSTANTS a, b, c1, c2, u1, u2
VARIABLE focus

allVars == <<focus, schedVars, queueVars, ghostVars, noteVars>>

ClientsMC == {<<a, 1>>, <<a, 2>>, <<b, 1>>}
PushersOf == {<<a, 1>>, <<a, 2>>}
ConnectionsOf == {<<u1, 1>>, <<u1, 2>>, <<u2, 1>>}

\* Bound: with the small queue or memory of ids, or a failing publish or poll, one thread pushes and one
\* client of its instance connects; otherwise two do.
FewActors == pushed[<<a, 2>>] = 0 /\ handler[<<a, 2>>] = "new"

Init ==
  /\ focus \in {"sched", "queue", "ghost", "notes"}
  /\ SchedInit /\ QueueInit /\ GhostInit /\ NoteInit
  /\ focus # "sched" => kind = "pipeline"
  /\ focus # "queue" => seenMax = (CHOOSE m \in SeenMaxima : TRUE) /\ queueMax = (CHOOSE m \in QueueMaxima : TRUE)
  /\ focus # "notes" => \A n \in Sends : sending[n].user = u1

Next ==
  \/ focus = "sched" /\ SchedNext /\ UNCHANGED <<focus, queueVars, ghostVars, noteVars>>
  \/ /\ focus = "queue" /\ QueueNext
     /\ seenMax = 1 \/ queueMax = 1 \/ queueFaults' > 0 => FewActors'
     /\ UNCHANGED <<focus, schedVars, ghostVars, noteVars>>
  \/ focus = "ghost" /\ GhostNext /\ UNCHANGED <<focus, schedVars, queueVars, noteVars>>
  \/ focus = "notes" /\ NoteNext /\ UNCHANGED <<focus, schedVars, queueVars, ghostVars>>

(* A thread that can run does: the steps of a loop, of a stop, of a connection's handler and of a push    *)
(* that has begun are weakly fair.                                                                        *)
Fairness ==
  /\ \A l \in Loops : WF_allVars(focus = "sched" /\ LoopStep(l)
                                 /\ UNCHANGED <<focus, queueVars, ghostVars, noteVars>>)
  /\ \A c \in Callers : WF_allVars(focus = "sched" /\ StopStep(c)
                                   /\ UNCHANGED <<focus, queueVars, ghostVars, noteVars>>)
  /\ \A c \in Clients : WF_allVars(focus = "queue" /\ HandlerStep(c)
                                   /\ UNCHANGED <<focus, schedVars, ghostVars, noteVars>>)
  /\ \A p \in Pushers : WF_allVars(focus = "queue" /\ Publish(p)
                                   /\ UNCHANGED <<focus, schedVars, ghostVars, noteVars>>)

\* What was begun ends: a stop returns, and an event that was pushed reaches the client that waits for it.
WhatBeginsEnds == StopReturns /\ PushedIsDelivered

Spec == Init /\ [][Next]_allVars /\ Fairness
=============================================================================
