------------------------------ MODULE KillSwitch ------------------------------
(***************************************************************************)
(* The global kill switch of src/api/frontend_routes.py beside the order   *)
(* and scheduler routes.  The handlers run on the event loop, one after    *)
(* the other between their awaits; the activation first awaits a worker    *)
(* thread that suspends the running services                               *)
(* (services/runtime_control_service.py), and stores the flag afterwards.  *)
(* A pipeline scheduler (pipeline/scheduler.py) is an object with a thread *)
(* of its own: stopping it sets an event, waits for the thread and forgets *)
(* it, whether it has ended or the wait was given up.                      *)
(* Orders, schedulers and activations are known by the number of the       *)
(* request that began them.  The authorisation of a request: AccessRules;  *)
(* cancelling at a live broker: BrokerSession.                             *)
(***************************************************************************)
EXTENDS Naturals, FiniteSets

CONSTANTS SuspendThreads, MaxStamp

ASSUME KillAssumption == MaxStamp \in Nat

VARIABLES control,     \* system_control: killSwitchActive, activatedAt (0 for None)
          queued,      \* the pending orders of the execution manager
          scheduler,   \* the server's _scheduler: the object it holds, 0 for None
          work,        \* the thread of a scheduler: "none", in its wait or in a run of the pipeline
          stop,        \* its _stop_event: "unset", "set", or "forgotten" (set, and _thread is None)
          loop,        \* the handler on the event loop: before its event is pushed, or joining a thread
          suspend,     \* the activations in their worker threads
          stamp,       \* requests so far
          pushed,      \* the flag of the last kill-switch event
          cleared,     \* history: the latest request that activated the switch
          unpushed     \* history: an event was not pushed after the last store

killVars == <<control, queued, scheduler, work, stop, loop, suspend, stamp, pushed, cleared, unpushed>>

Stamps == 1 .. MaxStamp
ThreadAlive(s) == work[s] # "none"
NoSuspend == [pc |-> "idle", stamp |-> 0, found |-> 0]
LoopIdle == loop = "idle"

KillTypeOK ==
  /\ control \in [active : BOOLEAN, since : 0 .. MaxStamp]
  /\ queued \subseteq Stamps /\ scheduler \in 0 .. MaxStamp /\ stamp \in 0 .. MaxStamp
  /\ work \in [Stamps -> {"none", "wait", "run"}] /\ stop \in [Stamps -> {"unset", "set", "forgotten"}]
  /\ loop \in {"idle", "push", "join"} /\ pushed \in BOOLEAN /\ cleared \in 0 .. MaxStamp /\ unpushed \in BOOLEAN
  /\ suspend \in [SuspendThreads -> [pc : {"idle", "scheduler", "stop", "join", "orders", "done"},
                                     stamp : 0 .. MaxStamp, found : 0 .. MaxStamp]]

KillInit ==
  /\ control = [active |-> FALSE, since |-> 0] /\ queued = {} /\ scheduler = 0 /\ loop = "idle"
  /\ work = [s \in Stamps |-> "none"] /\ stop = [s \in Stamps |-> "unset"]
  /\ suspend = [w \in SuspendThreads |-> NoSuspend] /\ stamp = 0
  /\ pushed = FALSE /\ cleared = 0 /\ unpushed = FALSE

NewRequest == LoopIdle /\ stamp < MaxStamp /\ stamp' = stamp + 1

-----------------------------------------------------------------------------
\* activate_kill_switch up to its await, and the worker thread: _suspend_runtime_services looks up the
\* scheduler, stops the one it found if it runs, then cancels what is pending.
Activate(w) ==
  /\ NewRequest /\ suspend[w].pc = "idle"
  /\ suspend' = [suspend EXCEPT ![w] = [pc |-> "scheduler", stamp |-> stamp + 1, found |-> 0]]
  /\ UNCHANGED <<control, queued, scheduler, work, stop, loop, pushed, cleared, unpushed>>

\* A scheduler runs when the thread it knows of is alive.
Runs(s) == s # 0 /\ stop[s] # "forgotten" /\ ThreadAlive(s)

FindScheduler(w) ==
  /\ suspend[w].pc = "scheduler"
  /\ suspend' = [suspend EXCEPT ![w].pc = IF Runs(scheduler) THEN "stop" ELSE "orders",
                                ![w].found = scheduler]
  /\ UNCHANGED <<control, queued, scheduler, work, stop, loop, stamp, pushed, cleared, unpushed>>

\* PipelineScheduler.stop holds the lock of its object from the event to the end of the wait.
StopLockFree(s) ==
  /\ ~(loop = "join" /\ scheduler = s)
  /\ \A w \in SuspendThreads : ~(suspend[w].pc = "join" /\ suspend[w].found = s)
TellToStop(s) == IF stop[s] = "unset" THEN "set" ELSE stop[s]

StopFound(w) ==
  /\ suspend[w].pc = "stop" /\ StopLockFree(suspend[w].found)
  /\ stop' = [stop EXCEPT ![suspend[w].found] = TellToStop(suspend[w].found)]
  /\ suspend' = [suspend EXCEPT ![w].pc = "join"]
  /\ UNCHANGED <<control, queued, scheduler, work, loop, stamp, pushed, cleared, unpushed>>

\* The thread has ended, or two seconds are over: it is forgotten either way, and may go on.
GiveUpStop(w) ==
  /\ suspend[w].pc = "join"
  /\ stop' = [stop EXCEPT ![suspend[w].found] = "forgotten"]
  /\ suspend' = [suspend EXCEPT ![w].pc = "orders"]
  /\ UNCHANGED <<control, queued, scheduler, work, loop, stamp, pushed, cleared, unpushed>>

RemainingOldest == {o \in queued : \A k \in queued : o <= k}                \* mutant
Remaining == {}

CancelQueued(w) ==
  /\ suspend[w].pc = "orders"
  /\ queued' = Remaining
  /\ suspend' = [suspend EXCEPT ![w].pc = "done"]
  /\ UNCHANGED <<control, scheduler, work, stop, loop, stamp, pushed, cleared, unpushed>>

\* The handler goes on: the stored state is read and merged, a running activation keeps its time.
SinceAfterNew(w) == suspend[w].stamp                                       \* mutant
SinceAfter(w) == IF control.since # 0 THEN control.since ELSE suspend[w].stamp

StoreActive(w) ==
  /\ LoopIdle /\ suspend[w].pc = "done"
  /\ control' = [active |-> TRUE, since |-> SinceAfter(w)]
  /\ suspend' = [suspend EXCEPT ![w] = NoSuspend]
  /\ cleared' = IF suspend[w].stamp > cleared THEN suspend[w].stamp ELSE cleared
  /\ loop' = "push" /\ unpushed' = TRUE
  /\ UNCHANGED <<queued, scheduler, work, stop, stamp, pushed>>

\* deactivate_kill_switch
Deactivate ==
  /\ LoopIdle /\ control.active
  /\ control' = [active |-> FALSE, since |-> 0]
  /\ loop' = "push" /\ unpushed' = TRUE
  /\ UNCHANGED <<queued, scheduler, work, stop, suspend, stamp, pushed, cleared>>

EventFlagOn == TRUE                                                        \* mutant
EventFlag == control.active

\* _emit_kill_switch_event: an exception is swallowed.
PushEvent ==
  /\ loop = "push" /\ loop' = "idle"
  /\ \/ pushed' = EventFlag /\ unpushed' = FALSE
     \/ UNCHANGED <<pushed, unpushed>>
  /\ UNCHANGED <<control, queued, scheduler, work, stop, suspend, stamp, cleared>>

-----------------------------------------------------------------------------
\* submit_execution_order: a limit order is queued; the kill switch is not asked for.
SubmitOrder ==
  /\ NewRequest /\ queued' = queued \cup {stamp + 1}
  /\ UNCHANGED <<control, scheduler, work, stop, loop, suspend, pushed, cleared, unpushed>>

\* A tick fills a pending order.
FillQueued ==
  /\ \E o \in queued : queued' = queued \ {o}
  /\ UNCHANGED <<control, scheduler, work, stop, loop, suspend, stamp, pushed, cleared, unpushed>>

\* /scheduler/start of src/api/server.py: a new object with a thread of its own, unless the one that is
\* held runs; an object that forgot its thread is replaced.
StartScheduler ==
  /\ NewRequest /\ ~control.active /\ ~Runs(scheduler)
  /\ scheduler' = stamp + 1 /\ work' = [work EXCEPT ![stamp + 1] = "wait"]
  /\ UNCHANGED <<control, queued, stop, loop, suspend, pushed, cleared, unpushed>>

\* /scheduler/stop joins on the event loop, without a time-out: nothing else is handled meanwhile.
StopScheduler ==
  /\ LoopIdle /\ scheduler # 0 /\ StopLockFree(scheduler)
  /\ stop' = [stop EXCEPT ![scheduler] = TellToStop(scheduler)] /\ loop' = "join"
  /\ UNCHANGED <<control, queued, scheduler, work, suspend, stamp, pushed, cleared, unpushed>>

SchedulerStopped ==
  /\ loop = "join" /\ ~Runs(scheduler)
  /\ stop' = [stop EXCEPT ![scheduler] = "forgotten"] /\ scheduler' = 0 /\ loop' = "idle"
  /\ UNCHANGED <<control, queued, work, suspend, stamp, pushed, cleared, unpushed>>

\* PipelineScheduler._loop: the event is looked at between two runs, not within one.
Signalled(s) == stop[s] # "unset"

BeginPipeline(s) ==
  /\ work[s] = "wait" /\ ~Signalled(s)
  /\ work' = [work EXCEPT ![s] = "run"]
  /\ UNCHANGED <<control, queued, scheduler, stop, loop, suspend, stamp, pushed, cleared, unpushed>>

EndPipeline(s) ==
  /\ work[s] = "run"
  /\ work' = [work EXCEPT ![s] = "wait"]
  /\ UNCHANGED <<control, queued, scheduler, stop, loop, suspend, stamp, pushed, cleared, unpushed>>

ThreadEnds(s) ==
  /\ work[s] = "wait" /\ Signalled(s)
  /\ work' = [work EXCEPT ![s] = "none"]
  /\ UNCHANGED <<control, queued, scheduler, stop, loop, suspend, stamp, pushed, cleared, unpushed>>

\* The process is restarted: only the stored state is left.
KillRestart ==
  /\ queued' = {} /\ scheduler' = 0 /\ loop' = "idle"
  /\ work' = [s \in Stamps |-> "none"]
  /\ suspend' = [w \in SuspendThreads |-> NoSuspend]
  /\ UNCHANGED <<control, stop, stamp, pushed, cleared, unpushed>>

KillNext ==
  \/ \E w \in SuspendThreads : \/ Activate(w) \/ FindScheduler(w) \/ StopFound(w)
                               \/ GiveUpStop(w) \/ CancelQueued(w) \/ StoreActive(w)
  \/ Deactivate \/ PushEvent \/ SubmitOrder \/ FillQueued
  \/ StartScheduler \/ StopScheduler \/ SchedulerStopped
  \/ \E s \in Stamps : BeginPipeline(s) \/ EndPipeline(s) \/ ThreadEnds(s)
  \/ KillRestart

KillSpec == KillInit /\ [][KillNext]_killVars

-----------------------------------------------------------------------------
\* Whatever overlaps, an activation that has been answered leaves no order pending that was there when
\* it was requested, and every scheduler that was there and still runs has been told to stop: the wait
\* for it is given up after two seconds, and it may be in a run of the pipeline for longer.  What begins
\* while the activation suspends is another matter (HaltsRuntime).
OldActivityStopped ==
  /\ \A o \in queued : o > cleared
  /\ \A s \in Stamps : ThreadAlive(s) /\ s <= cleared => Signalled(s)

\* A scheduler an answered activation found begins no other run of the pipeline, although its thread was
\* forgotten and nobody waits for it any more.
NoOldRunBegins ==
  [][\A s \in Stamps : s <= cleared /\ work'[s] = "run" => work[s] = "run"]_killVars

\* Activating an active switch again, by overlapping requests too, keeps the time it is active since,
\* and the time goes with the flag.
ActivationTimeKept ==
  [][/\ control.active /\ control'.active => control'.since = control.since
     /\ control'.active <=> control'.since # 0]_killVars

\* Between handlers the clients were last told what is stored, unless the event could not be pushed or
\* the process died in front of it.
EventsTellControl == LoopIdle /\ ~unpushed => pushed = control.active

\* Under an active kill switch no pipeline runs.  This fails: a scheduler started while the services are
\* being suspended goes on, and so does a run that takes longer than the two seconds it is waited for.
HaltsRuntime == control.active => \A s \in Stamps : work[s] # "run"

\* While the kill switch is active no new order is accepted.  This fails: the order route never asks.
NoOrdersWhenActive == [][control.active => queued' \subseteq queued]_killVars

\* All of it: the stored flag, what it stops and what clients are told (runtime_control_service.py).
KillSwitchObeyed == [](KillTypeOK /\ OldActivityStopped /\ EventsTellControl) /\ ActivationTimeKept
                    /\ NoOldRunBegins
=============================================================================
