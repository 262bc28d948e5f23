------------------------------ MODULE RetryBroker ------------------------------
(***************************************************************************)
(* Calls to a remote broker: RetryBrokerAdapter._retry_call of             *)
(* src/brokers/retry_wrapper.py (and _call_with_retry of                   *)
(* src/brokers/base_broker.py, the same loop) around place_order, and      *)
(* cancel_all_open_orders of base_broker.py, which the kill switch calls.  *)
(* An attempt may fail before the broker executes it, or after it, when    *)
(* only the answer is lost.  The sleeps between attempts are left out;     *)
(* other calls may come between them.                                      *)
(***************************************************************************)
EXTENDS Naturals, FiniteSets

CONSTANTS MaxRetries, CancelLimit,
          MaxPlaced    \* bound: orders the broker executes

ASSUME CallAssumption == MaxRetries \in Nat \ {0} /\ CancelLimit \in Nat \ {0} /\ MaxPlaced \in Nat

VARIABLES lossy,      \* answers can be lost
          open,       \* the broker's open orders: their numbers
          placed,     \* orders executed by the broker so far
          retry,      \* the call of place_order
          cancel,     \* the call of cancel_all_open_orders
          placing     \* history: the orders executed for the current call

callVars == <<lossy, open, placed, retry, cancel, placing>>

OrderNumbers == 1 .. MaxPlaced
NoCancel == [pc |-> "idle", todo |-> {}, cancelled |-> {}, failed |-> {}, placed |-> 0]

CallTypeOK ==
  /\ lossy \in BOOLEAN /\ open \subseteq OrderNumbers /\ placed \in 0 .. MaxPlaced
  /\ retry \in [pc : {"idle", "trying", "ok", "raised"}, attempt : 0 .. MaxRetries]
  /\ cancel \in [pc : {"idle", "cancelling", "done"}, todo : SUBSET OrderNumbers, cancelled : SUBSET OrderNumbers,
                failed : SUBSET OrderNumbers, placed : 0 .. MaxPlaced]
  /\ placing \in 0 .. MaxPlaced

CallInit ==
  /\ lossy \in BOOLEAN /\ open = {} /\ placed = 0 /\ placing = 0
  /\ retry = [pc |-> "idle", attempt |-> 0] /\ cancel = NoCancel

\* The broker executes the order of an attempt; it may rest there.
Execute ==
  /\ placed < MaxPlaced
  /\ placed' = placed + 1 /\ placing' = placing + 1 /\ open' = open \cup {placed + 1}

BeginPlace ==
  /\ retry.pc \in {"idle", "ok", "raised"} /\ placed + MaxRetries <= MaxPlaced
  /\ retry' = [pc |-> "trying", attempt |-> 1] /\ placing' = 0
  /\ UNCHANGED <<lossy, open, placed, cancel>>

AnsweredGoesOn == IF retry.attempt < MaxRetries THEN [retry EXCEPT !.attempt = @ + 1]  \* mutant
                  ELSE [retry EXCEPT !.pc = "ok"]
Answered == [retry EXCEPT !.pc = "ok"]

AttemptSucceeds ==
  /\ retry.pc = "trying" /\ Execute
  /\ retry' = Answered
  /\ UNCHANGED <<lossy, cancel>>

LastAttemptLate(n) == n > MaxRetries                                       \* mutant
LastAttempt(n) == n = MaxRetries

\* An exception: the next attempt, or the exception is raised after the last one.
AttemptFails ==
  /\ retry.pc = "trying"
  /\ \/ UNCHANGED <<open, placed, placing>>
     \/ lossy /\ Execute
  /\ retry' = IF LastAttempt(retry.attempt) THEN [retry EXCEPT !.pc = "raised"]
              ELSE [retry EXCEPT !.attempt = @ + 1]
  /\ UNCHANGED <<lossy, cancel>>

\* The broker fills or expires an open order.
OrderEnds ==
  /\ \E n \in open : open' = open \ {n}
  /\ UNCHANGED <<lossy, placed, retry, cancel, placing>>

-----------------------------------------------------------------------------
\* cancel_all_open_orders: list_open_orders answers with at most CancelLimit of them, in an order of its
\* own; an error of the listing is answered at once.
BeginCancel ==
  /\ cancel.pc \in {"idle", "done"}
  /\ \/ \E listed \in SUBSET open :
          /\ IF Cardinality(open) <= CancelLimit THEN listed = open ELSE Cardinality(listed) = CancelLimit
          /\ cancel' = [NoCancel EXCEPT !.pc = "cancelling", !.todo = listed, !.placed = placed]
     \/ cancel' = NoCancel
  /\ UNCHANGED <<lossy, open, placed, retry, placing>>

NotCancelledEnds(n) == [cancel EXCEPT !.todo = {}, !.failed = @ \cup {n}]     \* mutant
NotCancelled(n) == [cancel EXCEPT !.todo = @ \ {n}, !.failed = @ \cup {n}]

\* cancel_order of the next listed order: TRUE, FALSE or an exception, and an exception may come after
\* the broker has cancelled.
CancelNext ==
  /\ cancel.pc = "cancelling"
  /\ \E n \in cancel.todo :
       \/ /\ n \in open /\ open' = open \ {n}
          /\ cancel' = [cancel EXCEPT !.todo = @ \ {n}, !.cancelled = @ \cup {n}]
       \/ /\ open' = open \/ (lossy /\ open' = open \ {n})
          /\ cancel' = NotCancelled(n)
  /\ UNCHANGED <<lossy, placed, retry, placing>>

EndCancel ==
  /\ cancel.pc = "cancelling" /\ cancel.todo = {}
  /\ cancel' = [cancel EXCEPT !.pc = "done"]
  /\ UNCHANGED <<lossy, open, placed, retry, placing>>

CallNext ==
  \/ BeginPlace \/ AttemptSucceeds \/ AttemptFails \/ OrderEnds
  \/ BeginCancel \/ CancelNext \/ EndCancel

CallSpec == CallInit /\ [][CallNext]_callVars

-----------------------------------------------------------------------------
\* While failed attempts are known not to have been executed, the wrapper neither repeats an order nor
\* raises after it was placed.  (With lost answers one call may place it MaxRetries times.)
PlacedExactlyOnce ==
  ~lossy => /\ retry.pc = "ok" => placing = 1
            /\ retry.pc \in {"trying", "raised"} => placing = 0

\* One call never places more orders than it has attempts, even if every answer is lost.
PlacedAtMostRetries == placing <= MaxRetries

\* A finished cancellation leaves open only orders it reports as failed, orders past its limit and
\* orders placed while it ran: a failing order does not keep it from the next ones.
CancelAccounts ==
  cancel.pc = "done" =>
    \A n \in open : n \in cancel.failed \/ n > cancel.placed
                           \/ Cardinality(cancel.cancelled \cup cancel.failed) = CancelLimit

\* All of it: orders placed with retries and cancelled as a list (retry_wrapper.py, base_broker.py).
CallsAccountedFor == CallTypeOK /\ PlacedExactlyOnce /\ PlacedAtMostRetries /\ CancelAccounts
=============================================================================
