--------------------------- MODULE OrderLifecycle ---------------------------
(***************************************************************************)
(* What the queue of pending limit orders promises its users: an order is  *)
(* open from the moment it is acknowledged until it is either filled, once,*)
(* or withdrawn (cancelled or rejected); then it never comes back.         *)
(***************************************************************************)
EXTENDS Naturals

CONSTANT Ids          \* the ids orders may get

VARIABLES
  open,               \* the open orders
  fills,              \* how often each order has been filled
  withdrawn           \* the orders that have been cancelled or rejected

lifecycleVars == <<open, fills, withdrawn>>

Settled == withdrawn \cup {i \in Ids : fills[i] > 0}

Init ==
  /\ open = {}
  /\ fills = [i \in Ids |-> 0]
  /\ withdrawn = {}

(* Ids are not reused. *)
Acknowledge(i) ==
  /\ i \notin open \cup Settled
  /\ open' = open \cup {i}
  /\ UNCHANGED <<fills, withdrawn>>

FillOrder(i) ==
  /\ i \in open
  /\ open' = open \ {i}
  /\ fills' = [fills EXCEPT ![i] = @ + 1]
  /\ UNCHANGED withdrawn

(* One cancellation may withdraw many orders. *)
Withdraw(S) ==
  /\ S # {} /\ S \subseteq open
  /\ open' = open \ S
  /\ withdrawn' = withdrawn \cup S
  /\ UNCHANGED fills

Next ==
  \/ \E i \in Ids : Acknowledge(i) \/ FillOrder(i)
  \/ \E S \in SUBSET open : Withdraw(S)

Spec == Init /\ [][Next]_lifecycleVars
=============================================================================
