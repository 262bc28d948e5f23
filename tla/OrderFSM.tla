------------------------------ MODULE OrderFSM ------------------------------
(***************************************************************************)
(* One order's state machine, src/execution/order_fsm.py: which states may *)
(* follow which, what a fill does to the quantities, and the audit trail.  *)
(*                                                                         *)
(* The average fill price is kept as the notional behind it (average times *)
(* quantity), which is a whole number.  PartialMayComplete,                *)
(* AllowedNegative and ApplyFillOnce are wrong variants of the operators   *)
(* that follow them, for PROJECT.json's mutants.                           *)
(***************************************************************************)
EXTENDS Integers, Sequences, FiniteSetsExt

CONSTANTS
  InitialStates,   \* initial_state: what the constructor may be given
  Quantities,      \* requested_qty; NoQty stands for None, and for qty <= 0
  FillQtys,        \* filled_qty arguments of transition
  FillPrices,      \* filled_price arguments
  NoQty

VARIABLES
  current,         \* current_state
  requested,       \* requested_qty
  cumulative,      \* cumulative_filled_qty
  notional,        \* cumulative_filled_qty * avg_fill_price
  remaining,       \* remaining_qty
  history,         \* history, as records of states and filled_qty
  outcome          \* what the last call of transition did

vars == <<current, requested, cumulative, notional, remaining, history,
          outcome>>

States   == {"PENDING", "SUBMITTED", "PARTIALLY_FILLED", "FILLED",
             "CANCELLED", "REJECTED", "FAILED"}
Terminal == {"FILLED", "CANCELLED", "REJECTED"}      \* is_terminal

ASSUME FSMAssumption ==
  /\ InitialStates \subseteq {"PENDING", "FAILED"}
  /\ Quantities \subseteq (Nat \ {0}) \cup {NoQty}
  /\ FillQtys \subseteq Int /\ FillPrices \subseteq Int
  /\ NoQty \notin Int

ValidTransitions ==
  [s \in States |->
     CASE s = "PENDING"          -> {"SUBMITTED", "REJECTED"}
       [] s = "SUBMITTED"        -> {"PARTIALLY_FILLED", "FILLED", "REJECTED",
                                     "CANCELLED"}
       [] s = "PARTIALLY_FILLED" -> {"FILLED", "CANCELLED"}
       [] s = "FAILED"           -> {"PENDING"}
       [] s \in Terminal         -> {}]

NonNegative(n) == IF n > 0 THEN n ELSE 0

Init ==
  /\ current \in InitialStates
  /\ requested \in Quantities
  /\ cumulative = 0 /\ notional = 0
  /\ remaining = IF requested = NoQty THEN 0 ELSE requested
  /\ history = <<>>
  /\ outcome = "none"

(* The checks of the quantity that a fill of qty makes the total: a        *)
(* partial fill has to be one, a final one has to complete the order.      *)
PartialMayComplete(qty) ==
  requested # NoQty => qty > 0 /\ cumulative + qty <= requested
PartialFits(qty) ==
  requested # NoQty => qty > 0 /\ cumulative + qty < requested

FilledCompletes(qty) ==
  requested # NoQty => cumulative + qty = requested

AllowedNegative(next, qty) ==
  /\ next \in ValidTransitions[current]
  /\ next = "PARTIALLY_FILLED" => PartialFits(qty)
  /\ next = "FILLED" => FilledCompletes(qty)

Allowed(next, qty) ==
  /\ next \in ValidTransitions[current]
  /\ qty >= 0
  /\ next = "PARTIALLY_FILLED" => PartialFits(qty)
  /\ next = "FILLED" => FilledCompletes(qty)

(* _apply_fill *)
RemainingAfter(qty) ==
  IF requested = NoQty THEN remaining
                       ELSE NonNegative(requested - (cumulative + qty))

ApplyFillOnce(qty, price) ==
  IF qty > 0 /\ cumulative = 0
  THEN /\ cumulative' = cumulative + qty
       /\ notional' = notional + qty * NonNegative(price)
       /\ remaining' = RemainingAfter(qty)
  ELSE UNCHANGED <<cumulative, notional, remaining>>

ApplyFill(qty, price) ==
  IF qty > 0
  THEN /\ cumulative' = cumulative + qty
       /\ notional' = notional + qty * NonNegative(price)
       /\ remaining' = RemainingAfter(qty)
  ELSE UNCHANGED <<cumulative, notional, remaining>>

(* Only these two states take the fill; the trail records filled_qty       *)
(* whatever the state.                                                     *)
FillStates == {"PARTIALLY_FILLED", "FILLED"}

Transition(next, qty, price) ==
  /\ Allowed(next, qty)
  /\ IF next \in FillStates THEN ApplyFill(qty, price)
                            ELSE UNCHANGED <<cumulative, notional, remaining>>
  /\ history' = Append(history, [prev |-> current, next |-> next, qty |-> qty])
  /\ current' = next
  /\ outcome' = "true"
  /\ UNCHANGED requested

(* Every refusal, of a transition or of a quantity, is a ValueError. *)
Refuse(next, qty) ==
  /\ ~Allowed(next, qty)
  /\ outcome' = "ValueError"
  /\ UNCHANGED <<current, requested, cumulative, notional, remaining, history>>

Next ==
  \E next \in States, qty \in FillQtys :
    \/ \E price \in FillPrices : Transition(next, qty, price)
    \/ Refuse(next, qty)

Spec == Init /\ [][Next]_vars

-----------------------------------------------------------------------------
(* Properties. *)

TypeOK ==
  /\ current \in States
  /\ requested \in Quantities
  /\ cumulative \in Nat /\ notional \in Nat /\ remaining \in Nat
  /\ history \in Seq([prev : States, next : States, qty : Nat])
  /\ outcome \in {"none", "true", "ValueError"}

(* However an order of known size got where it is, what is filled and what *)
(* remains add up to what was asked for, and the state says which of the   *)
(* two is zero: FILLED is completely filled, PARTIALLY_FILLED is partly.   *)
QuantitiesMatchState ==
  requested # NoQty =>
    /\ cumulative + remaining = requested
    /\ current = "FILLED" => remaining = 0
    /\ current = "PARTIALLY_FILLED" => cumulative > 0 /\ remaining > 0
    /\ current \in {"PENDING", "SUBMITTED", "REJECTED", "FAILED"} =>
         cumulative = 0

(* Replaying the trail gives the order back: it is a path of the machine   *)
(* that ends in the current state, and the quantities of its fills are the *)
(* filled quantity.                                                        *)
QtyOf(entry) == IF entry.next \in FillStates THEN entry.qty ELSE 0
TrailQtys == [k \in DOMAIN history |-> QtyOf(history[k])]
TrailReplays ==
  /\ \A k \in DOMAIN history :
       /\ history[k].next \in ValidTransitions[history[k].prev]
       /\ k < Len(history) => history[k + 1].prev = history[k].next
  /\ history # <<>> => history[Len(history)].next = current
  /\ MapThenSumSet(LAMBDA k : TrailQtys[k], DOMAIN history) = cumulative

(* The two together, which the proof needs as one inductive invariant.     *)
OrderConsistent == TypeOK /\ QuantitiesMatchState

(* What holds of an order and of its trail.                                *)
OrderSound == OrderConsistent /\ TrailReplays
=============================================================================
