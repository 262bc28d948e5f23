---------------------------- MODULE OrderSlices ----------------------------
(* What surrounds an order: the slices execution/algos.py cuts a large one into, the course one     *)
(* takes at the simulator of execution/exchange_simulator.py, and the amounts of the ledger entry     *)
(* that execution/reconciler.py writes of it.  The three are explored apart.                          *)
EXTENDS Integers, Sequences, FiniteSetsExt

CONSTANTS
  TotalLots,     \* total_volume_lots tried
  Slices,        \* max(5, duration_minutes // 5)
  SimQty,        \* quantities sent to the simulator, which refuses 0
  OrderPrices,   \* prices of orders and of fills
  EntryQty       \* bound: quantity of a ledger entry

ASSUME SlicesAssumption ==
  /\ Slices \in Nat /\ Slices >= 5 /\ EntryQty \in Nat
  /\ TotalLots \subseteq Nat /\ SimQty \subseteq Nat \ {0} /\ OrderPrices \subseteq Nat

VARIABLES
  scene,     \* "twap", "exchange" or "ledger"
  slice,     \* twap: i, lots_remaining
  lots,      \* ... total_volume_lots
  bought,    \* ... lots bought at the broker, whatever the answer
  raised,    \* ... slices whose order was placed although the call raised
  unpriced,  \* ... slices bought on a quote without a best_ask, at a price of 0
  simulated, \* exchange: the result of simulate_order
  entry      \* ledger: the entry

sliceVars == <<scene, slice, lots, bought, raised, unpriced, simulated, entry>>

-----------------------------------------------------------------------------
(* execute_twap_order.  int(base * (1 + noise)) with up to a fifth of noise; the last slice takes all *)
(* that is left.                                                                                     *)
BaseLots == Max({1, lots \div Slices})
NoisyLots == {Max({1, n}) : n \in (4 * BaseLots) \div 5 .. (6 * BaseLots) \div 5}
SliceLotsUncut(n) == IF slice.i = Slices THEN slice.left ELSE n               \* mutant
SliceLots(n) == IF slice.i = Slices \/ n > slice.left THEN slice.left ELSE n

Slicing == scene = "twap" /\ slice.i <= Slices /\ slice.left > 0

\* No quote, or an ask above the limit; or place_order raises without an order: the slice is skipped.
SkipSlice ==
  /\ Slicing
  /\ slice' = [slice EXCEPT !.i = @ + 1]
  /\ UNCHANGED <<scene, lots, bought, raised, unpriced, simulated, entry>>

\* The order is placed; answered is FALSE when the call raises after the broker took it.
PlaceSlice(n, asked, answered) ==
  /\ Slicing
  /\ slice' = [i |-> slice.i + 1, left |-> IF answered THEN slice.left - SliceLots(n) ELSE slice.left]
  /\ bought' = bought + SliceLots(n)
  /\ raised' = IF answered THEN raised ELSE raised + SliceLots(n)
  /\ unpriced' = IF asked THEN unpriced ELSE unpriced + 1
  /\ UNCHANGED <<scene, lots, simulated, entry>>

-----------------------------------------------------------------------------
(* simulate_order: the result and the events it is told with.                                        *)
Event(name, qty) == [name |-> name, qty |-> qty]
Accepted == Event("accepted", 0)

Courses(q) ==
  {[qty |-> q, status |-> "rejected", filled |-> 0, remaining |-> q, events |-> <<Accepted, Event("rejected", 0)>>],
   [qty |-> q, status |-> "filled", filled |-> q, remaining |-> 0, events |-> <<Accepted, Event("filled", q)>>]}
  \cup UNION {LET told == <<Accepted, Event("partial_fill", part)>>
                  race == Append(told, Event("cancel_race", q - part))
              IN  {[qty |-> q, status |-> "filled", filled |-> q, remaining |-> 0,
                    events |-> Append(before, Event("filled", q - part))] : before \in {told, race}}
                  \cup {[qty |-> q, status |-> "partially_filled", filled |-> part, remaining |-> q - part,
                         events |-> Append(race, Event("cancelled", q - part))]}
              : part \in 1 .. q - 1}

Simulate(q) ==
  /\ scene = "exchange" /\ simulated' \in Courses(q)
  /\ UNCHANGED <<scene, slice, lots, bought, raised, unpriced, entry>>

-----------------------------------------------------------------------------
(* _build_ledger_entry, called by reconcile_unsettled_orders with what it found of an order: its      *)
(* price (0: a market order), the quantities, the average price of its fills.                        *)
StatusOf(requested, filled) ==
  IF filled = 0 THEN "REJECTED" ELSE IF filled < requested THEN "PARTIALLY_FILLED" ELSE "FILLED"
Reference(price, fillPrice) == IF price > 0 THEN price ELSE fillPrice

Entry(side, price, requested, filled, fillPrice) ==
  LET reference == Reference(price, fillPrice)
      asked == requested * reference
      got == filled * (IF fillPrice > 0 THEN fillPrice ELSE reference)
      status == StatusOf(requested, filled)
  IN  CASE side = "sell" -> [side |-> side, status |-> status, debit |-> [inventory |-> got, locked |-> 0],
                             credit |-> [free |-> got, inventory |-> 0], asked |-> asked, got |-> got]
        [] side = "buy" /\ filled = 0 ->
             [side |-> side, status |-> status, debit |-> [inventory |-> 0, locked |-> asked],
              credit |-> [free |-> asked, inventory |-> 0], asked |-> asked, got |-> got]
        [] OTHER -> [side |-> side, status |-> status, debit |-> [inventory |-> 0, locked |-> asked],
                     credit |-> [free |-> Max({0, asked - got}), inventory |-> got], asked |-> asked, got |-> got]

WriteEntry(side, price, requested, filled, fillPrice) ==
  /\ scene = "ledger" /\ entry' = Entry(side, price, requested, filled, IF filled = 0 THEN 0 ELSE fillPrice)
  /\ UNCHANGED <<scene, slice, lots, bought, raised, unpriced, simulated>>

NoEntryYet == Entry("sell", 0, 0, 0, 0)
NotSimulated == CHOOSE c \in Courses(1) : c.status = "filled"

SlicesInit ==
  /\ scene \in {"twap", "exchange", "ledger"}
  /\ lots \in IF scene = "twap" THEN TotalLots ELSE {1}
  /\ slice = [i |-> 1, left |-> lots] /\ bought = 0 /\ raised = 0 /\ unpriced = 0
  /\ simulated = NotSimulated /\ entry = NoEntryYet

SlicesNext ==
  \/ SkipSlice
  \/ \E n \in NoisyLots, asked, answered \in BOOLEAN : PlaceSlice(n, asked, answered)
  \/ \E q \in SimQty : Simulate(q)
  \/ \E side \in {"buy", "sell"}, price \in OrderPrices \cup {0}, fillPrice \in OrderPrices :
       \E requested \in 1 .. EntryQty : \E filled \in 0 .. requested :
         WriteEntry(side, price, requested, filled, fillPrice)

SlicesSpec == SlicesInit /\ [][SlicesNext]_sliceVars

-----------------------------------------------------------------------------
\* The lots that are left and those an answer was had for make the order; the rest was bought by
\* calls that raised, and only those can buy more than was asked for.
LotsAccountedFor == slice.left >= 0 /\ slice.left + bought - raised = lots

\* What the events tell under a name.
Told(name) == {k \in DOMAIN simulated.events : simulated.events[k].name = name}
QtyTold(name) == IF Told(name) = {} THEN 0 ELSE simulated.events[CHOOSE k \in Told(name) : TRUE].qty

\* The events tell the result: each is told once, what they fill is filled, and an order that lost nothing
\* is filled.
EventsTellResult ==
  /\ \A j, k \in DOMAIN simulated.events : simulated.events[j].name = simulated.events[k].name => j = k
  /\ QtyTold("partial_fill") + QtyTold("filled") = simulated.filled
  /\ simulated.filled + simulated.remaining = simulated.qty
  /\ (simulated.remaining = 0) = (simulated.status = "filled")

\* An entry credits what it debits, unless a purchase was filled for more than was locked for it.
EntryBalances ==
  \/ entry.debit.inventory + entry.debit.locked = entry.credit.inventory + entry.credit.free
  \/ entry.side = "buy" /\ entry.got > entry.asked

SlicesSound == LotsAccountedFor /\ EventsTellResult /\ EntryBalances

(* Fail, and documented: at most the lots asked for are bought (an order whose answer is lost is      *)
(* bought again by the slices after it), no slice is bought at a price of 0, every entry balances.    *)
NoLotsTwice == bought <= lots
NeverUnpriced == unpriced = 0
AlwaysBalances == entry.debit.inventory + entry.debit.locked = entry.credit.inventory + entry.credit.free
=============================================================================
