--------------------------- MODULE OrderFSMProofs ---------------------------
(***************************************************************************)
(* Proofs about OrderFSM, for every requested quantity and all fills;      *)
(* about TradeReconciler, which brings the orders of the database to their *)
(* final states, for any orders and any number of passes; about            *)
(* RetryBroker, for any number of retries and open orders; about           *)
(* OrderSlices, for any quantities, slices and prices; and about IdxRules, *)
(* for every previous close.                                               *)
(***************************************************************************)
EXTENDS OrderFSM, TradeReconciler, RetryBroker, OrderSlices, IdxRules, FiniteSetTheorems, SequenceTheorems, Sums

(* Where fills happen: an order has none before it is submitted. *)
Unfilled == {"PENDING", "SUBMITTED", "REJECTED", "FAILED"}

(* The inductive invariant: TypeOK, the part of QuantitiesMatchState that  *)
(* also holds for an order of unknown size, and QuantitiesMatchState.      *)
FSMInv ==
  /\ TypeOK
  /\ current \in Unfilled => cumulative = 0
  /\ QuantitiesMatchState

(* A refused call changes nothing but the outcome. *)
LEMMA RefuseKeeps ==
  ASSUME FSMInv, NEW next \in States, NEW qty \in FillQtys, Refuse(next, qty)
  PROVE  FSMInv'
  BY DEF FSMInv, TypeOK, QuantitiesMatchState, Unfilled, Refuse

(* The product of two naturals is one: the notional stays a natural. *)
LEMMA NotionalNat ==
  ASSUME NEW q \in Nat, NEW p \in Int
  PROVE  q * NonNegative(p) \in Nat
  <1>1. NonNegative(p) \in Nat
    BY DEF NonNegative
  <1> QED BY <1>1

(* What a fill does to the quantities. *)
LEMMA FillAdds ==
  ASSUME FSMInv, NEW qty \in Nat, NEW price \in Int, ApplyFill(qty, price)
  PROVE  /\ cumulative' = cumulative + qty
         /\ notional' \in Nat /\ remaining' \in Nat
         /\ requested # NoQty /\ cumulative + qty <= requested =>
              cumulative' + remaining' = requested
  <1>1. requested = NoQty \/ requested \in Nat \ {0}
    BY FSMAssumption DEF FSMInv, TypeOK
  <1>2. cumulative \in Nat /\ notional \in Nat /\ remaining \in Nat
    BY DEF FSMInv, TypeOK
  <1>3. requested # NoQty => cumulative + remaining = requested
    BY DEF FSMInv, QuantitiesMatchState
  <1>4. CASE qty > 0
    <2>1. qty * NonNegative(price) \in Nat
      BY NotionalNat
    <2>2. RemainingAfter(qty) \in Nat
      BY <1>1, <1>2 DEF RemainingAfter, NonNegative
    <2>3. requested # NoQty /\ cumulative + qty <= requested =>
            RemainingAfter(qty) = requested - (cumulative + qty)
      BY <1>1, <1>2 DEF RemainingAfter, NonNegative
    <2> QED BY <1>1, <1>2, <1>4, <2>1, <2>2, <2>3 DEF ApplyFill
  <1>5. CASE ~(qty > 0)
    BY <1>2, <1>3, <1>5 DEF ApplyFill
  <1> QED BY <1>4, <1>5

(* A transition keeps the order's quantities in step with its state. *)
LEMMA TransitionKeeps ==
  ASSUME FSMInv, NEW next \in States, NEW qty \in FillQtys,
         NEW price \in FillPrices, Transition(next, qty, price)
  PROVE  FSMInv'
  <1>1. qty \in Nat /\ price \in Int
    BY FSMAssumption DEF Transition, Allowed
  <1>2. requested' = requested /\ current' = next
    BY DEF Transition
  <1>3. history' \in Seq([prev : States, next : States, qty : Nat])
    <2>1. history \in Seq([prev : States, next : States, qty : Nat])
      BY DEF FSMInv, TypeOK
    <2>2. [prev |-> current, next |-> next, qty |-> qty]
            \in [prev : States, next : States, qty : Nat]
      BY <1>1 DEF FSMInv, TypeOK
    <2> QED BY <2>1, <2>2 DEF Transition
  <1>4. CASE next \in FillStates
    <2>1. /\ cumulative' = cumulative + qty
          /\ notional' \in Nat /\ remaining' \in Nat
          /\ requested # NoQty /\ cumulative + qty <= requested =>
               cumulative' + remaining' = requested
      BY <1>1, <1>4, FillAdds DEF Transition
    <2>2. requested # NoQty =>
            /\ cumulative + qty <= requested
            /\ next = "FILLED" => cumulative + qty = requested
            /\ next = "PARTIALLY_FILLED" =>
                 qty > 0 /\ cumulative + qty < requested
      <3>1. requested \in Nat \/ requested = NoQty
        BY FSMAssumption DEF FSMInv, TypeOK
      <3>2. cumulative \in Nat
        BY DEF FSMInv, TypeOK
      <3> QED BY <1>1, <1>4, <3>1, <3>2
              DEF Transition, Allowed, FillStates, FilledCompletes, PartialFits
    <2>3. next \notin Unfilled
      BY <1>4 DEF FillStates, Unfilled
    <2>4. QuantitiesMatchState'
      <3>1. requested \in Nat \/ requested = NoQty
        BY FSMAssumption DEF FSMInv, TypeOK
      <3>2. cumulative \in Nat
        BY DEF FSMInv, TypeOK
      <3> QED BY <1>1, <1>2, <2>1, <2>2, <2>3, <3>1, <3>2
              DEF QuantitiesMatchState, Unfilled
    <2> QED BY <1>1, <1>2, <1>3, <2>1, <2>3, <2>4
            DEF FSMInv, TypeOK, Transition
  <1>5. CASE next \notin FillStates
    <2>1. UNCHANGED <<cumulative, notional, remaining>>
      BY <1>5 DEF Transition
    <2>2. next \in Unfilled => current \in Unfilled
      BY DEF Transition, Allowed, ValidTransitions, Unfilled, FSMInv, TypeOK,
         States, Terminal
    <2> QED BY <1>2, <1>3, <1>5, <2>1, <2>2
            DEF FSMInv, TypeOK, QuantitiesMatchState, Unfilled, FillStates,
                Transition
  <1> QED BY <1>4, <1>5

(* FSMInv holds in every reachable state. *)
THEOREM FSMInvHolds == Spec => []FSMInv
  <1>1. Init => FSMInv
    BY FSMAssumption
       DEF Init, FSMInv, TypeOK, QuantitiesMatchState, States, Unfilled
  <1>2. FSMInv /\ [Next]_vars => FSMInv'
    <2> SUFFICES ASSUME FSMInv, [Next]_vars PROVE FSMInv'
      OBVIOUS
    <2>1. CASE UNCHANGED vars
      BY <2>1 DEF FSMInv, TypeOK, QuantitiesMatchState, vars
    <2> QED BY <2>1, RefuseKeeps, TransitionKeeps DEF Next
  <1> QED BY <1>1, <1>2, PTL DEF Spec

(* Every variable of an order keeps its type. *)
THEOREM FSMTypeCorrect == Spec => []TypeOK
  BY FSMInvHolds, PTL DEF FSMInv

(* Whatever fills are reported, and however often a call is refused, an    *)
(* order of known size is never over-filled, FILLED means completely       *)
(* filled and PARTIALLY_FILLED partly.                                     *)
THEOREM QuantitiesAlwaysMatch == Spec => []QuantitiesMatchState
  BY FSMInvHolds, PTL DEF FSMInv

(* No call moves an order out of FILLED, CANCELLED or REJECTED. *)
THEOREM TerminalIsFinal ==
  Spec => [][(current \in Terminal) =>
               current' = current /\ cumulative' = cumulative]_vars
  <1>1. FSMInv /\ [Next]_vars =>
          (current \in Terminal =>
             current' = current /\ cumulative' = cumulative)
    BY DEF FSMInv, TypeOK, Next, Transition, Refuse, Allowed,
       ValidTransitions, Terminal, States, vars
  <1> QED BY <1>1, FSMInvHolds, PTL DEF Spec

(* Both hold of every order, whatever is reported about it.                *)
THEOREM OrderAlwaysConsistent == Spec => []OrderConsistent
  BY FSMTypeCorrect, QuantitiesAlwaysMatch, PTL DEF OrderConsistent

(* The trail after one more entry: one position more, its figure last.     *)
LEMMA TrailGrows ==
  ASSUME TypeOK, NEW mark \in [prev : States, next : States, qty : Nat],
         history' = Append(history, mark)
  PROVE  /\ Len(history') = Len(history) + 1
         /\ DOMAIN history = 1 .. Len(history) /\ DOMAIN history' = 1 .. Len(history')
         /\ \A k \in DOMAIN history : history'[k] = history[k]
         /\ history'[Len(history')] = mark
         /\ Total(TrailQtys', DOMAIN history') = Total(TrailQtys, DOMAIN history) + QtyOf(mark)
         /\ Total(TrailQtys, DOMAIN history) \in Int
  <1>1. /\ Len(history) \in Nat /\ Len(history') = Len(history) + 1
        /\ DOMAIN history = 1 .. Len(history) /\ DOMAIN history' = 1 .. Len(history')
        /\ \A k \in DOMAIN history : history'[k] = history[k]
        /\ history'[Len(history')] = mark
    BY DEF TypeOK
  <1>2. \A k \in 1 .. Len(history) : history[k].qty \in Nat
    <2> SUFFICES ASSUME NEW k \in 1 .. Len(history) PROVE history[k].qty \in Nat
      OBVIOUS
    <2>1. history[k] \in [prev : States, next : States, qty : Nat]
      BY ElementOfSeq DEF TypeOK
    <2> QED BY <2>1
  <1>3. \A k \in 1 .. Len(history) : TrailQtys[k] \in Int /\ TrailQtys'[k] = TrailQtys[k]
    <2>1. \A k \in 1 .. Len(history) : TrailQtys[k] = QtyOf(history[k]) /\ TrailQtys'[k] = QtyOf(history'[k])
      BY <1>1 DEF TrailQtys
    <2> QED BY <1>1, <1>2, <2>1 DEF QtyOf
  <1>4. TrailQtys'[Len(history) + 1] = QtyOf(mark) /\ QtyOf(mark) \in Int
    BY <1>1 DEF TrailQtys, QtyOf
  <1>5. /\ Total(TrailQtys', 1 .. (Len(history) + 1)) = Total(TrailQtys, 1 .. Len(history)) + TrailQtys'[Len(history) + 1]
        /\ Total(TrailQtys, 1 .. Len(history)) \in Int
    <2>1. TrailQtys'[Len(history) + 1] \in Int /\ Len(history) \in Nat
      BY <1>1, <1>4
    <2> QED BY <1>3, <2>1, TotalAppends
  <1> QED BY <1>1, <1>4, <1>5

(* The trail as the property states it, with the sums of Sums. *)
TrailPath ==
  /\ \A k \in DOMAIN history :
       /\ history[k].next \in ValidTransitions[history[k].prev]
       /\ k < Len(history) => history[k + 1].prev = history[k].next
  /\ history # <<>> => history[Len(history)].next = current

LEMMA TrailIs == TrailReplays <=> TrailPath /\ Total(TrailQtys, DOMAIN history) = cumulative
  BY DEF TrailReplays, TrailPath, Total

LEMMA TrailNext == TrailReplays' <=> TrailPath' /\ Total(TrailQtys', DOMAIN history') = cumulative'
  <1>1. TrailReplays' <=> (TrailPath /\ Total(TrailQtys, DOMAIN history) = cumulative)'
    BY TrailIs, PTL
  <1> QED BY <1>1

(* TrailReplays: however an order got where it is, its trail is a path of  *)
(* the machine to its state, and the fills on it are what is filled.       *)
THEOREM TrailAlwaysReplays == Spec => []TrailReplays
  <1>1. Init => TrailReplays
    <2> SUFFICES ASSUME Init PROVE TrailReplays
      OBVIOUS
    <2>1. history = <<>> /\ DOMAIN history = {} /\ cumulative = 0
      BY DEF Init
    <2>2. Total(TrailQtys, {}) = 0
      BY TotalEmpty
    <2> QED BY <2>1, <2>2, TrailIs DEF TrailPath
  <1>2. TypeOK /\ TrailReplays /\ [Next]_vars => TrailReplays'
    <2> SUFFICES ASSUME TypeOK, TrailReplays, [Next]_vars PROVE TrailReplays'
      OBVIOUS
    <2>1. CASE UNCHANGED <<current, cumulative, history>>
      <3>1. TrailQtys' = TrailQtys /\ TrailPath'
        BY <2>1, TrailIs DEF TrailQtys, TrailPath
      <3> QED BY <2>1, <3>1, TrailIs, TrailNext
    <2>2. ASSUME NEW next \in States, NEW qty \in FillQtys, NEW price \in FillPrices, Transition(next, qty, price)
          PROVE  TrailReplays'
      <3> DEFINE mark == [prev |-> current, next |-> next, qty |-> qty]
      <3>1. mark \in [prev : States, next : States, qty : Nat] /\ history' = Append(history, mark)
            /\ current' = next /\ next \in ValidTransitions[current]
        BY <2>2, FSMAssumption DEF Transition, Allowed, TypeOK
      <3>2. cumulative' = cumulative + QtyOf(mark)
        BY <2>2, FSMAssumption DEF Transition, Allowed, ApplyFill, QtyOf, TypeOK, FillStates
      <3> HIDE DEF mark
      <3>3. TrailPath'
        <4>1. TrailPath
          BY TrailIs
        <4>2. /\ Len(history) \in Nat /\ Len(history') = Len(history) + 1
              /\ DOMAIN history = 1 .. Len(history) /\ DOMAIN history' = 1 .. Len(history')
              /\ \A k \in DOMAIN history : history'[k] = history[k]
              /\ history'[Len(history')] = mark
          BY <3>1, TrailGrows DEF TypeOK
        <4>3. mark.prev = current /\ mark.next = next
          BY DEF mark
        <4>4. history # <<>> => history[Len(history)].next = current
          BY <4>1 DEF TrailPath
        <4>5. history = <<>> <=> Len(history) = 0
          BY DEF TypeOK
        <4>6. ASSUME NEW k \in DOMAIN history'
              PROVE  /\ history'[k].next \in ValidTransitions[history'[k].prev]
                     /\ k < Len(history') => history'[k + 1].prev = history'[k].next
          <5>1. CASE k = Len(history')
            BY <3>1, <4>2, <4>3, <5>1
          <5>2. CASE k = Len(history) /\ k # 0
            <6>1. k \in DOMAIN history /\ history'[k] = history[k] /\ history[k].next = current /\ k + 1 = Len(history')
              BY <4>2, <4>4, <4>5, <5>2
            <6> QED BY <4>1, <4>2, <4>3, <6>1 DEF TrailPath
          <5>3. CASE k < Len(history)
            <6>1. k \in DOMAIN history /\ k + 1 \in DOMAIN history
              BY <4>2, <4>6, <5>3
            <6> QED BY <4>1, <4>2, <5>3, <6>1 DEF TrailPath
          <5> QED BY <4>2, <4>6, <5>1, <5>2, <5>3
        <4>7. history'[Len(history')].next = current'
          BY <3>1, <4>2, <4>3
        <4> QED BY <4>6, <4>7 DEF TrailPath
      <3>4. Total(TrailQtys', DOMAIN history') = Total(TrailQtys, DOMAIN history) + QtyOf(mark)
        BY <3>1, TrailGrows
      <3> QED BY <3>2, <3>3, <3>4, TrailIs, TrailNext
    <2> QED BY <2>1, <2>2 DEF Next, Refuse, vars
  <1> QED BY <1>1, <1>2, FSMTypeCorrect, PTL DEF Spec

-----------------------------------------------------------------------------
(* What a pass under way knows. An order recorded after the broker has it,  *)
(* once it is seen neither active nor unknown to the database, can no       *)
(* longer change at the broker.                                             *)
PassKnows(p) ==
  LET s == pass[p] IN
  /\ s.pc # "idle" => passes >= 1
  /\ s.pc = "ledger" => Final(s.order)
  /\ ~early => /\ s.pc # "idle" => \A o \in s.todo : status[o] # "NONE"
               /\ s.pc \in {"history", "status", "ledger"} => \A o \in s.todo : o \notin live
               /\ s.pc \in {"status", "ledger"} =>
                    s.order \notin live /\ status[s.order] # "NONE" /\ s.qty = filled[s.order]
               /\ s.pc = "ledger" => status[s.order] = Resolved(s.qty)
  /\ ~overlapped => /\ s.pc # "idle" => \A o \in s.todo : status[o] = "PENDING"
                    /\ s.pc = "status" => status[s.order] = "PENDING"
                    /\ s.pc \in {"status", "ledger"} => s.order \notin s.todo
                    /\ s.pc = "ledger" => \A e \in journal : e.order # s.order

OnePass == ~overlapped => \A p, q \in PassIds : pass[p].pc # "idle" /\ pass[q].pc # "idle" => p = q
EntryKnows ==
  \A e \in journal : Final(e.order) /\ (~early => status[e.order] = e.status /\ filled[e.order] = e.qty)
EntriesDiffer == ~overlapped => \A e, f \in journal : e.order = f.order => e = f
NoneMissing ==
  ~overlapped /\ ~aborted => \A o \in Orders : Final(o) =>
    \/ \E e \in journal : e.order = o
    \/ \E p \in PassIds : pass[p].pc = "ledger" /\ pass[p].order = o

(* The inductive invariant behind ReconciledRight.                          *)
RecInv ==
  /\ RecTypeOK /\ StatusIsTrue /\ OnePass /\ EntryKnows /\ EntriesDiffer /\ NoneMissing
  /\ \A p \in PassIds : PassKnows(p)

(* The invariant holds before the first order.                              *)
LEMMA RecInvInit == RecInit => RecInv
  <1> SUFFICES ASSUME RecInit PROVE RecInv
    OBVIOUS
  <1> USE RecAssumption DEF RecInit
  <1>1. NoPass \in [pc : {"idle", "active", "history", "status", "ledger"}, todo : SUBSET Orders,
                    order : Orders, qty : 0 .. OrderQty] /\ NoPass.pc = "idle"
    BY DEF NoPass
  <1>2. RecTypeOK /\ \A p \in PassIds : pass[p].pc = "idle"
    <2>1. pass \in [PassIds -> [pc : {"idle", "active", "history", "status", "ledger"}, todo : SUBSET Orders,
                               order : Orders, qty : 0 .. OrderQty]] /\ \A p \in PassIds : pass[p].pc = "idle"
      BY <1>1
    <2>2. status \in [Orders -> Statuses] /\ filled \in [Orders -> 0 .. OrderQty]
      BY DEF Statuses
    <2>3. early \in BOOLEAN /\ overlapped \in BOOLEAN /\ aborted \in BOOLEAN
      OBVIOUS
    <2>4. passes \in 0 .. MaxPasses /\ live \subseteq Orders /\ journal \subseteq LedgerEntries
      OBVIOUS
    <2> QED BY <2>1, <2>2, <2>3, <2>4 DEF RecTypeOK
  <1>3. \A o \in Orders : ~Final(o)
    BY DEF Final
  <1>4. \A p \in PassIds : PassKnows(p)
    BY <1>2 DEF PassKnows
  <1> QED BY <1>2, <1>3, <1>4 DEF RecInv, StatusIsTrue, OnePass, EntryKnows, EntriesDiffer, NoneMissing

(* What the trades say of an order that is over is a final status.          *)
LEMMA ResolvedFinal ==
  ASSUME NEW n \in 0 .. OrderQty
  PROVE  Resolved(n) \in Statuses \ {"NONE", "PENDING"}
  BY DEF Resolved, Statuses

(* A step of the rest of the system: no pass moves, and what a pass knows   *)
(* stays true.                                                              *)
LEMMA SystemStep ==
  ASSUME RecInv, NEW o \in Orders, Record(o) \/ Send(o) \/ Trade(o)
  PROVE  RecInv'
  <1>0. RecTypeOK /\ UNCHANGED <<early, pass, passes, journal, overlapped, aborted>>
    BY DEF Record, Send, Trade, RecInv
  <1>1. RecTypeOK'
    <2>1. CASE Record(o)
      BY <1>0, <2>1 DEF RecTypeOK, Record, Statuses
    <2>2. CASE Send(o)
      BY <1>0, <2>2 DEF RecTypeOK, Send
    <2>3. CASE Trade(o)
      BY <1>0, <2>3, RecAssumption DEF RecTypeOK, Trade
    <2> QED BY <2>1, <2>2, <2>3
  <1>2. \A x \in Orders : Final(x)' <=> Final(x)
    BY <1>0 DEF RecTypeOK, Record, Send, Trade, Final
  <1>3. \A x \in Orders : /\ Final(x) => status'[x] = status[x]
                          /\ status[x] # "NONE" => status'[x] # "NONE"
                          /\ status[x] = "PENDING" => status'[x] = "PENDING"
    BY <1>0 DEF RecTypeOK, Record, Send, Trade, Final
  <1>4. ~early => \A x \in Orders : x \notin live /\ status[x] # "NONE" => x \notin live' /\ filled'[x] = filled[x]
    BY <1>0 DEF RecTypeOK, Record, Send, Trade
  <1>5. \A p \in PassIds : pass[p].todo \subseteq Orders /\ pass[p].order \in Orders
    BY <1>0 DEF RecTypeOK
  <1>6. \A e \in journal : e.order \in Orders
    BY <1>0 DEF RecTypeOK, LedgerEntries
  <1>7. \A x \in Orders : Final(x) => status[x] # "NONE"
    BY DEF Final
  <1>8. \A p \in PassIds : PassKnows(p)'
    <2> SUFFICES ASSUME NEW p \in PassIds PROVE PassKnows(p)'
      OBVIOUS
    <2>1. PassKnows(p)
      BY DEF RecInv
    <2> QED BY <1>0, <1>2, <1>3, <1>4, <1>5, <1>7, <2>1 DEF PassKnows
  <1>9. StatusIsTrue'
    BY <1>0, <1>2, <1>3, <1>4, <1>7 DEF RecInv, StatusIsTrue
  <1>10. OnePass' /\ EntriesDiffer' /\ EntryKnows' /\ NoneMissing'
    <2>1. OnePass' /\ EntriesDiffer'
      BY <1>0 DEF RecInv, OnePass, EntriesDiffer
    <2>2. EntryKnows'
      BY <1>0, <1>2, <1>3, <1>4, <1>6, <1>7 DEF RecInv, EntryKnows, StatusIsTrue
    <2>3. NoneMissing'
      BY <1>0, <1>2 DEF RecInv, NoneMissing
    <2> QED BY <2>1, <2>2, <2>3
  <1> QED BY <1>1, <1>8, <1>9, <1>10 DEF RecInv

(* A pass that reads, ends or aborts leaves the database, the broker and    *)
(* the journal alone.                                                       *)
LEMMA ReadingStep ==
  ASSUME RecInv, NEW p \in PassIds,
         ReadPending(p) \/ ReadActive(p) \/ ReadHistory(p) \/ EndPass(p) \/ AbortPass(p)
  PROVE  RecInv'
  <1>0. RecTypeOK /\ UNCHANGED <<early, status, live, filled, journal>>
    BY DEF ReadPending, ReadActive, ReadHistory, EndPass, AbortPass, RecInv
  <1>1. \A q \in PassIds \ {p} : pass'[q] = pass[q]
    BY <1>0 DEF ReadPending, ReadActive, ReadHistory, EndPass, AbortPass, RecTypeOK
  <1>2. /\ passes' >= passes /\ passes' \in 0 .. MaxPasses /\ aborted' \in BOOLEAN /\ overlapped' \in BOOLEAN
        /\ (overlapped => overlapped') /\ (aborted => aborted')
    <2>1. CASE ReadPending(p)
      BY <1>0, <2>1, RecAssumption DEF ReadPending, RecTypeOK
    <2>2. CASE ~ReadPending(p)
      <3>1. UNCHANGED <<passes, overlapped>> /\ (aborted' = TRUE \/ aborted' = aborted)
        BY <2>2 DEF ReadActive, ReadHistory, EndPass, AbortPass
      <3>2. passes' >= passes /\ passes' \in 0 .. MaxPasses
        BY <1>0, <3>1 DEF RecTypeOK
      <3>3. aborted' \in BOOLEAN /\ overlapped' \in BOOLEAN /\ (aborted => aborted') /\ (overlapped => overlapped')
        BY <1>0, <3>1, Zenon DEF RecTypeOK
      <3> QED BY <3>2, <3>3
    <2> QED BY <2>1, <2>2
  <1> DEFINE s == pass'[p]
             PassType == [pc : {"idle", "active", "history", "status", "ledger"}, todo : SUBSET Orders,
                          order : Orders, qty : 0 .. OrderQty]
  <1>3. s \in PassType /\ s.pc # "ledger" /\ (pass[p].pc = "ledger" => aborted') /\ PassKnows(p)'
    <2> USE DEF RecTypeOK
    <2>0. NoPass \in PassType /\ NoPass.pc = "idle" /\ PassKnows(p) /\ pass[p] \in PassType
      BY <1>0, RecAssumption DEF NoPass, RecInv
    <2>1. CASE ReadPending(p)
      <3>1. s = [NoPass EXCEPT !.pc = "active", !.todo = {o \in Orders : status[o] = "PENDING"}] /\ passes' >= 1
            /\ pass[p].pc = "idle"
        BY <1>0, <2>1 DEF ReadPending
      <3>2. s \in PassType /\ s.pc = "active" /\ s.todo = {o \in Orders : status[o] = "PENDING"}
        BY <2>0, <3>1
      <3> QED BY <1>0, <3>1, <3>2 DEF PassKnows
    <2>2. CASE ReadActive(p)
      <3>1. s = [pass[p] EXCEPT !.pc = "history", !.todo = @ \ live] /\ pass[p].pc = "active" /\ passes' = passes
            /\ overlapped' = overlapped
        BY <1>0, <2>2 DEF ReadActive, Skipped
      <3>2. s \in PassType /\ s.pc = "history" /\ s.todo = pass[p].todo \ live
        BY <2>0, <3>1
      <3> QED BY <1>0, <2>0, <3>1, <3>2 DEF PassKnows
    <2>3. CASE ReadHistory(p)
      <3>1. PICK o \in pass[p].todo :
              pass' = [pass EXCEPT ![p].pc = "status", ![p].order = o, ![p].qty = filled[o], ![p].todo = @ \ {o}]
        BY <2>3 DEF ReadHistory
      <3>2. s = [pass[p] EXCEPT !.pc = "status", !.order = o, !.qty = filled[o], !.todo = @ \ {o}]
            /\ pass[p].pc = "history" /\ passes' = passes /\ overlapped' = overlapped
        BY <1>0, <2>3, <3>1 DEF ReadHistory
      <3>3. o \in Orders /\ filled[o] \in 0 .. OrderQty
        BY <1>0, <2>0
      <3>4. s \in PassType /\ s.pc = "status" /\ s.order = o /\ s.qty = filled[o] /\ s.todo = pass[p].todo \ {o}
        BY <2>0, <3>2, <3>3
      <3> QED BY <1>0, <2>0, <3>1, <3>2, <3>4 DEF PassKnows
    <2>4. CASE EndPass(p) \/ AbortPass(p)
      <3>1. s = NoPass /\ (pass[p].pc = "ledger" => aborted')
        BY <1>0, <2>4 DEF EndPass, AbortPass
      <3> QED BY <2>0, <3>1 DEF PassKnows
    <2> QED BY <2>1, <2>2, <2>3, <2>4
  <1>4. pass' \in [PassIds -> PassType]
    <2>1. DOMAIN pass' = PassIds /\ pass' = [q \in PassIds |-> pass'[q]]
      <3>1. CASE ReadPending(p)
        BY <1>0, <3>1 DEF ReadPending, RecTypeOK
      <3>2. CASE ReadActive(p)
        BY <1>0, <3>2 DEF ReadActive, RecTypeOK
      <3>3. CASE ReadHistory(p)
        BY <1>0, <3>3 DEF ReadHistory, RecTypeOK
      <3>4. CASE EndPass(p) \/ AbortPass(p)
        BY <1>0, <3>4 DEF EndPass, AbortPass, RecTypeOK
      <3> QED BY <3>1, <3>2, <3>3, <3>4
    <2>2. \A q \in PassIds : pass'[q] \in PassType
      BY <1>0, <1>1, <1>3 DEF RecTypeOK
    <2> QED BY <2>1, <2>2
  <1>5. RecTypeOK'
    BY <1>0, <1>2, <1>4 DEF RecTypeOK
  <1>6. \A q \in PassIds : PassKnows(q)'
    <2> SUFFICES ASSUME NEW q \in PassIds, q # p PROVE PassKnows(q)'
      BY <1>3
    <2>1. PassKnows(q) /\ pass'[q] = pass[q] /\ passes \in Nat /\ passes' \in Nat
      BY <1>0, <1>1, <1>2 DEF RecInv, RecTypeOK
    <2>2. \A o \in Orders : Final(o)' <=> Final(o)
      BY <1>0 DEF Final
    <2>3. pass[q].order \in Orders
      BY <1>0 DEF RecTypeOK
    <2> QED BY <1>0, <1>2, <2>1, <2>2, <2>3 DEF PassKnows
  <1>7. OnePass'
    <2>1. CASE ReadPending(p)
      BY <1>0, <1>1, <2>1 DEF ReadPending, Busy, OnePass
    <2>2. CASE ~ReadPending(p)
      <3>1. pass[p].pc # "idle" /\ overlapped' = overlapped
        BY <2>2, <1>0 DEF ReadActive, ReadHistory, EndPass, AbortPass, RecTypeOK
      <3> QED BY <1>1, <3>1 DEF OnePass, RecInv
    <2> QED BY <2>1, <2>2
  <1>8. StatusIsTrue' /\ EntryKnows' /\ EntriesDiffer'
    BY <1>0, <1>2 DEF RecInv, StatusIsTrue, EntryKnows, EntriesDiffer, Final
  <1>9. NoneMissing'
    <2> SUFFICES ASSUME ~overlapped', ~aborted', NEW o \in Orders, Final(o)
                 PROVE  \/ \E e \in journal : e.order = o
                        \/ \E q \in PassIds : pass'[q].pc = "ledger" /\ pass'[q].order = o
      BY <1>0 DEF NoneMissing, Final
    <2>1. ~overlapped /\ ~aborted /\ pass[p].pc # "ledger"
      BY <1>2, <1>3
    <2>2. CASE \E e \in journal : e.order = o
      BY <2>2
    <2>3. ASSUME NEW q \in PassIds, pass[q].pc = "ledger", pass[q].order = o
          PROVE  pass'[q].pc = "ledger" /\ pass'[q].order = o
      BY <1>1, <2>1, <2>3
    <2> QED BY <2>1, <2>2, <2>3 DEF RecInv, NoneMissing
  <1> QED BY <1>5, <1>6, <1>7, <1>8, <1>9 DEF RecInv

(* The status a pass stores is what the trades say; that of a final order   *)
(* does not change.                                                         *)
LEMMA StatusStep ==
  ASSUME RecInv, NEW p \in PassIds, UpdateStatus(p)
  PROVE  RecInv'
  <1> DEFINE o == pass[p].order
             PassType == [pc : {"idle", "active", "history", "status", "ledger"}, todo : SUBSET Orders,
                          order : Orders, qty : 0 .. OrderQty]
  <1>0. /\ RecTypeOK /\ PassKnows(p) /\ UNCHANGED <<early, live, filled, passes, journal, overlapped, aborted>>
        /\ pass[p].pc = "status" /\ pass[p] \in PassType
    BY DEF UpdateStatus, RecInv, RecTypeOK
  <1>1. \A q \in PassIds \ {p} : pass'[q] = pass[q]
    BY <1>0 DEF UpdateStatus, RecTypeOK
  <1>2. pass'[p] = [pass[p] EXCEPT !.pc = "ledger"]
    BY <1>0 DEF UpdateStatus, RecTypeOK
  <1>3. /\ pass'[p] \in PassType /\ pass'[p].pc = "ledger" /\ pass'[p].order = o /\ pass'[p].qty = pass[p].qty
        /\ pass'[p].todo = pass[p].todo
    BY <1>0, <1>2
  <1>4. Resolved(pass[p].qty) \in Statuses \ {"NONE", "PENDING"}
    BY <1>0, ResolvedFinal
  <1>5. status'[o] = Resolved(pass[p].qty) /\ \A x \in Orders \ {o} : status'[x] = status[x]
    BY <1>0 DEF UpdateStatus, RecTypeOK
  <1>6. RecTypeOK'
    <2>1. pass' \in [PassIds -> PassType]
      BY <1>0, <1>3 DEF UpdateStatus, RecTypeOK
    <2>2. status' \in [Orders -> Statuses]
      BY <1>0, <1>4 DEF UpdateStatus, RecTypeOK
    <2> QED BY <1>0, <2>1, <2>2 DEF RecTypeOK
  <1>7. status'[o] \notin {"NONE", "PENDING"} /\ \A x \in Orders \ {o} : Final(x)' <=> Final(x)
    BY <1>4, <1>5 DEF Final
  <1>8. ~early => o \notin live /\ status[o] # "NONE" /\ pass[p].qty = filled[o]
    BY <1>0 DEF PassKnows
  <1>9. ~early => (Final(o) => status'[o] = status[o])
    BY <1>5, <1>8, <1>0 DEF RecInv, StatusIsTrue
  <1>10. ~overlapped => status[o] = "PENDING" /\ o \notin pass[p].todo /\ ~Final(o)
    BY <1>0 DEF PassKnows, Final
  <1>11. \A q \in PassIds : PassKnows(q)'
    <2>1. PassKnows(p)'
      <3>1. ~overlapped => \A e \in journal : e.order # o
        BY <1>10 DEF RecInv, EntryKnows
      <3>2. ~early => \A x \in pass[p].todo : x \notin live /\ status'[x] # "NONE"
        BY <1>0, <1>4, <1>5 DEF PassKnows
      <3>3. ~overlapped => \A x \in pass[p].todo : status'[x] = "PENDING"
        BY <1>0, <1>5, <1>10 DEF PassKnows
      <3>4. passes' >= 1
        BY <1>0 DEF PassKnows
      <3>5. status'[pass'[p].order] \notin {"NONE", "PENDING"}
        BY <1>3, <1>7
      <3>6. ~early => status'[pass'[p].order] = Resolved(pass'[p].qty) /\ pass'[p].order \notin live'
                      /\ pass'[p].qty = filled'[pass'[p].order]
        BY <1>0, <1>3, <1>5, <1>8
      <3> QED BY <1>0, <1>3, <1>10, <3>1, <3>2, <3>3, <3>4, <3>5, <3>6 DEF PassKnows, Final
    <2>2. ASSUME NEW q \in PassIds, q # p PROVE PassKnows(q)'
      <3>1. PassKnows(q) /\ pass'[q] = pass[q] /\ pass[q] \in PassType
        BY <1>0, <1>1, <2>2 DEF RecInv, RecTypeOK
      <3>2. ~overlapped => pass[q].pc = "idle"
        BY <1>0, <2>2 DEF RecInv, OnePass
      <3>3. pass[q].pc = "ledger" => Final(pass[q].order)'
        BY <1>7, <3>1 DEF PassKnows, Final
      <3>4. ~early /\ pass[q].pc # "idle" => \A x \in pass[q].todo : status'[x] # "NONE"
        BY <1>4, <1>5, <3>1 DEF PassKnows
      <3>5. ~early /\ pass[q].pc \in {"status", "ledger"} => status'[pass[q].order] # "NONE"
        BY <1>4, <1>5, <3>1 DEF PassKnows
      <3>6. ~early /\ pass[q].pc = "ledger" => status'[pass[q].order] = Resolved(pass[q].qty)
        BY <1>5, <1>9, <3>1 DEF PassKnows
      <3> QED BY <1>0, <3>1, <3>2, <3>3, <3>4, <3>5, <3>6 DEF PassKnows
    <2> QED BY <2>1, <2>2
  <1>12. StatusIsTrue'
    BY <1>0, <1>5, <1>7, <1>8 DEF RecInv, StatusIsTrue
  <1>13. OnePass' /\ EntriesDiffer'
    BY <1>0, <1>1 DEF RecInv, OnePass, EntriesDiffer
  <1>14. EntryKnows'
    <2>1. \A e \in journal : e.order \in Orders
      BY <1>0 DEF RecTypeOK, LedgerEntries
    <2> SUFFICES ASSUME NEW e \in journal
                 PROVE  Final(e.order)' /\ (~early => status'[e.order] = e.status /\ filled[e.order] = e.qty)
      BY <1>0 DEF EntryKnows
    <2>2. e.order \in Orders /\ Final(e.order) /\ (~early => status[e.order] = e.status /\ filled[e.order] = e.qty)
      BY <2>1 DEF RecInv, EntryKnows
    <2>3. CASE e.order = o
      BY <1>7, <1>9, <2>2, <2>3 DEF Final
    <2>4. CASE e.order # o
      BY <1>5, <1>7, <2>2, <2>4
    <2> QED BY <2>3, <2>4
  <1>15. NoneMissing'
    <2> SUFFICES ASSUME ~overlapped, ~aborted, NEW x \in Orders, Final(x)'
                 PROVE  \/ \E e \in journal : e.order = x
                        \/ \E q \in PassIds : pass'[q].pc = "ledger" /\ pass'[q].order = x
      BY <1>0 DEF NoneMissing
    <2>1. CASE x = o
      BY <1>3, <2>1
    <2>2. CASE x # o
      <3>1. Final(x)
        BY <1>7, <2>2
      <3>2. \A q \in PassIds : pass[q].pc # "ledger"
        BY <1>0 DEF RecInv, OnePass
      <3> QED BY <3>1, <3>2 DEF RecInv, NoneMissing
    <2> QED BY <2>1, <2>2
  <1> QED BY <1>6, <1>11, <1>12, <1>13, <1>14, <1>15 DEF RecInv

(* The entry a pass writes is the first of its order, if passes do not      *)
(* overlap.                                                                 *)
LEMMA LedgerStep ==
  ASSUME RecInv, NEW p \in PassIds, WriteLedger(p)
  PROVE  RecInv'
  <1> DEFINE o == pass[p].order
             row == [order |-> o, status |-> Resolved(pass[p].qty), qty |-> pass[p].qty, pass |-> passes]
             PassType == [pc : {"idle", "active", "history", "status", "ledger"}, todo : SUBSET Orders,
                          order : Orders, qty : 0 .. OrderQty]
  <1>0. /\ RecTypeOK /\ PassKnows(p) /\ UNCHANGED <<early, status, live, filled, passes, overlapped, aborted>>
        /\ pass[p].pc = "ledger" /\ pass[p] \in PassType /\ journal' = journal \cup {row}
    BY DEF WriteLedger, RecInv, RecTypeOK
  <1>1. \A q \in PassIds \ {p} : pass'[q] = pass[q]
    BY <1>0 DEF WriteLedger, RecTypeOK
  <1>2. pass'[p] = [pass[p] EXCEPT !.pc = "history"]
    BY <1>0 DEF WriteLedger, RecTypeOK
  <1>3. pass'[p] \in PassType /\ pass'[p].pc = "history" /\ pass'[p].todo = pass[p].todo
    BY <1>0, <1>2
  <1>4. row \in LedgerEntries /\ row.order = o /\ row.status = Resolved(pass[p].qty) /\ row.qty = pass[p].qty
    <2>1. passes \in 1 .. MaxPasses
      BY <1>0 DEF PassKnows, RecTypeOK
    <2>2. Resolved(pass[p].qty) \in Statuses /\ o \in Orders /\ pass[p].qty \in 0 .. OrderQty
      BY <1>0, ResolvedFinal
    <2> QED BY <2>1, <2>2 DEF LedgerEntries
  <1> HIDE DEF row
  <1>5. RecTypeOK'
    <2>1. pass' \in [PassIds -> PassType]
      BY <1>0, <1>3 DEF WriteLedger, RecTypeOK
    <2> QED BY <1>0, <1>4, <2>1 DEF RecTypeOK
  <1>6. \A x \in Orders : Final(x)' <=> Final(x)
    BY <1>0 DEF Final
  <1>7. \A q \in PassIds : PassKnows(q)'
    <2>1. PassKnows(p)'
      BY <1>0, <1>3 DEF PassKnows
    <2>2. ASSUME NEW q \in PassIds, q # p PROVE PassKnows(q)'
      <3>1. PassKnows(q) /\ pass'[q] = pass[q] /\ pass[q].order \in Orders
        BY <1>0, <1>1, <2>2 DEF RecInv, RecTypeOK
      <3>2. ~overlapped => pass[q].pc = "idle"
        BY <1>0, <2>2 DEF RecInv, OnePass
      <3> QED BY <1>0, <1>6, <3>1, <3>2 DEF PassKnows
    <2> QED BY <2>1, <2>2
  <1>8. StatusIsTrue' /\ OnePass'
    BY <1>0, <1>1, <1>3, <1>6 DEF RecInv, StatusIsTrue, OnePass
  <1>9. EntryKnows'
    <2>1. \A e \in journal : e.order \in Orders
      BY <1>0 DEF RecTypeOK, LedgerEntries
    <2>2. Final(o) /\ o \in Orders /\ (~early => status[o] = Resolved(pass[p].qty) /\ pass[p].qty = filled[o])
      BY <1>0 DEF PassKnows
    <2> QED BY <1>0, <1>4, <1>6, <2>1, <2>2 DEF RecInv, EntryKnows
  <1>10. EntriesDiffer'
    <2>1. ~overlapped => \A e \in journal : e.order # o
      BY <1>0 DEF PassKnows
    <2> QED BY <1>0, <1>4, <2>1 DEF RecInv, EntriesDiffer
  <1>11. NoneMissing'
    BY <1>0, <1>1, <1>4, <1>6 DEF RecInv, NoneMissing
  <1> QED BY <1>5, <1>7, <1>8, <1>9, <1>10, <1>11 DEF RecInv

(* The invariant implies what the run checks.                               *)
LEMMA RecInvImplies == RecInv => ReconciledRight
  <1> SUFFICES ASSUME RecInv PROVE LedgerIsTrue /\ OneEntry
    BY DEF RecInv, ReconciledRight
  <1>1. LedgerIsTrue
    BY DEF RecInv, EntryKnows, LedgerIsTrue
  <1>2. ASSUME ~overlapped, NEW o \in Orders PROVE Cardinality({e \in journal : e.order = o}) <= 1
    <2> DEFINE E == {e \in journal : e.order = o}
    <2>1. CASE E = {}
      BY <2>1, FS_EmptySet
    <2>2. ASSUME NEW e \in E PROVE Cardinality(E) = 1
      <3>1. E = {e}
        BY <1>2, <2>2 DEF RecInv, EntriesDiffer
      <3> QED BY <3>1, FS_Singleton
    <2> QED BY <2>1, <2>2
  <1>3. ASSUME ~overlapped, NEW o \in Orders, Final(o), ~aborted
        PROVE  \/ \E e \in journal : e.order = o
               \/ \E p \in Busy : pass[p].pc = "ledger" /\ pass[p].order = o
    BY <1>3 DEF RecInv, NoneMissing, Busy
  <1> QED BY <1>1, <1>2, <1>3 DEF OneEntry

(* ReconciledRight: the ledger tells the truth about every order the broker *)
(* has finished, and tells it once, for any orders and any number of        *)
(* passes.                                                                  *)
THEOREM Reconciled == RecSpec => []ReconciledRight
  <1>1. RecInv /\ [RecNext]_recVars => RecInv'
    <2> SUFFICES ASSUME RecInv, [RecNext]_recVars PROVE RecInv'
      OBVIOUS
    <2>1. CASE UNCHANGED recVars
      BY <2>1 DEF recVars, RecInv, RecTypeOK, StatusIsTrue, OnePass, EntryKnows, EntriesDiffer, NoneMissing,
                  PassKnows, Final
    <2> QED BY <2>1, SystemStep, ReadingStep, StatusStep, LedgerStep DEF RecNext
  <1> QED BY <1>1, RecInvInit, RecInvImplies, PTL DEF RecSpec

-----------------------------------------------------------------------------
(* Retried calls. *)

(* The orders executed for one call are not more than its attempts before the present one. *)
RetryFits ==
  /\ placing <= placed
  /\ retry.pc = "idle" => placing = 0
  /\ retry.pc = "trying" => retry.attempt >= 1 /\ placing + 1 <= retry.attempt
  /\ retry.pc # "trying" => placing <= MaxRetries

(* What a cancellation has been through and what it has still to do are different orders, and they
   are all that were open, or as many as the limit.                                              *)
Handled == cancel.cancelled \cup cancel.failed
CancelFits ==
  /\ open \subseteq 1 .. placed /\ cancel.placed <= placed
  /\ cancel.todo \cap Handled = {} /\ (cancel.pc # "cancelling" => cancel.todo = {})
  /\ cancel.pc # "idle" =>
       \/ Cardinality(cancel.todo \cup Handled) = CancelLimit
       \/ \A n \in open : n \in cancel.failed \/ n > cancel.placed \/ n \in cancel.todo

(* The inductive invariant behind CallsAccountedFor. *)
CallInv == CallTypeOK /\ RetryFits /\ CancelFits /\ PlacedExactlyOnce

(* The records of a cancellation and of a retried call, field by field. *)
Cancels == [pc : {"idle", "cancelling", "done"}, todo : SUBSET OrderNumbers, cancelled : SUBSET OrderNumbers,
            failed : SUBSET OrderNumbers, placed : 0 .. MaxPlaced]

(* A cancellation has these fields ... *)
LEMMA CancelFields ==
  ASSUME CallTypeOK
  PROVE  cancel \in Cancels /\ cancel = [pc |-> cancel.pc, todo |-> cancel.todo, cancelled |-> cancel.cancelled,
                                         failed |-> cancel.failed, placed |-> cancel.placed]
  BY DEF CallTypeOK, Cancels

(* ... and a retried call these. *)
LEMMA RetryFields ==
  ASSUME CallTypeOK
  PROVE  /\ retry.pc \in {"idle", "trying", "ok", "raised"} /\ retry.attempt \in 0 .. MaxRetries
         /\ retry = [pc |-> retry.pc, attempt |-> retry.attempt]
  BY DEF CallTypeOK

(* A step of the call of place_order leaves the cancellation as it is; an order it places is later than
   all the orders a cancellation saw.                                                               *)
LEMMA PlacingKeeps ==
  ASSUME CallInv, UNCHANGED <<lossy, cancel>>, NEW pc \in {"idle", "trying", "ok", "raised"},
         NEW attempt \in 0 .. MaxRetries, retry' = [pc |-> pc, attempt |-> attempt],
         \/ UNCHANGED <<open, placed>>
         \/ placed < MaxPlaced /\ placed' = placed + 1 /\ open' = open \cup {placed + 1},
         placing' \in Nat, placing' <= placed',
         pc = "idle" => placing' = 0,
         pc = "trying" => attempt >= 1 /\ placing' + 1 <= attempt,
         pc # "trying" => placing' <= MaxRetries,
         ~lossy => (pc = "ok" => placing' = 1) /\ (pc \in {"trying", "raised"} => placing' = 0)
  PROVE  CallInv'
  <1>1. retry'.pc = pc /\ retry'.attempt = attempt /\ retry' \in [pc : {"idle", "trying", "ok", "raised"}, attempt : 0 .. MaxRetries]
    OBVIOUS
  <1>2. placed \in 0 .. MaxPlaced /\ open \subseteq 1 .. placed /\ cancel.placed <= placed /\ cancel.placed \in 0 .. MaxPlaced
        /\ MaxPlaced \in Nat
    BY CallAssumption DEF CallInv, CallTypeOK, CancelFits
  <1>3. placed' \in 0 .. MaxPlaced /\ open' \subseteq 1 .. placed' /\ placed <= placed'
    <2>1. CASE UNCHANGED <<open, placed>>
      BY <1>2, <2>1
    <2>2. CASE placed < MaxPlaced /\ placed' = placed + 1 /\ open' = open \cup {placed + 1}
      <3>1. placed' \in 0 .. MaxPlaced /\ 1 .. placed \subseteq 1 .. placed' /\ placed + 1 \in 1 .. placed'
        BY <1>2, <2>2
      <3> QED BY <1>2, <2>2, <3>1
    <2> QED BY <2>1, <2>2
  <1>4. \A n \in open' : n \in open \/ n > cancel.placed
    BY <1>2
  <1>5. CallTypeOK'
    <2>1. open' \subseteq OrderNumbers /\ placing' \in 0 .. MaxPlaced
      BY <1>2, <1>3 DEF OrderNumbers
    <2> QED BY <1>1, <1>3, <2>1 DEF CallInv, CallTypeOK, OrderNumbers
  <1>6. RetryFits' /\ PlacedExactlyOnce'
    BY <1>1 DEF RetryFits, PlacedExactlyOnce
  <1>7. CancelFits'
    <2>1. cancel'.placed <= placed'
      BY <1>2, <1>3
    <2> QED BY <1>3, <1>4, <2>1 DEF CallInv, CancelFits, Handled
  <1> QED BY <1>5, <1>6, <1>7 DEF CallInv

(* The steps of place_order: an attempt executes at most one order. *)
LEMMA PlaceSteps ==
  ASSUME CallInv, BeginPlace \/ AttemptSucceeds \/ AttemptFails
  PROVE  CallInv'
  <1>1. /\ MaxRetries \in Nat \ {0} /\ MaxPlaced \in Nat /\ placed \in 0 .. MaxPlaced /\ placing \in Nat /\ placing <= placed
        /\ retry.pc \in {"idle", "trying", "ok", "raised"} /\ retry.attempt \in 0 .. MaxRetries
        /\ retry = [pc |-> retry.pc, attempt |-> retry.attempt]
        /\ (retry.pc = "trying" => retry.attempt >= 1 /\ placing + 1 <= retry.attempt)
        /\ (~lossy /\ retry.pc = "trying" => placing = 0)
    BY CallAssumption, RetryFields DEF CallInv, CallTypeOK, RetryFits, PlacedExactlyOnce
  <1>2. CASE BeginPlace
    <2>1. retry' = [pc |-> "trying", attempt |-> 1] /\ placing' = 0 /\ UNCHANGED <<lossy, open, placed, cancel>>
      BY <1>2 DEF BeginPlace
    <2>2. 1 \in 0 .. MaxRetries
      BY <1>1
    <2> QED BY <1>1, <2>1, <2>2, PlacingKeeps
  <1> DEFINE Executed == /\ placed < MaxPlaced /\ placed' = placed + 1 /\ open' = open \cup {placed + 1}
                         /\ placing' = placing + 1
  <1>3. CASE AttemptSucceeds
    <2>1. retry.pc = "trying" /\ retry' = [retry EXCEPT !.pc = "ok"] /\ Executed /\ UNCHANGED <<lossy, cancel>>
      BY <1>3 DEF AttemptSucceeds, Answered, Execute
    <2>2. retry' = [pc |-> "ok", attempt |-> retry.attempt]
      BY <1>1, <2>1
    <2>3. placing' \in Nat /\ placing' <= placed' /\ placing' <= MaxRetries
      BY <1>1, <2>1
    <2> QED BY <1>1, <2>1, <2>2, <2>3, PlacingKeeps
  <1>4. CASE AttemptFails
    <2>1. retry.pc = "trying" /\ UNCHANGED <<lossy, cancel>> /\ (UNCHANGED <<open, placed, placing>> \/ (lossy /\ Executed))
      BY <1>4 DEF AttemptFails, Execute
    <2>2. placing' \in Nat /\ placing' <= placed' /\ placing' <= retry.attempt /\ (~lossy => placing' = 0)
      BY <1>1, <2>1
    <2>3. UNCHANGED <<open, placed>> \/ (placed < MaxPlaced /\ placed' = placed + 1 /\ open' = open \cup {placed + 1})
      BY <2>1
    <2>4. CASE LastAttempt(retry.attempt)
      <3>1. retry' = [pc |-> "raised", attempt |-> retry.attempt]
        BY <1>1, <1>4, <2>4 DEF AttemptFails
      <3>2. placing' <= MaxRetries
        BY <1>1, <2>2
      <3> QED BY <1>1, <2>1, <2>2, <2>3, <3>1, <3>2, PlacingKeeps
    <2>5. CASE ~LastAttempt(retry.attempt)
      <3>1. retry' = [retry EXCEPT !.attempt = retry.attempt + 1]
        BY <1>4, <2>5 DEF AttemptFails
      <3>2. retry' = [pc |-> "trying", attempt |-> retry.attempt + 1]
        BY <1>1, <2>1, <3>1
      <3>3. retry.attempt + 1 \in 0 .. MaxRetries /\ retry.attempt + 1 >= 1 /\ placing' + 1 <= retry.attempt + 1
        BY <1>1, <2>2, <2>5 DEF LastAttempt
      <3> QED BY <1>1, <2>1, <2>2, <2>3, <3>2, <3>3, PlacingKeeps
    <2> QED BY <2>4, <2>5
  <1> QED BY <1>2, <1>3, <1>4

(* One more order is through: two fields of the record. *)
LEMMA CancelGoes ==
  ASSUME NEW c \in Cancels, NEW t, NEW s
  PROVE  /\ [c EXCEPT !.todo = t, !.cancelled = s] = [pc |-> c.pc, todo |-> t, cancelled |-> s, failed |-> c.failed, placed |-> c.placed]
         /\ [c EXCEPT !.todo = t, !.failed = s] = [pc |-> c.pc, todo |-> t, cancelled |-> c.cancelled, failed |-> s, placed |-> c.placed]
  <1> DEFINE r == [c EXCEPT !.todo = t]
  <1>1. r = [pc |-> c.pc, todo |-> t, cancelled |-> c.cancelled, failed |-> c.failed, placed |-> c.placed]
    BY DEF Cancels
  <1>2. /\ [c EXCEPT !.todo = t, !.cancelled = s] = [r EXCEPT !.cancelled = s]
        /\ [c EXCEPT !.todo = t, !.failed = s] = [r EXCEPT !.failed = s]
    OBVIOUS
  <1> HIDE DEF r
  <1>3. [r EXCEPT !.cancelled = s] = [pc |-> c.pc, todo |-> t, cancelled |-> s, failed |-> c.failed, placed |-> c.placed]
    BY <1>1
  <1>4. [r EXCEPT !.failed = s] = [pc |-> c.pc, todo |-> t, cancelled |-> c.cancelled, failed |-> s, placed |-> c.placed]
    BY <1>1
  <1> QED BY <1>2, <1>3, <1>4

(* A step of the cancellation leaves the call of place_order as it is. *)
LEMMA CancellingKeeps ==
  ASSUME CallInv, UNCHANGED <<lossy, placed, retry, placing>>, NEW c \in Cancels, cancel' = c, open' \subseteq open,
         c.placed <= placed, c.todo \cap (c.cancelled \cup c.failed) = {}, c.pc # "cancelling" => c.todo = {},
         c.pc # "idle" => \/ Cardinality(c.todo \cup (c.cancelled \cup c.failed)) = CancelLimit
                          \/ \A n \in open' : n \in c.failed \/ n > c.placed \/ n \in c.todo
  PROVE  CallInv'
  <1>1. CallTypeOK'
    BY DEF CallInv, CallTypeOK, Cancels, OrderNumbers
  <1>2. RetryFits' /\ PlacedExactlyOnce'
    BY DEF CallInv, RetryFits, PlacedExactlyOnce
  <1>3. CancelFits'
    BY DEF CallInv, CancelFits, Handled
  <1> QED BY <1>1, <1>2, <1>3 DEF CallInv

(* No cancellation has begun. *)
LEMMA NoCancelFits ==
  /\ NoCancel \in Cancels /\ NoCancel.pc = "idle" /\ NoCancel.todo = {} /\ NoCancel.cancelled = {} /\ NoCancel.failed = {}
  /\ NoCancel.placed = 0
  BY CallAssumption DEF NoCancel, Cancels, OrderNumbers

(* The steps of cancel_all_open_orders: an order leaves what is to do when it is cancelled or has failed. *)
LEMMA CancelSteps ==
  ASSUME CallInv, BeginCancel \/ CancelNext \/ EndCancel
  PROVE  CallInv'
  <1>1. /\ UNCHANGED <<lossy, placed, retry, placing>> /\ open \subseteq OrderNumbers /\ placed \in 0 .. MaxPlaced
        /\ cancel \in Cancels /\ cancel.placed <= placed /\ cancel.placed \in 0 .. MaxPlaced
        /\ cancel.todo \cap (cancel.cancelled \cup cancel.failed) = {} /\ open \subseteq 1 .. placed
    BY CancelFields DEF BeginCancel, CancelNext, EndCancel, CallInv, CallTypeOK, CancelFits, Handled, Cancels
  <1>2. CASE BeginCancel /\ cancel' = NoCancel
    <2>1. open' \subseteq open /\ 0 <= placed
      BY <1>1, <1>2 DEF BeginCancel
    <2> QED BY <1>1, <1>2, <2>1, NoCancelFits, CancellingKeeps
  <1>3. CASE BeginCancel /\ cancel' # NoCancel
    <2>1. PICK listed \in SUBSET open :
            /\ IF Cardinality(open) <= CancelLimit THEN listed = open ELSE Cardinality(listed) = CancelLimit
            /\ cancel' = [NoCancel EXCEPT !.pc = "cancelling", !.todo = listed, !.placed = placed]
      BY <1>3 DEF BeginCancel
    <2> DEFINE c == [pc |-> "cancelling", todo |-> listed, cancelled |-> {}, failed |-> {}, placed |-> placed]
    <2>2. cancel' = c
      BY <2>1 DEF NoCancel
    <2>3. c \in Cancels
      BY <1>1 DEF Cancels
    <2>4. c.pc = "cancelling" /\ c.todo = listed /\ c.cancelled = {} /\ c.failed = {} /\ c.placed = placed
      OBVIOUS
    <2> HIDE DEF c
    <2>5. open' = open
      BY <1>3 DEF BeginCancel
    <2>6. listed \cup ({} \cup {}) = listed /\ listed \cap ({} \cup {}) = {} /\ placed <= placed
      BY <1>1
    <2>7. \/ Cardinality(c.todo \cup (c.cancelled \cup c.failed)) = CancelLimit
          \/ \A n \in open' : n \in c.failed \/ n > c.placed \/ n \in c.todo
      BY <2>1, <2>4, <2>5, <2>6
    <2> QED BY <1>1, <2>2, <2>3, <2>4, <2>5, <2>6, <2>7, CancellingKeeps
  <1>4. CASE EndCancel
    <2>1. cancel.pc = "cancelling" /\ cancel.todo = {} /\ cancel' = [cancel EXCEPT !.pc = "done"] /\ open' = open
      BY <1>4 DEF EndCancel
    <2>2. cancel' \in Cancels /\ cancel'.pc = "done" /\ cancel'.todo = {} /\ cancel'.placed = cancel.placed
          /\ cancel'.cancelled = cancel.cancelled /\ cancel'.failed = cancel.failed
      BY <1>1, <2>1 DEF Cancels
    <2>3. \/ Cardinality(cancel.todo \cup (cancel.cancelled \cup cancel.failed)) = CancelLimit
          \/ \A n \in open : n \in cancel.failed \/ n > cancel.placed \/ n \in cancel.todo
      BY <2>1 DEF CallInv, CancelFits, Handled
    <2> DEFINE c == cancel'
    <2>4. c \in Cancels /\ cancel' = c
      BY <2>2
    <2> QED BY <1>1, <2>1, <2>2, <2>3, CancellingKeeps
  <1>5. CASE CancelNext
    <2>1. PICK n \in cancel.todo :
            \/ n \in open /\ open' = open \ {n} /\ cancel' = [cancel EXCEPT !.todo = cancel.todo \ {n}, !.cancelled = cancel.cancelled \cup {n}]
            \/ (open' = open \/ open' = open \ {n})
               /\ cancel' = [cancel EXCEPT !.todo = cancel.todo \ {n}, !.failed = cancel.failed \cup {n}]
      BY <1>5 DEF CancelNext, NotCancelled
    <2>2. cancel.pc = "cancelling" /\ n \in OrderNumbers
      BY <1>1, <1>5 DEF CancelNext, Cancels
    <2>3. PICK done \in SUBSET OrderNumbers, failed \in SUBSET OrderNumbers :
            /\ cancel' = [pc |-> "cancelling", todo |-> cancel.todo \ {n}, cancelled |-> done, failed |-> failed, placed |-> cancel.placed]
            /\ done \cup failed = (cancel.cancelled \cup cancel.failed) \cup {n} /\ cancel.failed \subseteq failed
            /\ n \in open' => n \in failed
      <3> DEFINE t == cancel.todo \ {n}
                 d == cancel.cancelled \cup {n}
                 f == cancel.failed \cup {n}
      <3>1. /\ cancel.pc = "cancelling" /\ cancel \in Cancels /\ d \in SUBSET OrderNumbers /\ f \in SUBSET OrderNumbers
            /\ cancel.cancelled \in SUBSET OrderNumbers /\ cancel.failed \in SUBSET OrderNumbers
        BY <1>1, <2>2 DEF Cancels
      <3>2. CASE n \in open /\ open' = open \ {n} /\ cancel' = [cancel EXCEPT !.todo = t, !.cancelled = d]
        <4>1. cancel' = [pc |-> "cancelling", todo |-> t, cancelled |-> d, failed |-> cancel.failed, placed |-> cancel.placed]
          <5> HIDE DEF t, d
          <5> QED BY <3>1, <3>2, CancelGoes
        <4>2. n \notin open' /\ d \cup cancel.failed = (cancel.cancelled \cup cancel.failed) \cup {n}
          BY <3>2
        <4> QED BY <3>1, <4>1, <4>2
      <3>3. CASE cancel' = [cancel EXCEPT !.todo = t, !.failed = f]
        <4>1. cancel' = [pc |-> "cancelling", todo |-> t, cancelled |-> cancel.cancelled, failed |-> f, placed |-> cancel.placed]
          <5> HIDE DEF t, f
          <5> QED BY <3>1, <3>3, CancelGoes
        <4>2. cancel.cancelled \cup f = (cancel.cancelled \cup cancel.failed) \cup {n} /\ cancel.failed \subseteq f /\ n \in f
          OBVIOUS
        <4> QED BY <3>1, <4>1, <4>2
      <3> QED BY <2>1, <3>2, <3>3
    <2> DEFINE c == [pc |-> "cancelling", todo |-> cancel.todo \ {n}, cancelled |-> done, failed |-> failed, placed |-> cancel.placed]
    <2>4. c \in Cancels
      BY <1>1, <2>3 DEF Cancels
    <2>5. c.pc = "cancelling" /\ c.todo = cancel.todo \ {n} /\ c.cancelled = done /\ c.failed = failed /\ c.placed = cancel.placed
          /\ cancel' = c
      BY <2>3
    <2> HIDE DEF c
    <2>6. open' \subseteq open
      BY <2>1
    <2>7. c.todo \cap (c.cancelled \cup c.failed) = {}
          /\ c.todo \cup (c.cancelled \cup c.failed) = cancel.todo \cup (cancel.cancelled \cup cancel.failed)
      BY <1>1, <2>3, <2>5
    <2>8. \/ Cardinality(c.todo \cup (c.cancelled \cup c.failed)) = CancelLimit
          \/ \A k \in open' : k \in c.failed \/ k > c.placed \/ k \in c.todo
      BY <2>2, <2>3, <2>5, <2>6, <2>7 DEF CallInv, CancelFits, Handled
    <2> QED BY <1>1, <2>4, <2>5, <2>6, <2>7, <2>8, CancellingKeeps
  <1> QED BY <1>2, <1>3, <1>4, <1>5

(* CallsAccountedFor: a retried order is placed as often as it may be, and a cancellation accounts for every
   order it saw, for any numbers of retries, orders and any limit.                                          *)
THEOREM CallsAreAccountedFor == CallSpec => []CallsAccountedFor
  <1>1. CallInit => CallInv
    BY CallAssumption, NoCancelFits DEF CallInit, CallInv, CallTypeOK, RetryFits, CancelFits, PlacedExactlyOnce, Handled, Cancels,
       OrderNumbers
  <1>2. CallInv /\ [CallNext]_callVars => CallInv'
    <2> SUFFICES ASSUME CallInv, [CallNext]_callVars PROVE CallInv'
      OBVIOUS
    <2>1. CASE UNCHANGED callVars
      BY <2>1 DEF callVars, CallInv, CallTypeOK, RetryFits, CancelFits, PlacedExactlyOnce, Handled, OrderNumbers
    <2>2. CASE BeginPlace \/ AttemptSucceeds \/ AttemptFails
      BY <2>2, PlaceSteps
    <2>3. CASE BeginCancel \/ CancelNext \/ EndCancel
      BY <2>3, CancelSteps
    <2>4. CASE OrderEnds
      <3>1. open' \subseteq open /\ UNCHANGED <<lossy, placed, retry, cancel, placing>>
        BY <2>4 DEF OrderEnds
      <3> QED BY <3>1 DEF CallInv, CallTypeOK, RetryFits, CancelFits, PlacedExactlyOnce, Handled, OrderNumbers
    <2> QED BY <2>1, <2>2, <2>3, <2>4 DEF CallNext
  <1>3. CallInv => CallsAccountedFor
    <2> SUFFICES ASSUME CallInv PROVE CallsAccountedFor
      OBVIOUS
    <2>1. PlacedAtMostRetries
      BY CallAssumption DEF CallInv, CallTypeOK, RetryFits, PlacedAtMostRetries
    <2>2. CancelAccounts
      <3>1. ASSUME cancel.pc = "done" PROVE cancel.todo = {} /\ cancel.todo \cup Handled = cancel.cancelled \cup cancel.failed
        BY <3>1 DEF CallInv, CancelFits, Handled
      <3> QED BY <3>1 DEF CallInv, CancelFits, CancelAccounts
    <2> QED BY <2>1, <2>2 DEF CallInv, CallsAccountedFor
  <1> QED BY <1>1, <1>2, <1>3, PTL DEF CallSpec

-----------------------------------------------------------------------------
(* Slices of an order and the exchange simulator. *)

(* The types of what SlicesSound is about. *)
SlicesTyped ==
  /\ slice \in [i : Nat, left : Nat] /\ {lots, bought, raised} \subseteq Int
  /\ slice.left + bought - raised = lots
  /\ \E q \in Nat \ {0} : simulated \in Courses(q)
  /\ \E side \in {"buy", "sell"} : \E price, wanted, fill, fillPrice \in Nat :
       entry = Entry(side, price, wanted, fill, fillPrice)

(* A slice takes some lots, never more than are left. *)
LEMMA SliceFits == ASSUME SlicesTyped, NEW n \in NoisyLots PROVE SliceLots(n) \in 0 .. slice.left
  <1>1. PICK k \in Int : n = Max({1, k})
    <2>1. lots \div Slices \in Int
      BY SlicesAssumption DEF SlicesTyped
    <2>2. BaseLots \in Int
      BY <2>1, MaxOfTwo DEF BaseLots
    <2>3. (4 * BaseLots) \div 5 \in Int /\ (6 * BaseLots) \div 5 \in Int
      BY <2>2
    <2> DEFINE low == (4 * BaseLots) \div 5
               high == (6 * BaseLots) \div 5
    <2>4. n \in {Max({1, k}) : k \in low .. high}
      BY DEF NoisyLots
    <2>5. low .. high \subseteq Int
      BY <2>3
    <2> HIDE DEF low, high
    <2> QED BY <2>4, <2>5
  <1>2. n \in Nat
    BY <1>1, MaxOfTwo
  <1> QED BY <1>2 DEF SliceLots, SlicesTyped

(* A slice is placed: what the broker bought is not more than what was left. *)
LEMMA PlaceStep ==
  ASSUME SlicesTyped, NEW n \in NoisyLots, NEW asked \in BOOLEAN, NEW answered \in BOOLEAN, PlaceSlice(n, asked, answered)
  PROVE  SlicesTyped'
  <1>1. PICK v \in 0 .. slice.left : v = SliceLots(n)
    BY SliceFits
  <1>2. /\ slice' = [i |-> slice.i + 1, left |-> IF answered THEN slice.left - v ELSE slice.left]
        /\ bought' = bought + v /\ raised' = (IF answered THEN raised ELSE raised + v) /\ UNCHANGED <<lots, simulated, entry>>
    BY <1>1 DEF PlaceSlice
  <1>3. slice \in [i : Nat, left : Nat] /\ lots \in Int /\ bought \in Int /\ raised \in Int /\ slice.left \in Nat /\ slice.i \in Nat
        /\ slice.left + bought - raised = lots
    BY DEF SlicesTyped
  <1>4. slice' \in [i : Nat, left : Nat] /\ slice'.left = IF answered THEN slice.left - v ELSE slice.left
    BY <1>2, <1>3
  <1>5. bought' \in Int /\ raised' \in Int /\ slice'.left + bought' - raised' = lots
    BY <1>2, <1>3, <1>4
  <1> QED BY <1>2, <1>3, <1>4, <1>5 DEF SlicesTyped

(* The amount told under the name of an event, and under a name that is not told. *)
Distinct(events) == \A j, k \in DOMAIN events : events[j].name = events[k].name => j = k

(* What an event tells is told under its name ... *)
LEMMA ToldOnce ==
  ASSUME Distinct(simulated.events), NEW k \in DOMAIN simulated.events
  PROVE  QtyTold(simulated.events[k].name) = simulated.events[k].qty
  <1>1. Told(simulated.events[k].name) = {k}
    BY DEF Distinct, Told
  <1> QED BY <1>1 DEF QtyTold

(* ... and a name that is not told tells nothing. *)
LEMMA NotTold ==
  ASSUME NEW name, \A k \in DOMAIN simulated.events : simulated.events[k].name # name
  PROVE  QtyTold(name) = 0
  BY DEF QtyTold, Told

(* The courses, one by one. *)
Told2(q, final, fill, last) ==
  [qty |-> q, status |-> final, filled |-> fill, remaining |-> q - fill, events |-> <<Accepted, last>>]
PartThenFilled(q, part) ==
  [qty |-> q, status |-> "filled", filled |-> q, remaining |-> 0,
   events |-> <<Accepted, Event("partial_fill", part), Event("filled", q - part)>>]
AfterRace(q, part, final, fill, last) ==
  [qty |-> q, status |-> final, filled |-> fill, remaining |-> q - fill,
   events |-> <<Accepted, Event("partial_fill", part), Event("cancel_race", q - part), Event(last, q - part)>>]

(* Sequences of two to four events. *)
LEMMA Longer ==
  ASSUME NEW a, NEW b
  PROVE  /\ \A c : Append(<<a, b>>, c) = <<a, b, c>>
         /\ \A c, d : Append(Append(<<a, b>>, c), d) = <<a, b, c, d>>
  <1>1. ASSUME NEW c PROVE Append(<<a, b>>, c) = <<a, b, c>>
    <2> DEFINE r == Append(<<a, b>>, c)
    <2>1. r \in Seq({a, b, c}) /\ Len(r) = 3 /\ r[1] = a /\ r[2] = b /\ r[3] = c
      OBVIOUS
    <2> HIDE DEF r
    <2>2. r = <<a, b, c>>
      BY <2>1
    <2> QED BY <2>2 DEF r
  <1>2. ASSUME NEW c, NEW d PROVE Append(<<a, b, c>>, d) = <<a, b, c, d>>
    <2> DEFINE r == Append(<<a, b, c>>, d)
    <2>1. r \in Seq({a, b, c, d}) /\ Len(r) = 4 /\ r[1] = a /\ r[2] = b /\ r[3] = c /\ r[4] = d
      OBVIOUS
    <2> HIDE DEF r
    <2>2. r = <<a, b, c, d>>
      BY <2>1
    <2> QED BY <2>2 DEF r
  <1> QED BY <1>1, <1>2

(* The courses a simulated order can take. *)
LEMMA CoursesAre ==
  ASSUME NEW q \in Nat, NEW c \in Courses(q)
  PROVE  \/ c = Told2(q, "rejected", 0, Event("rejected", 0)) \/ c = Told2(q, "filled", q, Event("filled", q))
         \/ \E part \in 1 .. q - 1 :
              \/ c = PartThenFilled(q, part) \/ c = AfterRace(q, part, "filled", q, "filled")
              \/ c = AfterRace(q, part, "partially_filled", part, "cancelled")
  <1>1. q - 0 = q /\ q - q = 0
    OBVIOUS
  <1>2. CASE c = [qty |-> q, status |-> "rejected", filled |-> 0, remaining |-> q, events |-> <<Accepted, Event("rejected", 0)>>]
    BY <1>1, <1>2 DEF Told2
  <1>3. CASE c = [qty |-> q, status |-> "filled", filled |-> q, remaining |-> 0, events |-> <<Accepted, Event("filled", q)>>]
    BY <1>1, <1>3 DEF Told2
  <1>4. ASSUME NEW part \in 1 .. q - 1,
               LET told == <<Accepted, Event("partial_fill", part)>>
                   race == Append(told, Event("cancel_race", q - part))
               IN  c \in {[qty |-> q, status |-> "filled", filled |-> q, remaining |-> 0,
                           events |-> Append(before, Event("filled", q - part))] : before \in {told, race}}
                         \cup {[qty |-> q, status |-> "partially_filled", filled |-> part, remaining |-> q - part,
                                events |-> Append(race, Event("cancelled", q - part))]}
        PROVE  \/ c = PartThenFilled(q, part) \/ c = AfterRace(q, part, "filled", q, "filled")
               \/ c = AfterRace(q, part, "partially_filled", part, "cancelled")
    <2> DEFINE told == <<Accepted, Event("partial_fill", part)>>
               race == Append(told, Event("cancel_race", q - part))
    <2>1. /\ Append(told, Event("filled", q - part)) = <<Accepted, Event("partial_fill", part), Event("filled", q - part)>>
          /\ \A e : Append(race, e) = <<Accepted, Event("partial_fill", part), Event("cancel_race", q - part), e>>
      BY Longer
    <2> HIDE DEF told, race
    <2> QED BY <1>1, <1>4, <2>1 DEF told, race, PartThenFilled, AfterRace
  <1> QED BY <1>2, <1>3, <1>4 DEF Courses

(* Every course of the simulator tells its result. *)
LEMMA CoursesTell == ASSUME SlicesTyped PROVE EventsTellResult
  <1>1. PICK q \in Nat \ {0} : simulated \in Courses(q)
    BY DEF SlicesTyped
  <1> DEFINE e == simulated.events
             Result == /\ simulated.filled + simulated.remaining = simulated.qty
                       /\ (simulated.remaining = 0) = (simulated.status = "filled")
  <1>2. ASSUME NEW final, NEW fill \in {0, q}, NEW last, simulated = Told2(q, final, fill, Event(last, fill)),
               <<final, fill, last>> \in {<<"rejected", 0, "rejected">>, <<"filled", q, "filled">>}
        PROVE  EventsTellResult
    <2>1. Result
      BY <1>2 DEF Told2
    <2>2. DOMAIN e = 1 .. 2 /\ e[1].name = "accepted" /\ e[2].name = last /\ e[2].qty = fill /\ simulated.filled = fill
      BY <1>2 DEF Told2, Event, Accepted
    <2> HIDE DEF e
    <2>3. DOMAIN e = {1, 2} /\ Distinct(e)
      BY <1>2, <2>2 DEF Distinct
    <2>4. QtyTold(last) = fill /\ QtyTold("partial_fill") = 0
      BY <1>2, <2>2, <2>3, ToldOnce, NotTold DEF e
    <2>5. last = "rejected" => QtyTold("filled") = 0
      BY <2>2, <2>3, NotTold DEF e
    <2> QED BY <1>2, <2>1, <2>2, <2>3, <2>4, <2>5 DEF EventsTellResult, Distinct, e
  <1>3. ASSUME NEW part \in 1 .. q - 1, simulated = PartThenFilled(q, part) PROVE EventsTellResult
    <2>1. Result
      BY <1>3 DEF PartThenFilled
    <2>2. /\ DOMAIN e = 1 .. 3 /\ e[1].name = "accepted" /\ e[2].name = "partial_fill" /\ e[3].name = "filled"
          /\ e[2].qty = part /\ e[3].qty = q - part /\ simulated.filled = q
      BY <1>3 DEF PartThenFilled, Event, Accepted
    <2> HIDE DEF e
    <2>3. DOMAIN e = {1, 2, 3} /\ Distinct(e)
      BY <2>2 DEF Distinct
    <2>4. QtyTold("partial_fill") = part /\ QtyTold("filled") = q - part
      BY <2>2, <2>3, ToldOnce DEF e
    <2> QED BY <2>1, <2>2, <2>3, <2>4 DEF EventsTellResult, Distinct, e
  <1>4. ASSUME NEW part \in 1 .. q - 1, NEW final, NEW fill \in {part, q}, NEW last,
               simulated = AfterRace(q, part, final, fill, last),
               <<final, fill, last>> \in {<<"filled", q, "filled">>, <<"partially_filled", part, "cancelled">>}
        PROVE  EventsTellResult
    <2>1. Result
      BY <1>4 DEF AfterRace
    <2>2. /\ DOMAIN e = 1 .. 4 /\ e[1].name = "accepted" /\ e[2].name = "partial_fill" /\ e[3].name = "cancel_race"
          /\ e[4].name = last /\ e[2].qty = part /\ e[4].qty = q - part /\ simulated.filled = fill
      BY <1>4 DEF AfterRace, Event, Accepted
    <2> HIDE DEF e
    <2>3. DOMAIN e = {1, 2, 3, 4} /\ Distinct(e)
      BY <1>4, <2>2 DEF Distinct
    <2>4. QtyTold("partial_fill") = part /\ QtyTold(last) = q - part
      BY <2>2, <2>3, ToldOnce DEF e
    <2>5. last = "cancelled" => QtyTold("filled") = 0
      BY <2>2, <2>3, NotTold DEF e
    <2> QED BY <1>4, <2>1, <2>2, <2>3, <2>4, <2>5 DEF EventsTellResult, Distinct, e
  <1> QED BY <1>1, <1>2, <1>3, <1>4, CoursesAre

(* Every entry balances, or a purchase went beyond what was locked. *)
LEMMA EntryIsBalanced == ASSUME SlicesTyped PROVE EntryBalances
  <1>1. PICK side \in {"buy", "sell"}, price \in Nat, wanted \in Nat, fill \in Nat, fillPrice \in Nat :
           entry = Entry(side, price, wanted, fill, fillPrice)
    BY DEF SlicesTyped
  <1> DEFINE reference == Reference(price, fillPrice)
             asked == wanted * reference
             got == fill * (IF fillPrice > 0 THEN fillPrice ELSE reference)
             final == StatusOf(wanted, fill)
  <1>2. reference \in Nat /\ asked \in Nat /\ got \in Nat
    BY DEF Reference
  <1>3. CASE side = "sell"
    <2>1. entry = [side |-> side, status |-> final, debit |-> [inventory |-> got, locked |-> 0],
                   credit |-> [free |-> got, inventory |-> 0], asked |-> asked, got |-> got]
      BY <1>1, <1>3 DEF Entry
    <2> HIDE DEF reference, asked, got, final
    <2> QED BY <1>2, <2>1 DEF EntryBalances
  <1>4. CASE side = "buy" /\ fill = 0
    <2>1. entry = [side |-> side, status |-> final, debit |-> [inventory |-> 0, locked |-> asked],
                   credit |-> [free |-> asked, inventory |-> 0], asked |-> asked, got |-> got]
      BY <1>1, <1>4 DEF Entry
    <2> HIDE DEF reference, asked, got, final
    <2> QED BY <1>2, <2>1 DEF EntryBalances
  <1>5. CASE side = "buy" /\ fill # 0
    <2>1. entry = [side |-> side, status |-> final, debit |-> [inventory |-> 0, locked |-> asked],
                   credit |-> [free |-> Max({0, asked - got}), inventory |-> got], asked |-> asked, got |-> got]
      BY <1>1, <1>5 DEF Entry
    <2> HIDE DEF reference, asked, got, final
    <2>2. Max({0, asked - got}) = IF 0 >= asked - got THEN 0 ELSE asked - got
      BY <1>2, MaxOfTwo
    <2> QED BY <1>2, <1>5, <2>1, <2>2 DEF EntryBalances
  <1> QED BY <1>3, <1>4, <1>5

(* SlicesSound: whatever the slices, the courses and the entries: the lots of a sliced order are accounted for,
   the events of a simulated order tell its result, and a ledger entry balances.                              *)
THEOREM SlicesAreSound == SlicesSpec => []SlicesSound
  <1>1. SlicesInit => SlicesTyped
    <2> SUFFICES ASSUME SlicesInit PROVE SlicesTyped
      OBVIOUS
    <2>1. lots \in Nat /\ slice = [i |-> 1, left |-> lots] /\ bought = 0 /\ raised = 0
      BY SlicesAssumption DEF SlicesInit
    <2>2. simulated \in Courses(1)
      <3>1. [qty |-> 1, status |-> "filled", filled |-> 1, remaining |-> 0, events |-> <<Accepted, Event("filled", 1)>>] \in Courses(1)
        BY DEF Courses
      <3>2. \E c \in Courses(1) : c.status = "filled"
        BY <3>1
      <3> QED BY <3>2 DEF SlicesInit, NotSimulated
    <2>3. \E side \in {"buy", "sell"} : \E price, wanted, fill, fillPrice \in Nat :
            entry = Entry(side, price, wanted, fill, fillPrice)
      <3>1. entry = Entry("sell", 0, 0, 0, 0)
        BY DEF SlicesInit, NoEntryYet
      <3> QED BY <3>1
    <2> QED BY <2>1, <2>2, <2>3 DEF SlicesTyped
  <1>2. SlicesTyped /\ [SlicesNext]_sliceVars => SlicesTyped'
    <2> SUFFICES ASSUME SlicesTyped, [SlicesNext]_sliceVars PROVE SlicesTyped'
      OBVIOUS
    <2>1. CASE UNCHANGED sliceVars
      BY <2>1 DEF sliceVars, SlicesTyped
    <2>2. CASE SkipSlice
      BY <2>2 DEF SkipSlice, SlicesTyped
    <2>3. ASSUME NEW n \in NoisyLots, NEW asked \in BOOLEAN, NEW answered \in BOOLEAN, PlaceSlice(n, asked, answered)
          PROVE  SlicesTyped'
      BY <2>3, PlaceStep
    <2>4. ASSUME NEW q \in SimQty, Simulate(q) PROVE SlicesTyped'
      <3>1. q \in Nat \ {0} /\ simulated' \in Courses(q) /\ UNCHANGED <<slice, lots, bought, raised, entry>>
        BY <2>4, SlicesAssumption DEF Simulate
      <3> QED BY <3>1 DEF SlicesTyped
    <2>5. ASSUME NEW side \in {"buy", "sell"}, NEW price \in OrderPrices \cup {0}, NEW fillPrice \in OrderPrices,
                 NEW wanted \in 1 .. EntryQty, NEW fill \in 0 .. wanted,
                 WriteEntry(side, price, wanted, fill, fillPrice)
          PROVE  SlicesTyped'
      <3> DEFINE paid == IF fill = 0 THEN 0 ELSE fillPrice
      <3>1. price \in Nat /\ paid \in Nat /\ wanted \in Nat /\ fill \in Nat
        BY SlicesAssumption
      <3>2. entry' = Entry(side, price, wanted, fill, paid) /\ UNCHANGED <<slice, lots, bought, raised, simulated>>
        BY <2>5 DEF WriteEntry
      <3> HIDE DEF paid
      <3> QED BY <3>1, <3>2 DEF SlicesTyped
    <2> QED BY <2>1, <2>2, <2>3, <2>4, <2>5 DEF SlicesNext
  <1>3. SlicesTyped => SlicesSound
    <2> SUFFICES ASSUME SlicesTyped PROVE SlicesSound
      OBVIOUS
    <2>1. LotsAccountedFor
      BY DEF SlicesTyped, LotsAccountedFor
    <2> QED BY <2>1, CoursesTell, EntryIsBalanced DEF SlicesSound
  <1> QED BY <1>1, <1>2, <1>3, PTL DEF SlicesSpec

-----------------------------------------------------------------------------
(* The price band. *)

(* Rounding down gives the highest valid price that is not above, less than a tick away: the levels begin at multiples
   of the ticks on both sides, so it stays on the level of the price. *)
LEMMA RoundDownRight ==
  ASSUME NEW c \in Nat
  PROVE  /\ RoundDown(c) \in Nat /\ ValidPrice(RoundDown(c)) /\ 100 * RoundDown(c) <= c
         /\ c < 100 * (RoundDown(c) + TickOf(c))
         /\ \A p \in Nat : RoundDown(c) < p /\ 100 * p <= c => ~ValidPrice(p)
  <1>1. CASE c < 20000
    <2>1. TickOf(c) = 1
      BY <1>1 DEF TickOf
    <2>2. RoundDown(c) = (c \div 100) * 1
      BY <2>1 DEF RoundDown
    <2> QED BY <1>1, <2>1, <2>2 DEF ValidPrice, TickOf
  <1>2. CASE c >= 20000 /\ c < 50000
    <2>1. TickOf(c) = 2
      BY <1>2 DEF TickOf
    <2>2. RoundDown(c) = (c \div 200) * 2
      BY <2>1 DEF RoundDown
    <2> QED BY <1>2, <2>1, <2>2 DEF ValidPrice, TickOf
  <1>3. CASE c >= 50000 /\ c < 200000
    <2>1. TickOf(c) = 5
      BY <1>3 DEF TickOf
    <2>2. RoundDown(c) = (c \div 500) * 5
      BY <2>1 DEF RoundDown
    <2> QED BY <1>3, <2>1, <2>2 DEF ValidPrice, TickOf
  <1>4. CASE c >= 200000 /\ c < 500000
    <2>1. TickOf(c) = 10
      BY <1>4 DEF TickOf
    <2>2. RoundDown(c) = (c \div 1000) * 10
      BY <2>1 DEF RoundDown
    <2> QED BY <1>4, <2>1, <2>2 DEF ValidPrice, TickOf
  <1>5. CASE c >= 500000
    <2>1. TickOf(c) = 25
      BY <1>5 DEF TickOf
    <2>2. RoundDown(c) = (c \div 2500) * 25
      BY <2>1 DEF RoundDown
    <2> QED BY <1>5, <2>1, <2>2 DEF ValidPrice, TickOf
  <1> QED BY <1>1, <1>2, <1>3, <1>4, <1>5

(* Rounding up gives the lowest valid price that is not below; it may be the first of the next level. *)
LEMMA RoundUpRight ==
  ASSUME NEW c \in Nat
  PROVE  /\ RoundUp(c) \in Nat /\ ValidPrice(RoundUp(c)) /\ 100 * RoundUp(c) >= c
         /\ 100 * (RoundUp(c) - TickOf(c)) < c
         /\ \A p \in Nat : p < RoundUp(c) /\ 100 * p >= c => ~ValidPrice(p)
  <1>1. CASE c < 20000
    <2>1. TickOf(c) = 1
      BY <1>1 DEF TickOf
    <2>2. RoundUp(c) = ((c + 99) \div 100) * 1
      BY <2>1 DEF RoundUp
    <2> QED BY <1>1, <2>1, <2>2 DEF ValidPrice, TickOf
  <1>2. CASE c >= 20000 /\ c < 50000
    <2>1. TickOf(c) = 2
      BY <1>2 DEF TickOf
    <2>2. RoundUp(c) = ((c + 199) \div 200) * 2
      BY <2>1 DEF RoundUp
    <2> QED BY <1>2, <2>1, <2>2 DEF ValidPrice, TickOf
  <1>3. CASE c >= 50000 /\ c < 200000
    <2>1. TickOf(c) = 5
      BY <1>3 DEF TickOf
    <2>2. RoundUp(c) = ((c + 499) \div 500) * 5
      BY <2>1 DEF RoundUp
    <2> QED BY <1>3, <2>1, <2>2 DEF ValidPrice, TickOf
  <1>4. CASE c >= 200000 /\ c < 500000
    <2>1. TickOf(c) = 10
      BY <1>4 DEF TickOf
    <2>2. RoundUp(c) = ((c + 999) \div 1000) * 10
      BY <2>1 DEF RoundUp
    <2> QED BY <1>4, <2>1, <2>2 DEF ValidPrice, TickOf
  <1>5. CASE c >= 500000
    <2>1. TickOf(c) = 25
      BY <1>5 DEF TickOf
    <2>2. RoundUp(c) = ((c + 2499) \div 2500) * 25
      BY <2>1 DEF RoundUp
    <2> QED BY <1>5, <2>1, <2>2 DEF ValidPrice, TickOf
  <1> QED BY <1>1, <1>2, <1>3, <1>4, <1>5

(* What the edges of the band and the floors of the boards are. *)
LEMMA BandEdges ==
  ASSUME NEW prevClose \in Nat, NEW fca \in BOOLEAN
  PROVE  /\ UpperEdge(prevClose, fca) \in Nat /\ LowerEdge(prevClose, fca) \in Nat /\ BandPct(prevClose, fca) \in {10, 20, 25, 35}
         /\ Floor(fca) \in {1, 50} /\ ValidPrice(Floor(fca))
  <1>1. BandPct(prevClose, fca) \in {10, 20, 25, 35}
    BY DEF BandPct
  <1>2. UpperEdge(prevClose, fca) \in Nat /\ LowerEdge(prevClose, fca) \in Nat
    BY <1>1 DEF UpperEdge, LowerEdge
  <1> QED BY <1>1, <1>2 DEF Floor, ValidPrice, TickOf, RegularMinPrice, FcaMinPrice

(* The upper limit is the right one ... *)
LEMMA ARARight == ASSUME NEW prevClose \in Nat, NEW fca \in BOOLEAN PROVE ARAIsHighestValid(prevClose, fca)
  <1>1. ARA(prevClose, fca) = RoundDown(UpperEdge(prevClose, fca))
    BY DEF ARA, UpperEdge
  <1>2. RoundDown(UpperEdge(prevClose, fca)) \in Nat
    BY BandEdges, RoundDownRight
  <1>3. ASSUME NEW p \in RoundDown(UpperEdge(prevClose, fca)) + 1 .. UpperEdge(prevClose, fca) \div 100 PROVE ~ValidPrice(p)
    <2>1. UpperEdge(prevClose, fca) \in Nat
      BY BandEdges
    <2>2. p \in Nat /\ RoundDown(UpperEdge(prevClose, fca)) < p /\ 100 * p <= UpperEdge(prevClose, fca)
      BY <1>2, <2>1
    <2> QED BY <2>1, <2>2, RoundDownRight
  <1> QED BY <1>1, <1>3, BandEdges, RoundDownRight DEF ARAIsHighestValid

(* ... and so is the lower one, also where the floor replaces it. *)
LEMMA ARBRight == ASSUME NEW prevClose \in Nat, NEW fca \in BOOLEAN PROVE ARBIsLowestValid(prevClose, fca)
  <1>1. ARB(prevClose, fca) =
          IF RoundUp(LowerEdge(prevClose, fca)) > Floor(fca) THEN RoundUp(LowerEdge(prevClose, fca)) ELSE Floor(fca)
    BY DEF ARB, LowerEdge
  <1>2. /\ RoundUp(LowerEdge(prevClose, fca)) \in Nat /\ ValidPrice(RoundUp(LowerEdge(prevClose, fca)))
        /\ 100 * RoundUp(LowerEdge(prevClose, fca)) >= LowerEdge(prevClose, fca)
    BY BandEdges, RoundUpRight
  <1>3. ASSUME NEW p \in (LowerEdge(prevClose, fca) + 99) \div 100 .. ARB(prevClose, fca) - 1, p >= Floor(fca) PROVE ~ValidPrice(p)
    <2>1. LowerEdge(prevClose, fca) \in Nat /\ Floor(fca) \in Nat
      BY BandEdges
    <2>2. p \in Nat /\ p < RoundUp(LowerEdge(prevClose, fca)) /\ 100 * p >= LowerEdge(prevClose, fca)
      BY <1>1, <1>2, <1>3, <2>1
    <2> QED BY <2>1, <2>2, RoundUpRight
  <1> QED BY <1>1, <1>2, <1>3, BandEdges DEF ARBIsLowestValid

(* The band is wider than the tick it is rounded to, so the close stays within. *)
LEMMA CloseRight == ASSUME NEW prevClose \in Nat, NEW fca \in BOOLEAN PROVE CloseIsTradable(prevClose, fca)
  <1> SUFFICES ASSUME prevClose >= Floor(fca)
               PROVE  ARB(prevClose, fca) <= prevClose /\ prevClose <= ARA(prevClose, fca)
    BY DEF CloseIsTradable
  <1>1. prevClose <= ARA(prevClose, fca)
    <2>1. ARA(prevClose, fca) = RoundDown(UpperEdge(prevClose, fca))
      BY DEF ARA, UpperEdge
    <2>2. /\ RoundDown(UpperEdge(prevClose, fca)) \in Nat
          /\ UpperEdge(prevClose, fca) < 100 * (RoundDown(UpperEdge(prevClose, fca)) + TickOf(UpperEdge(prevClose, fca)))
      BY BandEdges, RoundDownRight
    <2>3. 100 * prevClose <= UpperEdge(prevClose, fca) - 100 * (TickOf(UpperEdge(prevClose, fca)) - 1)
      BY BandEdges DEF UpperEdge, TickOf, BandPct
    <2>4. TickOf(UpperEdge(prevClose, fca)) \in Nat
      BY BandEdges DEF TickOf
    <2> QED BY <2>1, <2>2, <2>3, <2>4, BandEdges
  <1>2. ARB(prevClose, fca) <= prevClose
    <2>1. ARB(prevClose, fca) =
          IF RoundUp(LowerEdge(prevClose, fca)) > Floor(fca) THEN RoundUp(LowerEdge(prevClose, fca)) ELSE Floor(fca)
      BY DEF ARB, LowerEdge
    <2>2. /\ RoundUp(LowerEdge(prevClose, fca)) \in Nat
          /\ 100 * (RoundUp(LowerEdge(prevClose, fca)) - TickOf(LowerEdge(prevClose, fca))) < LowerEdge(prevClose, fca)
      BY BandEdges, RoundUpRight
    <2>3. LowerEdge(prevClose, fca) + 100 * (TickOf(LowerEdge(prevClose, fca)) - 1) <= 100 * prevClose
      BY BandEdges DEF LowerEdge, TickOf, BandPct
    <2>4. TickOf(LowerEdge(prevClose, fca)) \in Nat
      BY BandEdges DEF TickOf
    <2> QED BY <2>1, <2>2, <2>3, <2>4, BandEdges
  <1> QED BY <1>1, <1>2

(* The limits of calculate_idx_limits are the extreme valid prices of the band, and every legal close can be traded at,
   for all whole previous closes on both boards. *)
THEOREM LimitsAlwaysRight ==
  ASSUME NEW prevClose \in Nat, NEW fca \in BOOLEAN
  PROVE  BandIsRight(prevClose, fca)
  BY ARARight, ARBRight, CloseRight DEF BandIsRight

(* OrderSound: an order's quantities and its trail say what its state says,  *)
(* for every order size and sequence of transitions and fills.               *)
THEOREM OrderIsSound == Spec => []OrderSound
  BY OrderAlwaysConsistent, TrailAlwaysReplays, PTL DEF OrderSound
=============================================================================
