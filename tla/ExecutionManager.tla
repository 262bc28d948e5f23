-------------------------- MODULE ExecutionManager --------------------------
(***************************************************************************)
(* The execution manager, src/execution/manager.py: pre-trade checks,      *)
(* market orders, the queue of pending limit orders, the daily-loss        *)
(* freeze, the startup import of the broker's open orders and the          *)
(* reconciliation of an expected state with the broker's.                  *)
(*                                                                         *)
(* Several threads call it.  Its lock _state_lock is held only for a few   *)
(* lines at a time and never across a call to the broker, so one action    *)
(* here is one locked section or one call to the broker, and a thread's    *)
(* program counter says which one comes next.                              *)
(*                                                                         *)
(* An operator that stands just before another with the same parameters    *)
(* and a name that extends or opposes its name (FirstIdZero before         *)
(* FirstId, RemoveNothing before ToRemove) is a wrong variant of it:       *)
(* PROJECT.json names the property that must fail when it is put in place. *)
(***************************************************************************)
EXTENDS PaperBroker, IdxRules, Sequences, FiniteSets, Functions, FiniteSetsExt

CONSTANTS
  Threads,        \* the threads that call the manager
  Role,           \* Role[t]: the operations thread t may call
  Qtys, Prices,   \* quantities and prices of orders and market ticks
  PrevCloses,     \* previous closes callers pass (NoPrice: none passed)
  MaxPosition,    \* max_position_per_symbol
  MaxNotional,    \* max_total_notional
  LossLimitPct,   \* daily_loss_limit, in percent
  RequireSync,    \* require_startup_sync
  BrokerIds,      \* order ids only the broker makes up
  ActiveOrders,   \* the lists get_active_orders may answer with
  SyncAnswers,    \* how it may answer: "orders", "error", "unavailable"
  SyncLimit,      \* sync_open_orders_on_startup(limit)
  BrokerFaults,   \* how _place may raise: "refused", "lost_ack"
  OutOfBand,      \* may the account be traded behind the manager's back?
  MaxCalls,       \* bound: operations started
  MaxRestarts,    \* bound: process restarts
  None            \* Python's None, where a number is expected

VARIABLES
  startBalance,       \* _start_balance
  frozen,             \* _frozen
  pending,            \* pending_orders, a function from ids to orders
  nextOrderId,        \* _next_order_id; the id "lim-n" is the number n
  expectedPositions,  \* _expected_positions, a function on some symbols
  expectedCash,       \* _expected_cash
  syncCompleted,      \* _startup_sync_completed
  syncCalled,         \* has this process called the startup sync?
  pc,                 \* where each thread is
  call,               \* arguments and locals of its order checks
  batch,              \* locals of its process_market_tick
  view,               \* its snapshots of positions and cash
  import,             \* locals of its startup sync
  fate,               \* history: what became of each order, oldest first
  drift,              \* history: has a reconcile_drift alert been raised?
  calls, restarts     \* bounds

dayVars     == <<startBalance, frozen>>
queueVars   == <<pending, nextOrderId>>
expectVars  == <<expectedPositions, expectedCash>>
syncVars    == <<syncCompleted, syncCalled>>
managerVars == <<dayVars, queueVars, expectVars, syncVars>>
threadVars  == <<pc, call, batch, view, import>>
auxVars     == <<drift, calls, restarts>>
vars == <<brokerVars, managerVars, threadVars, fate, auxVars>>

-----------------------------------------------------------------------------
(* Orders, ids and the queue. *)

NoPrice == 0
NoId    == 0
Sides   == {"buy", "sell"}
IdSpace == (Nat \ {0}) \cup BrokerIds

Order == [symbol : Symbols, side : Sides, qty : Qtys, price : Prices,
          prevClose : PrevCloses]

(* An open order as the broker reports it; open = FALSE stands for the ones *)
(* the import skips (closed, or lacking a symbol, side, quantity or price). *)
RawOrder == [id : IdSpace \cup {NoId}, open : BOOLEAN, order : Order]

ASSUME ManagerAssumption ==
  /\ Prices \subseteq Nat \ {0}
  /\ Qtys \subseteq Nat
  /\ StartingCash \in Nat
  /\ RequireSync \in BOOLEAN
  /\ BrokerIds \cap Int = {}
  /\ None \notin Int
  /\ MaxCalls \in Nat /\ MaxRestarts \in Nat
  /\ SyncLimit \in Nat
  /\ ActiveOrders \subseteq Seq(RawOrder)

EmptyQueue == [i \in {} |-> NoPrice]
Put(queue, id, order) ==
  [i \in DOMAIN queue \cup {id} |-> IF i = id THEN order ELSE queue[i]]
Drop(queue, ids) == [i \in DOMAIN queue \ ids |-> queue[i]]

(* A limit order triggers when the market reaches its price. *)
Triggered(order, symbol, price) ==
  /\ order.symbol = symbol
  /\ order.side = "buy"  => price <= order.price
  /\ order.side = "sell" => price >= order.price

(* The reference price of the ARA/ARB check. *)
Reference(prevClose, price) == IF prevClose = NoPrice THEN price ELSE prevClose

(* History: event e happens to the orders in ids. *)
FateOf(id) == IF id \in DOMAIN fate THEN fate[id] ELSE <<>>
Record(ids, e) ==
  fate' = [i \in DOMAIN fate \cup ids |->
             IF i \in ids THEN Append(FateOf(i), e) ELSE FateOf(i)]

-----------------------------------------------------------------------------
(* Threads.  A thread that returns forgets its locals. *)

NoCall   == [op |-> "none", stage |-> "pre", symbol |-> None, side |-> None,
             qty |-> 0, price |-> NoPrice, prevClose |-> NoPrice,
             id |-> NoId, base |-> None]
CallFor(op, order) ==
  [NoCall EXCEPT !.op = op, !.symbol = order.symbol, !.side = order.side,
                 !.qty = order.qty, !.price = order.price,
                 !.prevClose = order.prevClose]
NoBatch  == [snapshot |-> EmptyQueue, todo |-> {}, done |-> {}]
ViewOf(quantities, money) ==
  [positions |-> quantities, actual |-> EmptyQueue, cash |-> money]
NoView   == ViewOf(EmptyQueue, None)
ImportOf(source) == [source |-> source, queue |-> EmptyQueue, top |-> 0]
NoImport == ImportOf(<<>>)

Goto(t, label)  == pc' = [pc EXCEPT ![t] = label]

Return(t) ==
  /\ Goto(t, "idle")
  /\ call' = [call EXCEPT ![t] = NoCall]
  /\ batch' = [batch EXCEPT ![t] = NoBatch]
  /\ view' = [view EXCEPT ![t] = NoView]
  /\ import' = [import EXCEPT ![t] = NoImport]

(* The environment calls operation op on an idle thread whose job it is. *)
Start(t, op) ==
  /\ pc[t] = "idle"
  /\ op \in Role[t]
  /\ calls < MaxCalls
  /\ calls' = calls + 1
  /\ UNCHANGED <<drift, restarts>>

FirstIdZero == 0

FirstId == 1

(* What __init__ leaves behind; day is the balance start_day recorded, or  *)
(* None when it has not been called.                                       *)
NewManager(day) ==
  /\ startBalance = day
  /\ frozen = FALSE
  /\ pending = EmptyQueue
  /\ nextOrderId = FirstId
  /\ expectedPositions = EmptyQueue
  /\ expectedCash = day
  /\ syncCompleted = ~RequireSync
  /\ syncCalled = FALSE

IdleThreads ==
  /\ pc = [t \in Threads |-> "idle"]
  /\ call = [t \in Threads |-> NoCall]
  /\ batch = [t \in Threads |-> NoBatch]
  /\ view = [t \in Threads |-> NoView]
  /\ import = [t \in Threads |-> NoImport]

(* Every caller of start_day in the repository starts the day before it    *)
(* shares the manager with other threads; the API server never starts one. *)
Init ==
  /\ BrokerInit
  /\ \E day \in {None, cash} : NewManager(day)
  /\ IdleThreads
  /\ fate = EmptyQueue
  /\ drift = FALSE
  /\ calls = 0
  /\ restarts = 0

-----------------------------------------------------------------------------
(* pre_trade_check, for the order in call[t].                              *)

(* An order that fails the check: place_order returns; process_market_tick *)
(* notes the order for removal and goes on with the next one.              *)
Processed(t, event) ==
  /\ Goto(t, "tick_next")
  /\ batch' = [batch EXCEPT ![t].todo = @ \ {call[t].id},
                            ![t].done = @ \cup {call[t].id}]
  /\ Record({call[t].id}, event)
  /\ UNCHANGED <<call, view, import>>

RejectCall(t) ==
  \/ call[t].op = "order" /\ Return(t) /\ UNCHANGED fate
  \/ call[t].op = "tick"  /\ Processed(t, "rejected")

Advance(t, label) ==
  /\ Goto(t, label)
  /\ UNCHANGED <<call, batch, view, import, fate>>

ClosedFrozen == frozen

Closed == frozen \/ (RequireSync /\ ~syncCompleted)

Gate(t) ==
  /\ pc[t] = "gate"
  /\ \/ Closed /\ RejectCall(t)
     \/ ~Closed /\ Advance(t, "limits")
  /\ UNCHANGED <<brokerVars, managerVars, auxVars>>

(* Quantity, position limit and auto-reject band: the checks both order    *)
(* paths make on the broker's positions.                                   *)
OrderAllowedHeld(c) ==
  /\ c.qty > 0
  /\ c.side = "buy" => positions[c.symbol] <= MaxPosition
  /\ WithinBand(c.side, c.price, Reference(c.prevClose, c.price))

OrderAllowed(c) ==
  /\ c.qty > 0
  /\ c.side = "buy" => positions[c.symbol] + c.qty <= MaxPosition
  /\ WithinBand(c.side, c.price, Reference(c.prevClose, c.price))

TotalHeld == FoldFunction(LAMBDA x, y : x + y, 0, positions)

(* The notional check prices every holding at the order's own price. *)
NotionalAllowed(c) == (TotalHeld + c.qty) * c.price <= MaxNotional

Limits(t) ==
  /\ pc[t] = "limits"
  /\ \/ /\ OrderAllowed(call[t]) /\ NotionalAllowed(call[t])
        /\ Advance(t, "loss_read")
     \/ /\ ~(OrderAllowed(call[t]) /\ NotionalAllowed(call[t]))
        /\ RejectCall(t)
  /\ UNCHANGED <<brokerVars, managerVars, auxVars>>

(* _check_daily_loss runs before a trade, where failing rejects the order, *)
(* and after it, where the caller ignores the answer.                      *)
LossCheckPassed(t) ==
  \/ call[t].stage = "pre"  /\ Advance(t, "place")
  \/ call[t].stage = "post" /\ Return(t) /\ UNCHANGED fate

LossCheckFailed(t) ==
  \/ call[t].stage = "pre"  /\ Advance(t, "loss_failed")
  \/ call[t].stage = "post" /\ Return(t) /\ UNCHANGED fate

NoBaseline == startBalance = None \/ (startBalance # None /\ startBalance <= 0)

LossRead(t) ==
  /\ pc[t] = "loss_read"
  /\ \/ NoBaseline /\ LossCheckPassed(t)
     \/ ~NoBaseline /\ frozen /\ LossCheckFailed(t)
     \/ /\ ~NoBaseline /\ ~frozen
        /\ Goto(t, "loss_balance")
        /\ call' = [call EXCEPT ![t].base = startBalance]
        /\ UNCHANGED <<batch, view, import, fate>>
  /\ UNCHANGED <<brokerVars, managerVars, auxVars>>

(* loss >= daily_loss_limit, the balance being taken with the one price    *)
(* the caller names.                                                       *)
LossReached(base, symbol, price) ==
  (base - Balance(symbol, price)) * 100 >= LossLimitPct * base

LossBalance(t) ==
  LET reached == LossReached(call[t].base, call[t].symbol, call[t].price)
  IN  /\ pc[t] = "loss_balance"
      /\ \/ reached /\ Advance(t, "freeze")
         \/ ~reached /\ LossCheckPassed(t)
      /\ UNCHANGED <<brokerVars, managerVars, auxVars>>

(* The queue is emptied (_drain_pending_orders_locked) unless another      *)
(* thread froze the day first; each order that was in it is cancelled.     *)
DrainNothing == {}

Drained == IF frozen THEN {} ELSE DOMAIN pending

AfterFreezeGoOn(t) ==
  IF call[t].stage = "pre"
  THEN Goto(t, "place") /\ UNCHANGED <<call, batch, view, import>>
  ELSE Return(t)

AfterFreeze(t) ==
  IF call[t].stage = "pre"
  THEN Goto(t, "loss_failed") /\ UNCHANGED <<call, batch, view, import>>
  ELSE Return(t)

Freeze(t) ==
  /\ pc[t] = "freeze"
  /\ frozen' = TRUE
  /\ pending' = Drop(pending, Drained)
  /\ Record(Drained, "cancelled")
  /\ AfterFreeze(t)
  /\ UNCHANGED <<brokerVars, startBalance, nextOrderId, expectVars, syncVars,
                 auxVars>>

LossFailed(t) ==
  /\ pc[t] = "loss_failed"
  /\ RejectCall(t)
  /\ UNCHANGED <<brokerVars, managerVars, auxVars>>

-----------------------------------------------------------------------------
(* place_order and the fill of a triggered limit order.                    *)

StartOrder(t, order) ==
  /\ Start(t, "order")
  /\ Goto(t, "gate")
  /\ call' = [call EXCEPT ![t] = CallFor("order", order)]
  /\ UNCHANGED <<brokerVars, managerVars, batch, view, import, fate>>

PlaceFills(t) ==
  /\ pc[t] = "place"
  /\ Fill(call[t].symbol, call[t].side, call[t].qty, call[t].price)
  /\ Goto(t, "apply")
  /\ IF call[t].op = "tick" THEN Record({call[t].id}, "filled")
                            ELSE UNCHANGED fate
  /\ UNCHANGED <<managerVars, call, batch, view, import, auxVars>>

(* The broker says "rejected".  place_order still runs its second daily    *)
(* loss check.                                                             *)
PlaceRejected(t) ==
  /\ pc[t] = "place"
  /\ ~CanFill(call[t].symbol, call[t].side, call[t].qty, call[t].price)
  /\ \/ /\ call[t].op = "order"
        /\ Goto(t, "loss_read")
        /\ call' = [call EXCEPT ![t].stage = "post"]
        /\ UNCHANGED <<batch, view, import, fate>>
     \/ call[t].op = "tick" /\ Processed(t, "rejected")
  /\ UNCHANGED <<brokerVars, managerVars, auxVars>>

(* _place raises, before the broker acted on the order or after.  Nothing  *)
(* catches the exception: place_order and process_market_tick end there,   *)
(* the latter without removing the orders it has already processed.        *)
PlaceRaises(t) ==
  /\ pc[t] = "place"
  /\ \/ /\ "refused" \in BrokerFaults
        /\ UNCHANGED <<brokerVars, fate>>
     \/ /\ "lost_ack" \in BrokerFaults
        /\ Fill(call[t].symbol, call[t].side, call[t].qty, call[t].price)
        /\ IF call[t].op = "tick" THEN Record({call[t].id}, "filled")
                                  ELSE UNCHANGED fate
  /\ Return(t)
  /\ UNCHANGED <<managerVars, auxVars>>

(* _apply_trade_to_expected, in a lock section of its own. *)
Expected(symbol) ==
  IF symbol \in DOMAIN expectedPositions THEN expectedPositions[symbol] ELSE 0

Signed(c) == IF c.side = "buy" THEN c.qty ELSE -c.qty
GainGross(c) == IF c.side = "buy" THEN -BuyCost(c.qty, c.price)
                                  ELSE Unit * c.qty * c.price
Gain(c)   == IF c.side = "buy" THEN -BuyCost(c.qty, c.price)
                               ELSE SellNet(c.qty, c.price)

ApplyToExpected(c) ==
  /\ expectedPositions' = Put(expectedPositions, c.symbol,
                              Expected(c.symbol) + Signed(c))
  /\ expectedCash' = IF expectedCash = None THEN None
                                            ELSE expectedCash + Gain(c)

Apply(t) ==
  /\ pc[t] = "apply"
  /\ ApplyToExpected(call[t])
  /\ \/ /\ call[t].op = "order"
        /\ Goto(t, "loss_read")
        /\ call' = [call EXCEPT ![t].stage = "post"]
        /\ UNCHANGED batch
     \/ /\ call[t].op = "tick"
        /\ Goto(t, "tick_next")
        /\ batch' = [batch EXCEPT ![t].todo = @ \ {call[t].id},
                                  ![t].done = @ \cup {call[t].id}]
        /\ UNCHANGED call
  /\ UNCHANGED <<brokerVars, dayVars, queueVars, syncVars, view, import, fate,
                 auxVars>>

-----------------------------------------------------------------------------
(* place_limit_order and the cancellations.                                *)

(* It asks only whether the day is frozen, not whether the startup sync    *)
(* has been made.                                                          *)
StartLimit(t, order) ==
  /\ Start(t, "limit")
  /\ ~frozen
  /\ Goto(t, "limit_check")
  /\ call' = [call EXCEPT ![t] = CallFor("limit", order)]
  /\ UNCHANGED <<brokerVars, managerVars, batch, view, import, fate>>

LimitCheck(t) ==
  /\ pc[t] = "limit_check"
  /\ IF OrderAllowed(call[t])
     THEN Goto(t, "limit_id") /\ UNCHANGED <<call, batch, view, import>>
     ELSE Return(t)
  /\ UNCHANGED <<brokerVars, managerVars, fate, auxVars>>

(* _generate_order_id *)
SameId(n) == n
IdAfter(n) == n + 1

LimitId(t) ==
  /\ pc[t] = "limit_id"
  /\ call' = [call EXCEPT ![t].id = nextOrderId]
  /\ nextOrderId' = IdAfter(nextOrderId)
  /\ Goto(t, "limit_queue")
  /\ UNCHANGED <<brokerVars, dayVars, pending, expectVars, syncVars, batch,
                 view, import, fate, auxVars>>

OrderOf(c) == [symbol |-> c.symbol, side |-> c.side, qty |-> c.qty,
               price |-> c.price, prevClose |-> c.prevClose]

LimitQueue(t) ==
  /\ pc[t] = "limit_queue"
  /\ pending' = Put(pending, call[t].id, OrderOf(call[t]))
  /\ Record({call[t].id}, "queued")
  /\ Return(t)
  /\ UNCHANGED <<brokerVars, dayVars, nextOrderId, expectVars, syncVars,
                 auxVars>>

(* cancel_limit_order, cancel_all_pending_for_symbol and                   *)
(* cancel_all_pending_orders each remove their orders in one lock section. *)
Cancel(t, ids) ==
  /\ Start(t, "cancel")
  /\ ids # {} /\ ids \subseteq DOMAIN pending
  /\ pending' = Drop(pending, ids)
  /\ Record(ids, "cancelled")
  /\ UNCHANGED <<brokerVars, dayVars, nextOrderId, expectVars, syncVars,
                 threadVars>>

CancelLimitOrder(t, id) == Cancel(t, {id})
CancelAllForSymbol(t, symbol) ==
  Cancel(t, {i \in DOMAIN pending : pending[i].symbol = symbol})
CancelAll(t) == Cancel(t, DOMAIN pending)

-----------------------------------------------------------------------------
(* process_market_tick({symbol: price}).                                   *)

(* The first lock section copies the queue; which of the copied orders     *)
(* trigger depends on nothing that can change later.                       *)
StartTick(t, symbol, price) ==
  /\ Start(t, "tick")
  /\ ~frozen
  /\ Goto(t, "tick_next")
  /\ call' = [call EXCEPT ![t] =
                [NoCall EXCEPT !.op = "tick", !.symbol = symbol,
                               !.price = price]]
  /\ batch' = [batch EXCEPT ![t] =
                 [snapshot |-> pending,
                  todo |-> {i \in DOMAIN pending :
                              Triggered(pending[i], symbol, price)},
                  done |-> {}]]
  /\ UNCHANGED <<brokerVars, managerVars, view, import, fate>>

(* The next copied order, in any order: one that has left the queue is     *)
(* skipped, any other goes through the pre-trade check.                    *)
TickNext(t, id) ==
  /\ pc[t] = "tick_next"
  /\ id \in batch[t].todo
  /\ \/ /\ id \notin DOMAIN pending
        /\ batch' = [batch EXCEPT ![t].todo = @ \ {id}]
        /\ UNCHANGED <<pc, call>>
     \/ /\ id \in DOMAIN pending
        /\ LET order == batch[t].snapshot[id]
           IN  call' = [call EXCEPT ![t].id = id,
                                    ![t].side = order.side,
                                    ![t].qty = order.qty,
                                    ![t].prevClose = order.prevClose]
        /\ Goto(t, "gate")
        /\ UNCHANGED batch
  /\ UNCHANGED <<brokerVars, managerVars, view, import, fate, auxVars>>

(* Only now do the processed orders leave the queue. *)
RemoveNothing(t) == {}
RemoveSnapshot(t) == DOMAIN batch[t].snapshot
ToRemove(t) == batch[t].done

TickEnd(t) ==
  /\ pc[t] = "tick_next"
  /\ batch[t].todo = {}
  /\ pending' = Drop(pending, ToRemove(t))
  /\ batch' = [batch EXCEPT ![t] = NoBatch]
  /\ call' = [call EXCEPT ![t].stage = "post"]
  /\ Goto(t, "loss_read")
  /\ UNCHANGED <<brokerVars, dayVars, nextOrderId, expectVars, syncVars, view,
                 import, fate, auxVars>>

-----------------------------------------------------------------------------
(* start_day({symbol: price}): the balance, the lock, the positions, the   *)
(* cash, the lock again.                                                   *)

StartDay(t, symbol, price) ==
  /\ Start(t, "day")
  /\ Goto(t, "day_reset")
  /\ call' = [call EXCEPT ![t] =
                [NoCall EXCEPT !.op = "day", !.base = Balance(symbol, price)]]
  /\ UNCHANGED <<brokerVars, managerVars, batch, view, import, fate>>

DayReset(t) ==
  /\ pc[t] = "day_reset"
  /\ startBalance' = call[t].base
  /\ frozen' = FALSE
  /\ Goto(t, "day_positions")
  /\ UNCHANGED <<brokerVars, queueVars, expectVars, syncVars, call, batch,
                 view, import, fate, auxVars>>

HeldPositions == [s \in Held |-> positions[s]]

DayPositions(t) ==
  /\ pc[t] = "day_positions"
  /\ view' = [view EXCEPT ![t].positions = HeldPositions]
  /\ Goto(t, "day_cash")
  /\ UNCHANGED <<brokerVars, managerVars, call, batch, import, fate, auxVars>>

DayCash(t) ==
  /\ pc[t] = "day_cash"
  /\ view' = [view EXCEPT ![t].cash = cash]
  /\ Goto(t, "day_expect")
  /\ UNCHANGED <<brokerVars, managerVars, call, batch, import, fate, auxVars>>

DayExpect(t) ==
  /\ pc[t] = "day_expect"
  /\ expectedPositions' = view[t].positions
  /\ expectedCash' = view[t].cash
  /\ Return(t)
  /\ UNCHANGED <<brokerVars, dayVars, queueVars, syncVars, fate, auxVars>>

-----------------------------------------------------------------------------
(* sync_open_orders_on_startup, which the API server calls once, when its  *)
(* process starts, before or while other threads use the manager.          *)

Limited(answer) ==      \* source_orders[:safe_limit]
  IF Len(answer) < SyncLimit THEN answer ELSE SubSeq(answer, 1, SyncLimit)

StartSync(t) ==
  /\ Start(t, "sync")
  /\ ~syncCalled
  /\ syncCalled' = TRUE
  /\ \/ /\ ~RequireSync \/ "unavailable" \in SyncAnswers
        /\ syncCompleted' = TRUE
        /\ UNCHANGED threadVars
     \/ /\ RequireSync /\ "error" \in SyncAnswers
        /\ syncCompleted' = FALSE
        /\ UNCHANGED threadVars
     \/ /\ RequireSync /\ "orders" \in SyncAnswers
        /\ Goto(t, "sync_import")
        /\ \E answer \in ActiveOrders :
             import' = [import EXCEPT ![t] = ImportOf(Limited(answer))]
        /\ UNCHANGED <<syncCompleted, call, batch, view>>
  /\ UNCHANGED <<brokerVars, dayVars, queueVars, expectVars, fate>>

(* One raw order: skipped when it is closed or malformed (such orders have *)
(* open = FALSE here), else imported under its own id or a generated one.  *)
SyncImport(t) ==
  /\ pc[t] = "sync_import"
  /\ import[t].source # <<>>
  /\ LET raw == Head(import[t].source)
         id  == IF raw.id = NoId THEN nextOrderId ELSE raw.id
         top == IF id \in Nat /\ id > import[t].top THEN id ELSE import[t].top
     IN  IF raw.open
         THEN /\ import' = [import EXCEPT
                              ![t] = [source |-> Tail(@.source),
                                      queue  |-> Put(@.queue, id, raw.order),
                                      top    |-> top]]
              /\ nextOrderId' = IF raw.id = NoId THEN IdAfter(nextOrderId)
                                                 ELSE nextOrderId
         ELSE /\ import' = [import EXCEPT ![t].source = Tail(@)]
              /\ UNCHANGED nextOrderId
  /\ UNCHANGED <<brokerVars, dayVars, pending, expectVars, syncVars, pc, call,
                 batch, view, fate, auxVars>>

(* The imported queue REPLACES the pending one, and the id counter moves   *)
(* past every imported "lim-n" (top is the largest such n).                *)
IdAfterImportStays(top) == nextOrderId + 0 * top
IdAfterImport(top) == IF nextOrderId > top THEN nextOrderId ELSE top + 1

SyncCommit(t) ==
  /\ pc[t] = "sync_import"
  /\ import[t].source = <<>>
  /\ pending' = import[t].queue
  /\ nextOrderId' = IdAfterImport(import[t].top)
  /\ syncCompleted' = TRUE
  /\ Record(DOMAIN import[t].queue, "queued")
  /\ Return(t)
  /\ UNCHANGED <<brokerVars, dayVars, expectVars, syncCalled, auxVars>>

-----------------------------------------------------------------------------
(* reconcile_once: the expected state is copied under the lock; without    *)
(* any expected position the account's own are taken instead; the adapter  *)
(* then reads the account's positions and its cash, one after the other,   *)
(* and compares.                                                           *)

StartReconcile(t) ==
  /\ Start(t, "reconcile")
  /\ Goto(t, IF expectedPositions = EmptyQueue THEN "recon_default"
                                               ELSE "recon_read")
  /\ view' = [view EXCEPT ![t] = ViewOf(expectedPositions, expectedCash)]
  /\ UNCHANGED <<brokerVars, managerVars, call, batch, import, fate>>

ReconcileDefault(t) ==
  /\ pc[t] = "recon_default"
  /\ view' = [view EXCEPT ![t].positions = HeldPositions]
  /\ Goto(t, "recon_read")
  /\ UNCHANGED <<brokerVars, managerVars, call, batch, import, fate, auxVars>>

ReconcileRead(t) ==
  /\ pc[t] = "recon_read"
  /\ view' = [view EXCEPT ![t].actual = positions]
  /\ Goto(t, "recon_compare")
  /\ UNCHANGED <<brokerVars, managerVars, call, batch, import, fate, auxVars>>

(* reconcile_with_expected looks only at the symbols it is given. *)
ReportOkHoldings(v) ==
  \A s \in DOMAIN v.positions : v.positions[s] = v.actual[s]

ReportOk(v) ==
  /\ \A s \in DOMAIN v.positions : v.positions[s] = v.actual[s]
  /\ v.cash # None => v.cash = cash

ReconcileCompare(t) ==
  /\ pc[t] = "recon_compare"
  /\ drift' = (drift \/ ~ReportOk(view[t]))
  /\ Return(t)
  /\ UNCHANGED <<brokerVars, managerVars, fate, calls, restarts>>

-----------------------------------------------------------------------------
(* The environment: somebody trades the account directly; the process dies *)
(* and starts again, with a manager that knows nothing, while the broker   *)
(* lives on.                                                               *)

TradeOutOfBand(symbol, side, qty, price) ==
  /\ OutOfBand /\ calls < MaxCalls
  /\ calls' = calls + 1
  /\ Fill(symbol, side, qty, price)
  /\ UNCHANGED <<managerVars, threadVars, fate, drift, restarts>>

Restart ==
  /\ restarts < MaxRestarts
  /\ restarts' = restarts + 1
  /\ startBalance' = None /\ frozen' = FALSE
  /\ pending' = EmptyQueue /\ nextOrderId' = FirstId
  /\ expectedPositions' = EmptyQueue /\ expectedCash' = None
  /\ syncCompleted' = ~RequireSync /\ syncCalled' = FALSE
  /\ pc' = [t \in Threads |-> "idle"]
  /\ call' = [t \in Threads |-> NoCall]
  /\ batch' = [t \in Threads |-> NoBatch]
  /\ view' = [t \in Threads |-> NoView]
  /\ import' = [t \in Threads |-> NoImport]
  /\ fate' = EmptyQueue /\ drift' = FALSE
  /\ UNCHANGED <<brokerVars, calls>>

-----------------------------------------------------------------------------
(* The operations a thread starts, and the steps it takes inside them. *)

NewCall(t) ==
  \/ \E o \in Order : StartOrder(t, o) \/ StartLimit(t, o)
  \/ \E i \in DOMAIN pending : CancelLimitOrder(t, i)
  \/ \E s \in Symbols : CancelAllForSymbol(t, s)
  \/ CancelAll(t)
  \/ \E s \in Symbols, p \in Prices : StartTick(t, s, p) \/ StartDay(t, s, p)
  \/ StartSync(t)
  \/ StartReconcile(t)

Step(t) ==
  \/ Gate(t) \/ Limits(t)
  \/ LossRead(t) \/ LossBalance(t) \/ Freeze(t) \/ LossFailed(t)
  \/ PlaceFills(t) \/ PlaceRejected(t) \/ PlaceRaises(t) \/ Apply(t)
  \/ LimitCheck(t) \/ LimitId(t) \/ LimitQueue(t)
  \/ \E i \in batch[t].todo : TickNext(t, i)
  \/ TickEnd(t)
  \/ DayReset(t) \/ DayPositions(t) \/ DayCash(t) \/ DayExpect(t)
  \/ SyncImport(t) \/ SyncCommit(t)
  \/ ReconcileDefault(t) \/ ReconcileRead(t) \/ ReconcileCompare(t)

Next ==
  \/ \E t \in Threads : NewCall(t) \/ Step(t)
  \/ \E s \in Symbols, d \in Sides, q \in Qtys, p \in Prices :
       TradeOutOfBand(s, d, q, p)
  \/ Restart

Spec == Init /\ [][Next]_vars

(* A thread that is inside an operation goes on: nothing in the manager    *)
(* waits for another thread outside the short lock sections.               *)
FairSpec == Spec /\ \A t \in Threads : WF_vars(Step(t))

-----------------------------------------------------------------------------
(* Properties. *)

Queue(q) == DOMAIN q \subseteq IdSpace /\ \A i \in DOMAIN q : q[i] \in Order
Quantities(m) == DOMAIN m \subseteq Symbols /\ \A s \in DOMAIN m : m[s] \in Int

Ops    == {"none", "order", "limit", "tick", "day"}
Labels == {"idle", "gate", "limits", "loss_read", "loss_balance", "freeze",
           "loss_failed", "place", "apply", "limit_check", "limit_id",
           "limit_queue", "tick_next", "day_reset", "day_positions",
           "day_cash", "day_expect", "sync_import", "recon_default",
           "recon_read", "recon_compare"}

CallType ==
  [op : Ops, stage : {"pre", "post"}, symbol : Symbols \cup {None},
   side : Sides \cup {None}, qty : Qtys \cup {0},
   price : Prices \cup {NoPrice},
   prevClose : PrevCloses \cup {NoPrice}, id : IdSpace \cup {NoId},
   base : Int \cup {None}]

BatchType(b) ==
  /\ b = [snapshot |-> b.snapshot, todo |-> b.todo, done |-> b.done]
  /\ Queue(b.snapshot)
  /\ b.todo \subseteq DOMAIN b.snapshot /\ b.done \subseteq IdSpace
ViewType(v) ==
  /\ v = [positions |-> v.positions, actual |-> v.actual, cash |-> v.cash]
  /\ Quantities(v.positions) /\ Quantities(v.actual)
  /\ v.cash \in Int \cup {None}

ImportType(m) ==
  /\ m = [source |-> m.source, queue |-> m.queue, top |-> m.top]
  /\ m.source \in Seq(RawOrder) /\ Queue(m.queue) /\ m.top \in Nat

BrokerTyped == cash \in Int /\ positions \in [Symbols -> Int]

ManagerTyped ==
  /\ startBalance \in Int \cup {None} /\ frozen \in BOOLEAN
  /\ Queue(pending) /\ nextOrderId \in Nat \ {0}
  /\ Quantities(expectedPositions) /\ expectedCash \in Int \cup {None}
  /\ syncCompleted \in BOOLEAN /\ syncCalled \in BOOLEAN

ThreadsTyped ==
  /\ pc \in [Threads -> Labels]
  /\ call \in [Threads -> CallType]
  /\ DOMAIN batch = Threads /\ \A t \in Threads : BatchType(batch[t])
  /\ DOMAIN view = Threads /\ \A t \in Threads : ViewType(view[t])
  /\ DOMAIN import = Threads /\ \A t \in Threads : ImportType(import[t])

(* Every variable has its type. *)
TypeOK ==
  /\ BrokerTyped /\ ManagerTyped /\ ThreadsTyped
  /\ drift \in BOOLEAN /\ calls \in Nat /\ restarts \in Nat

Traders == {t \in Threads : Role[t] \cap {"order", "tick"} # {}}

(* max_position_per_symbol is checked against positions read before the    *)
(* order is sent, so every trading thread but the one that filled last may *)
(* overshoot it by an order, and no more: with one trading thread the      *)
(* limit is exact.                                                         *)
PositionLimit ==
  \A s \in Symbols :
    positions[s] <= MaxPosition + (Cardinality(Traders) - 1) * Max(Qtys)

(* A frozen day has no pending orders left to fill (serial use). *)
FrozenQueueEmpty == frozen => pending = EmptyQueue

InFlight == {t \in Threads : pc[t] = "apply"}

(* The expected state is the account's, less the trades that have reached  *)
(* the broker but not yet _apply_trade_to_expected.                        *)
InFlightOf(s) == {t \in InFlight : call[t].symbol = s}
Shares == [t \in Threads |-> Signed(call[t])]
Money  == [t \in Threads |-> Gain(call[t])]
ExpectedTracksBroker ==
  /\ \A s \in Symbols :
       Expected(s) = positions[s] - MapThenSumSet(LAMBDA t : Shares[t], InFlightOf(s))
  /\ expectedCash # None =>
       expectedCash = cash - MapThenSumSet(LAMBDA t : Money[t], InFlight)

AllIds == 1..MaxCalls \cup BrokerIds

(* With one thread feeding ticks, no limit order is filled twice, whatever *)
(* the other threads queue, cancel or freeze meanwhile.                    *)
Fills(i) == Cardinality({k \in DOMAIN FateOf(i) : FateOf(i)[k] = "filled"})
FilledAtMostOnce == \A i \in DOMAIN fate : Fills(i) <= 1

(* An acknowledged order that has met no end is in the queue. *)
OpenOrders == {i \in DOMAIN fate : fate[i] = <<"queued">>}
NothingLost == OpenOrders \subseteq DOMAIN pending

(* Between calls the queue holds nothing that was already dealt with. *)
ProcessedLeaveQueue ==
  (\A t \in Threads : pc[t] = "idle") => DOMAIN pending \subseteq OpenOrders

(* Without faults of the broker, an order that a tick has triggered leaves *)
(* the queue, by a fill, a rejection or somebody's cancellation.           *)
TriggeredSettles ==
  \A t \in Threads, i \in AllIds :
    i \in batch[t].todo ~> i \notin DOMAIN pending

(* The counter is ahead of every "lim-n" in the queue or about to enter it,*)
(* and no two threads are about to queue under one id.                     *)
Holders == {t \in Threads : pc[t] = "limit_queue"}
IdsFresh ==
  /\ \A i \in DOMAIN pending : i \in Nat => i < nextOrderId
  /\ \A t \in Holders : call[t].id < nextOrderId
  /\ \A t, u \in Holders : t # u => call[t].id # call[u].id

(* No trade reaches the broker on a frozen day (serial use) ... *)
NoTradeWhileFrozen == [][cash' # cash => ~frozen]_vars

(* ... and none before the startup sync has completed. *)
NoTradeBeforeSync == [][cash' # cash => syncCompleted]_vars

(* The day freezes only when the account, valued at the one price of the   *)
(* instance, has lost the limit.                                           *)
WorthAt(price) == cash + Unit * TotalHeld * price
FreezeDeserved ==
  [][~frozen /\ frozen' =>
       \A p \in Prices :
         (startBalance - WorthAt(p)) * 100 >= LossLimitPct * startBalance]_vars

(* An order reported cancelled is not filled. *)
CancelledStaysUnfilled ==
  \A i \in DOMAIN fate : \A k \in DOMAIN fate[i] :
    fate[i][k] = "filled" => \A j \in 1..(k - 1) : fate[i][j] # "cancelled"

(* A reconciliation raises no alarm on an account only the manager trades. *)
NoFalseDrift == ~drift

(* A report without a difference, on an account others trade too, is true:  *)
(* the account is what the manager expects.  (The report looks at the       *)
(* expected state of one moment and the account of an earlier one; it could *)
(* be fooled by a sale and a purchase in between that give back exactly the *)
(* cash, which prices such as 2003 and 1995 allow.)                         *)
CleanReportIsTrue ==
  \A t \in Threads :
    pc[t] = "recon_compare" /\ ReportOk(view[t]) /\ view[t].cash # None =>
      /\ expectedCash = cash
      /\ \A s \in Symbols : Expected(s) = positions[s]

(* The queue keeps the promises of OrderLifecycle.  An order a tick has    *)
(* dealt with is no longer open, though it is still in the dictionary.     *)
DealtWith(t) ==
  batch[t].done \cup (IF pc[t] = "apply" THEN {call[t].id} ELSE {})
StillOpen == DOMAIN pending \ UNION {DealtWith(t) : t \in Threads}

(* The end of an order is the first thing that befell it in the queue.  A   *)
(* freeze in the loss check of a later order of the same tick reports the   *)
(* tick's fills as cancelled too, since they are still in the dictionary.   *)
Withdrawn ==
  {i \in DOMAIN fate : Len(fate[i]) > 1 /\ fate[i][2] \in {"cancelled", "rejected"}}

Lifecycle == INSTANCE OrderLifecycle
               WITH Ids <- AllIds, open <- StillOpen,
                    fills <- [i \in AllIds |-> Fills(i)],
                    withdrawn <- Withdrawn
LifecycleSpec == Lifecycle!Spec

(* A pending order is dealt with once: neither lost, nor filled twice, nor *)
(* kept after its end.                                                     *)
HandledOnce == FilledAtMostOnce /\ NothingLost /\ ProcessedLeaveQueue

(* A frozen day is over: nothing waits, nothing trades (serial use).       *)
FreezeHolds == []FrozenQueueEmpty /\ NoTradeWhileFrozen

(* A restart is safe: nothing trades before the import has ended, and what *)
(* it imports is not given the id of what is queued meanwhile.             *)
StartupSafe == []IdsFresh /\ NoTradeBeforeSync
=============================================================================
