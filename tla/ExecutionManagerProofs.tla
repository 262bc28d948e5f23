----------------------- MODULE ExecutionManagerProofs -----------------------
(***************************************************************************)
(* Proofs about ExecutionManager, for every value of its constants:        *)
(* TypeCorrect, NoTradeBeforeSyncHolds and IdsAlwaysFresh.  Each has an    *)
(* inductive invariant (TypeInv, SyncInv, IdsInv) and is proved action by  *)
(* action; what several actions have in common (returning, going on,       *)
(* rejecting) is a lemma of its own; so is what further proofs need: a     *)
(* step of one thread leaves the others where they are, and only traders   *)
(* trade.  Those proofs follow below.                                      *)
(***************************************************************************)
EXTENDS ExecutionManager, FiniteSetTheorems, SequenceTheorems, Sums

(* The labels at which a thread holds an order it is checking, placing or   *)
(* queueing, and those at which the order has not been through _place yet.  *)
CheckLabels == {"gate", "limits", "loss_read", "loss_balance", "freeze",
                "loss_failed", "place", "apply", "limit_check", "limit_id",
                "limit_queue"}
PreLabels == {"gate", "limits", "loss_failed", "place", "apply",
              "limit_check", "limit_id", "limit_queue", "tick_next"}

(* The call holds a whole order. *)
HasOrder(c) ==
  /\ c.symbol \in Symbols /\ c.side \in Sides
  /\ c.qty \in Qtys /\ c.price \in Prices /\ c.prevClose \in PrevCloses
  /\ c.op \in {"order", "limit", "tick"}
  /\ c.op = "tick" => c.id \in IdSpace

(* What a thread's arguments and locals are worth at each label: TypeOK lets*)
(* a call hold None where the code would already have a symbol or a price,  *)
(* so it is not inductive by itself.                                        *)
CallTyped(c, label) ==
  /\ label \in CheckLabels /\ c.stage = "pre" => HasOrder(c)
  /\ label \in PreLabels => c.stage = "pre"
  /\ label = "tick_next" =>
       c.op = "tick" /\ c.symbol \in Symbols /\ c.price \in Prices
  /\ label = "limit_queue" => c.id \in Nat \ {0}

CallsTyped == \A t \in Threads : CallTyped(call[t], pc[t])

(* The inductive invariant behind TypeOK, and its part about the threads. *)
TypeInv == TypeOK /\ CallsTyped

ThreadTyped == ThreadsTyped /\ CallsTyped

(* A new, empty dictionary is a queue and a set of positions. *)
LEMMA QueueEmpty == Queue(EmptyQueue) /\ Quantities(EmptyQueue)
  BY DEF Queue, Quantities, EmptyQueue

(* pending_orders[id] = order keeps the queue well typed ... *)
LEMMA QueuePut ==
  ASSUME NEW q, NEW i \in IdSpace, NEW o \in Order, Queue(q)
  PROVE  Queue(Put(q, i, o))
  BY DEF Queue, Put

(* ... and so does popping any set of ids from it. *)
LEMMA QueueDrop ==
  ASSUME NEW q, NEW S, Queue(q)
  PROVE  Queue(Drop(q, S))
  BY DEF Queue, Drop

(* The locals of a thread that is in no operation are well typed. *)
LEMMA NoLocalsTyped ==
  /\ NoCall \in CallType
  /\ BatchType(NoBatch) /\ ViewType(NoView) /\ ImportType(NoImport)
  BY QueueEmpty DEF NoCall, CallType, NoBatch, NoView, ViewOf, NoImport,
     ImportOf, BatchType, ViewType, ImportType, Ops, IdSpace, NoId, NoPrice,
     EmptyQueue

(* Returning from an operation, from wherever in it, is type correct. *)
LEMMA ReturnTyped ==
  ASSUME ThreadTyped, NEW t \in Threads, Return(t)
  PROVE  ThreadTyped'
  <1>1. ThreadsTyped'
    BY NoLocalsTyped DEF ThreadTyped, ThreadsTyped, Return, Goto, Labels
  <1>2. CallsTyped'
    BY DEF ThreadTyped, ThreadsTyped, CallsTyped, Return, Goto, CallTyped,
       CheckLabels, PreLabels
  <1> QED BY <1>1, <1>2 DEF ThreadTyped

(* A thread may go on to any label its locals are fit for. *)
LEMMA AdvanceTyped ==
  ASSUME ThreadTyped, NEW t \in Threads, NEW label \in Labels,
         Advance(t, label), CallTyped(call[t], label)
  PROVE  ThreadTyped'
  BY DEF ThreadTyped, ThreadsTyped, Advance, Goto, CallsTyped

(* process_market_tick may go on to the next order of its snapshot. *)
LEMMA ProcessedTyped ==
  ASSUME ThreadTyped, NEW t \in Threads, NEW event, Processed(t, event),
         pc[t] \in CheckLabels, call[t].stage = "pre", call[t].op = "tick"
  PROVE  ThreadTyped'
  <1>1. HasOrder(call[t])
    BY DEF ThreadTyped, CallsTyped, CallTyped
  <1>2. ThreadsTyped'
    <2>1. BatchType(batch[t]) /\ DOMAIN batch = Threads
      BY DEF ThreadTyped, ThreadsTyped
    <2>2. BatchType(batch'[t])
      BY <1>1, <2>1 DEF Processed, BatchType, HasOrder
    <2>3. /\ DOMAIN batch' = Threads
          /\ \A u \in Threads \ {t} : batch'[u] = batch[u]
      BY <2>1 DEF Processed
    <2>4. pc' \in [Threads -> Labels]
      BY DEF ThreadTyped, ThreadsTyped, Processed, Goto, Labels
    <2> QED
      BY <2>2, <2>3, <2>4 DEF ThreadTyped, ThreadsTyped, Processed
  <1>3. CallsTyped'
    BY <1>1 DEF ThreadTyped, ThreadsTyped, CallsTyped, Processed, Goto,
       CallTyped, CheckLabels, PreLabels, HasOrder
  <1> QED BY <1>2, <1>3 DEF ThreadTyped

(* An order that fails a check, on either order path. *)
LEMMA RejectTyped ==
  ASSUME ThreadTyped, NEW t \in Threads, RejectCall(t),
         pc[t] \in CheckLabels, call[t].stage = "pre"
  PROVE  ThreadTyped'
  BY ReturnTyped, ProcessedTyped DEF RejectCall

(* A fill leaves the account's cash and positions integers. *)
LEMMA BrokerFill ==
  ASSUME BrokerTyped, NEW c,
         c.symbol \in Symbols, c.qty \in Nat, c.price \in Nat,
         Fill(c.symbol, c.side, c.qty, c.price)
  PROVE  BrokerTyped'
  <1>1. BuyCost(c.qty, c.price) \in Int /\ SellNet(c.qty, c.price) \in Int
    BY DEF BuyCost, SellNet, Unit, BuyFeeBps, SellFeeBps
  <1> QED BY <1>1 DEF BrokerTyped, Fill

(* Both answers of _check_daily_loss, before the trade and after it: the    *)
(* order goes on ...                                                        *)
LEMMA LossPassedTyped ==
  ASSUME ThreadTyped, NEW t \in Threads, LossCheckPassed(t),
         pc[t] \in {"loss_read", "loss_balance"}
  PROVE  ThreadTyped'
  <1>1. CASE call[t].stage = "post"
    BY <1>1, ReturnTyped DEF LossCheckPassed
  <1>2. CASE call[t].stage = "pre" /\ Advance(t, "place")
    <2>1. CallTyped(call[t], "place")
      BY <1>2 DEF ThreadTyped, CallsTyped, CallTyped, CheckLabels, PreLabels
    <2> QED BY <2>1, <1>2, AdvanceTyped DEF Labels
  <1> QED BY <1>1, <1>2 DEF LossCheckPassed

(* ... or the check has failed. *)
LEMMA LossFailedTyped ==
  ASSUME ThreadTyped, NEW t \in Threads, LossCheckFailed(t),
         pc[t] \in {"loss_read", "loss_balance"}
  PROVE  ThreadTyped'
  <1>1. CASE call[t].stage = "post"
    BY <1>1, ReturnTyped DEF LossCheckFailed
  <1>2. CASE call[t].stage = "pre" /\ Advance(t, "loss_failed")
    <2>1. CallTyped(call[t], "loss_failed")
      BY <1>2 DEF ThreadTyped, CallsTyped, CallTyped, CheckLabels, PreLabels
    <2> QED BY <2>1, <1>2, AdvanceTyped DEF Labels
  <1> QED BY <1>1, <1>2 DEF LossCheckFailed

(* A step of a check that touches nothing but the thread's own state. *)
LEMMA LocalStep ==
  ASSUME TypeInv, ThreadTyped',
         UNCHANGED <<brokerVars, managerVars, auxVars>>
  PROVE  TypeInv'
  BY DEF TypeInv, TypeOK, ThreadTyped, BrokerTyped, ManagerTyped, brokerVars,
     managerVars, dayVars, queueVars, expectVars, syncVars, auxVars

(* The steps of pre_trade_check that change nothing shared. *)
LEMMA CheckStepTyped ==
  ASSUME TypeInv, NEW t \in Threads,
         \/ Gate(t) \/ Limits(t)
         \/ LossRead(t) \/ LossBalance(t) \/ LossFailed(t)
  PROVE  TypeInv'
  <1>1. ThreadTyped /\ CallTyped(call[t], pc[t])
    BY DEF TypeInv, TypeOK, ThreadTyped, CallsTyped
  <1>2. CASE Gate(t)
    <2>1. CallTyped(call[t], "limits") /\ call[t].stage = "pre"
      BY <1>1, <1>2 DEF Gate, CallTyped, CheckLabels, PreLabels
    <2>2. ThreadTyped'
      BY <1>1, <1>2, <2>1, AdvanceTyped, RejectTyped DEF Gate, Labels,
         CheckLabels
    <2> QED BY <1>2, <2>2, LocalStep DEF Gate
  <1>3. CASE Limits(t)
    <2>1. CallTyped(call[t], "loss_read") /\ call[t].stage = "pre"
      BY <1>1, <1>3 DEF Limits, CallTyped, CheckLabels, PreLabels
    <2>2. ThreadTyped'
      BY <1>1, <1>3, <2>1, AdvanceTyped, RejectTyped
         DEF Limits, Labels, CheckLabels
    <2> QED BY <1>3, <2>2, LocalStep DEF Limits
  <1>4. CASE LossRead(t)
    <2>1. CASE LossCheckPassed(t) \/ LossCheckFailed(t)
      BY <1>1, <1>4, <2>1, LossPassedTyped, LossFailedTyped, LocalStep
         DEF LossRead
    <2>2. CASE /\ Goto(t, "loss_balance")
               /\ call' = [call EXCEPT ![t].base = startBalance]
               /\ UNCHANGED <<batch, view, import, fate>>
      <3>1. startBalance \in Int \cup {None}
        BY DEF TypeInv, TypeOK, ManagerTyped
      <3>2. ThreadsTyped'
        BY <1>1, <2>2, <3>1
           DEF ThreadTyped, ThreadsTyped, Goto, Labels, CallType
      <3>3. CallsTyped'
        BY <1>1, <1>4, <2>2 DEF ThreadTyped, ThreadsTyped, CallsTyped,
           CallTyped, HasOrder, Goto, LossRead, CheckLabels, PreLabels,
           CallType
      <3> QED BY <1>4, <3>2, <3>3, LocalStep DEF LossRead, ThreadTyped
    <2> QED BY <1>4, <2>1, <2>2 DEF LossRead
  <1>5. CASE LossBalance(t)
    <2>1. CASE Advance(t, "freeze")
      <3>1. CallTyped(call[t], "freeze")
        BY <1>1, <1>5 DEF LossBalance, CallTyped, CheckLabels, PreLabels
      <3> QED BY <1>1, <1>5, <2>1, <3>1, AdvanceTyped, LocalStep
              DEF LossBalance, Labels
    <2>2. CASE LossCheckPassed(t)
      BY <1>1, <1>5, <2>2, LossPassedTyped, LocalStep DEF LossBalance
    <2> QED BY <1>5, <2>1, <2>2 DEF LossBalance
  <1>6. CASE LossFailed(t)
    <2>1. pc[t] \in CheckLabels /\ call[t].stage = "pre"
      BY <1>1, <1>6 DEF LossFailed, CallTyped, CheckLabels, PreLabels
    <2> QED BY <1>1, <1>6, <2>1, RejectTyped, LocalStep DEF LossFailed
  <1> QED BY <1>2, <1>3, <1>4, <1>5, <1>6

(* The lock section of _check_daily_loss that freezes the day. *)
LEMMA FreezeTyped ==
  ASSUME TypeInv, NEW t \in Threads, Freeze(t)
  PROVE  TypeInv'
  <1>1. ThreadTyped /\ CallTyped(call[t], pc[t])
    BY DEF TypeInv, TypeOK, ThreadTyped, CallsTyped
  <1>2. ThreadTyped'
    <2>1. CASE Return(t)
      BY <1>1, <2>1, ReturnTyped
    <2>2. CASE /\ call[t].stage = "pre" /\ Goto(t, "loss_failed")
               /\ UNCHANGED <<call, batch, view, import>>
      <3>1. CallTyped(call[t], "loss_failed")
        BY <1>1, <2>2 DEF Freeze, CallTyped, CheckLabels, PreLabels
      <3> QED BY <1>1, <2>2, <3>1
              DEF ThreadTyped, ThreadsTyped, CallsTyped, Goto, Labels
    <2> QED BY <2>1, <2>2 DEF Freeze, AfterFreeze
  <1>3. Queue(pending')
    BY QueueDrop DEF TypeInv, TypeOK, ManagerTyped, Freeze
  <1> QED BY <1>2, <1>3 DEF TypeInv, TypeOK, ThreadTyped, BrokerTyped,
          ManagerTyped, Freeze, brokerVars, expectVars, syncVars, auxVars

(* _place: filled, rejected, or raising. *)
LEMMA PlaceTyped ==
  ASSUME TypeInv, NEW t \in Threads,
         PlaceFills(t) \/ PlaceRejected(t) \/ PlaceRaises(t)
  PROVE  TypeInv'
  <1>1. ThreadTyped /\ CallTyped(call[t], pc[t])
    BY DEF TypeInv, TypeOK, ThreadTyped, CallsTyped
  <1>2. HasOrder(call[t]) /\ call[t].stage = "pre" /\ pc[t] = "place"
    BY <1>1 DEF PlaceFills, PlaceRejected, PlaceRaises, CallTyped, CheckLabels,
       PreLabels
  <1>3. BrokerTyped'
    BY <1>2, BrokerFill, ManagerAssumption
       DEF TypeInv, TypeOK, BrokerTyped, HasOrder, PlaceFills, PlaceRejected,
           PlaceRaises, brokerVars
  <1>4. ThreadTyped'
    <2>1. CASE PlaceFills(t)
      BY <1>1, <1>2, <2>1 DEF PlaceFills, ThreadTyped, ThreadsTyped,
         CallsTyped, CallTyped, Goto, Labels, CheckLabels, PreLabels
    <2>2. CASE /\ PlaceRejected(t) /\ Processed(t, "rejected")
               /\ call[t].op = "tick"
      BY <1>1, <1>2, <2>2, ProcessedTyped DEF CheckLabels
    <2>3. CASE /\ Goto(t, "loss_read")
               /\ call' = [call EXCEPT ![t].stage = "post"]
               /\ UNCHANGED <<batch, view, import, fate>>
      BY <1>1, <2>3 DEF ThreadTyped, ThreadsTyped, CallsTyped,
         CallTyped, Goto, Labels, CheckLabels, PreLabels, CallType
    <2>4. CASE PlaceRaises(t)
      BY <1>1, <2>4, ReturnTyped DEF PlaceRaises
    <2> QED BY <2>1, <2>2, <2>3, <2>4 DEF PlaceRejected
  <1> QED BY <1>3, <1>4 DEF TypeInv, TypeOK, ThreadTyped, ManagerTyped,
      PlaceFills, PlaceRejected, PlaceRaises, managerVars, dayVars, queueVars,
      expectVars, syncVars, auxVars

(* _apply_trade_to_expected and what its two callers do next. *)
LEMMA ApplyTyped ==
  ASSUME TypeInv, NEW t \in Threads, Apply(t)
  PROVE  TypeInv'
  <1>1. ThreadTyped /\ CallTyped(call[t], pc[t])
    BY DEF TypeInv, TypeOK, ThreadTyped, CallsTyped
  <1>2. HasOrder(call[t]) /\ call[t].stage = "pre" /\ pc[t] = "apply"
    BY <1>1 DEF Apply, CallTyped, CheckLabels, PreLabels
  <1>3. Signed(call[t]) \in Int /\ Gain(call[t]) \in Int
    <2>1. call[t].qty \in Nat /\ call[t].price \in Nat
      BY <1>2, ManagerAssumption DEF HasOrder
    <2> QED BY <2>1 DEF Signed, Gain, BuyCost, SellNet, Unit, BuyFeeBps,
        SellFeeBps
  <1>4. Quantities(expectedPositions') /\ expectedCash' \in Int \cup {None}
    <2>1. Quantities(expectedPositions) /\ expectedCash \in Int \cup {None}
      BY DEF TypeInv, TypeOK, ManagerTyped
    <2>2. Expected(call[t].symbol) + Signed(call[t]) \in Int
      BY <1>3, <2>1 DEF Expected, Quantities
    <2> QED BY <1>2, <1>3, <2>1, <2>2
            DEF Apply, ApplyToExpected, Put, Quantities, HasOrder
  <1>5. ThreadTyped'
    <2>1. CASE call[t].op = "order"
      <3>1. /\ pc' = [pc EXCEPT ![t] = "loss_read"]
            /\ call' = [call EXCEPT ![t].stage = "post"]
            /\ UNCHANGED <<batch, view, import>>
        BY <2>1 DEF Apply, Goto
      <3>2. ThreadsTyped'
        BY <1>1, <3>1 DEF ThreadTyped, ThreadsTyped, Labels, CallType
      <3>3. CallsTyped'
        BY <1>1, <3>1 DEF ThreadTyped, ThreadsTyped, CallsTyped, CallTyped,
           CheckLabels, PreLabels, CallType
      <3> QED BY <3>2, <3>3 DEF ThreadTyped
    <2>2. CASE call[t].op = "tick"
      <3>1. BatchType(batch'[t]) /\ DOMAIN batch' = Threads
        BY <1>1, <1>2, <2>2
           DEF Apply, ThreadTyped, ThreadsTyped, BatchType, HasOrder
      <3>2. \A u \in Threads \ {t} : batch'[u] = batch[u]
        BY <1>1, <2>2 DEF Apply, ThreadTyped, ThreadsTyped
      <3>3. ThreadsTyped'
        BY <1>1, <2>2, <3>1, <3>2
           DEF Apply, ThreadTyped, ThreadsTyped, Goto, Labels
      <3>4. CallsTyped'
        BY <1>1, <1>2, <2>2 DEF Apply, ThreadTyped, ThreadsTyped, CallsTyped,
           CallTyped, Goto, CheckLabels, PreLabels, HasOrder
      <3> QED BY <3>3, <3>4 DEF ThreadTyped
    <2> QED BY <2>1, <2>2 DEF Apply
  <1> QED BY <1>4, <1>5 DEF TypeInv, TypeOK, ThreadTyped, BrokerTyped,
      ManagerTyped, Apply, brokerVars, dayVars, queueVars, syncVars, auxVars

(* The steps of place_limit_order. *)
LEMMA LimitStepTyped ==
  ASSUME TypeInv, NEW t \in Threads,
         LimitCheck(t) \/ LimitId(t) \/ LimitQueue(t)
  PROVE  TypeInv'
  <1>1. ThreadTyped /\ CallTyped(call[t], pc[t])
    BY DEF TypeInv, TypeOK, ThreadTyped, CallsTyped
  <1>2. HasOrder(call[t]) /\ call[t].stage = "pre"
    BY <1>1 DEF LimitCheck, LimitId, LimitQueue, CallTyped, CheckLabels,
       PreLabels
  <1>3. CASE LimitCheck(t)
    <2>1. CASE Return(t)
      BY <1>1, <1>3, <2>1, ReturnTyped, LocalStep DEF LimitCheck
    <2>2. CASE Goto(t, "limit_id") /\ UNCHANGED <<call, batch, view, import>>
      BY <1>1, <1>2, <1>3, <2>2, LocalStep DEF LimitCheck, ThreadTyped,
         ThreadsTyped, CallsTyped, CallTyped, Goto, Labels
    <2> QED BY <1>3, <2>1, <2>2 DEF LimitCheck
  <1>4. CASE LimitId(t)
    <2>1. nextOrderId \in Nat \ {0}
      BY DEF TypeInv, TypeOK, ManagerTyped
    <2>2. ThreadTyped'
      BY <1>1, <1>2, <1>4, <2>1 DEF LimitId, ThreadTyped, ThreadsTyped,
         CallsTyped, CallTyped, Goto, Labels, CallType, IdSpace, HasOrder,
         CheckLabels, PreLabels
    <2> QED BY <1>4, <2>1, <2>2 DEF LimitId, IdAfter, TypeInv, TypeOK,
        ThreadTyped, BrokerTyped, ManagerTyped, brokerVars, dayVars,
        expectVars, syncVars, auxVars
  <1>5. CASE LimitQueue(t)
    <2>1. call[t].id \in IdSpace /\ OrderOf(call[t]) \in Order
      BY <1>1, <1>2, <1>5 DEF LimitQueue, CallTyped, IdSpace, OrderOf, Order,
         HasOrder
    <2>2. Queue(pending')
      BY <1>5, <2>1, QueuePut DEF LimitQueue, TypeInv, TypeOK, ManagerTyped
    <2>3. ThreadTyped'
      BY <1>1, <1>5, ReturnTyped DEF LimitQueue
    <2> QED BY <1>5, <2>2, <2>3 DEF LimitQueue, TypeInv, TypeOK, ThreadTyped,
        BrokerTyped, ManagerTyped, brokerVars, dayVars, expectVars, syncVars,
        auxVars
  <1> QED BY <1>3, <1>4, <1>5

(* The steps of process_market_tick between two orders and at its end. *)
LEMMA TickStepTyped ==
  ASSUME TypeInv, NEW t \in Threads,
         TickEnd(t) \/ \E i \in batch[t].todo : TickNext(t, i)
  PROVE  TypeInv'
  <1>1. ThreadTyped /\ CallTyped(call[t], pc[t]) /\ BatchType(batch[t])
    BY DEF TypeInv, TypeOK, ThreadTyped, ThreadsTyped, CallsTyped
  <1>2. ASSUME NEW i \in batch[t].todo, TickNext(t, i) PROVE TypeInv'
    <2>1. CASE i \notin DOMAIN pending
      <3>1. /\ batch' = [batch EXCEPT ![t].todo = @ \ {i}]
            /\ UNCHANGED <<pc, call, view, import>>
        BY <1>2, <2>1 DEF TickNext
      <3>2. BatchType(batch'[t])
        BY <1>1, <3>1 DEF ThreadTyped, ThreadsTyped, BatchType
      <3>3. ThreadTyped'
        BY <1>1, <3>1, <3>2 DEF ThreadTyped, ThreadsTyped, CallsTyped
      <3> QED BY <1>2, <3>3, LocalStep DEF TickNext
    <2>2. CASE i \in DOMAIN pending
      <3> DEFINE order == batch[t].snapshot[i]
      <3>1. /\ call' = [call EXCEPT ![t].id = i, ![t].side = order.side,
                                     ![t].qty = order.qty,
                                     ![t].prevClose = order.prevClose]
            /\ pc' = [pc EXCEPT ![t] = "gate"]
            /\ UNCHANGED <<batch, view, import>>
        BY <1>2, <2>2 DEF TickNext, Goto
      <3>2. i \in IdSpace /\ order \in Order
        BY <1>1 DEF BatchType, Queue
      <3>3. /\ order.side \in Sides /\ order.qty \in Qtys
            /\ order.prevClose \in PrevCloses
        BY <3>2 DEF Order
      <3> HIDE DEF order
      <3>4. call[t] \in CallType /\ DOMAIN call = Threads
        BY <1>1 DEF ThreadTyped, ThreadsTyped
      <3>5. call'[t] \in CallType
        BY <3>1, <3>2, <3>3, <3>4 DEF CallType
      <3>6. HasOrder(call'[t]) /\ call'[t].stage = "pre"
        BY <1>1, <1>2, <3>1, <3>2, <3>3, <3>4
           DEF CallType, CallTyped, HasOrder, TickNext, PreLabels
      <3>7. ThreadsTyped'
        BY <1>1, <3>1, <3>5 DEF ThreadTyped, ThreadsTyped, Labels
      <3>8. CallsTyped'
        BY <1>1, <3>1, <3>6 DEF ThreadTyped, ThreadsTyped, CallsTyped,
           CallTyped
      <3> QED BY <1>2, <3>7, <3>8, LocalStep DEF TickNext, ThreadTyped
    <2> QED BY <2>1, <2>2
  <1>3. CASE TickEnd(t)
    <2>1. /\ pc' = [pc EXCEPT ![t] = "loss_read"]
          /\ call' = [call EXCEPT ![t].stage = "post"]
          /\ batch' = [batch EXCEPT ![t] = NoBatch]
          /\ UNCHANGED <<view, import>>
      BY <1>3 DEF TickEnd, Goto
    <2>2. ThreadsTyped'
      BY <1>1, <2>1, NoLocalsTyped DEF ThreadTyped, ThreadsTyped, Labels,
         CallType
    <2>3. CallsTyped'
      BY <1>1, <2>1 DEF ThreadTyped, ThreadsTyped, CallsTyped, CallTyped,
         CheckLabels, PreLabels, CallType
    <2>4. Queue(pending')
      BY <1>3, QueueDrop DEF TickEnd, TypeInv, TypeOK, ManagerTyped
    <2> QED BY <1>3, <2>2, <2>3, <2>4 DEF TickEnd, TypeInv, TypeOK,
        ThreadTyped, BrokerTyped, ManagerTyped, brokerVars, dayVars,
        expectVars, syncVars, auxVars
  <1> QED BY <1>2, <1>3

(* The steps of start_day. *)
LEMMA DayStepTyped ==
  ASSUME TypeInv, NEW t \in Threads,
         DayReset(t) \/ DayPositions(t) \/ DayCash(t) \/ DayExpect(t)
  PROVE  TypeInv'
  <1>1. ThreadTyped /\ ViewType(view[t]) /\ call[t] \in CallType
    BY DEF TypeInv, TypeOK, ThreadTyped, ThreadsTyped, CallsTyped
  <1>2. BrokerTyped /\ ManagerTyped
    BY DEF TypeInv, TypeOK
  <1>3. CASE DayReset(t)
    <2>1. ThreadTyped'
      BY <1>1, <1>3 DEF DayReset, ThreadTyped, ThreadsTyped, CallsTyped,
         CallTyped, Goto, Labels, CheckLabels, PreLabels
    <2> QED BY <1>1, <1>3, <2>1 DEF DayReset, TypeInv, TypeOK, ThreadTyped,
            BrokerTyped, ManagerTyped, CallType, brokerVars, queueVars,
            expectVars, syncVars, auxVars
  <1>4. CASE DayPositions(t) \/ DayCash(t)
    <2>1. Quantities(HeldPositions)
      BY <1>2 DEF Quantities, HeldPositions, Held, BrokerTyped
    <2>2. ViewType(view'[t])
      BY <1>1, <1>2, <1>4, <2>1 DEF DayPositions, DayCash, ViewType,
         ThreadTyped, ThreadsTyped, BrokerTyped
    <2>3. ThreadsTyped'
      BY <1>1, <1>4, <2>2
         DEF DayPositions, DayCash, ThreadTyped, ThreadsTyped, Goto, Labels
    <2>4. CallsTyped'
      BY <1>1, <1>4 DEF DayPositions, DayCash, ThreadTyped, ThreadsTyped,
         CallsTyped, CallTyped, Goto, CheckLabels, PreLabels
    <2> QED BY <1>4, <2>3, <2>4, LocalStep DEF DayPositions, DayCash,
        ThreadTyped
  <1>5. CASE DayExpect(t)
    BY <1>1, <1>5, ReturnTyped DEF DayExpect, TypeInv, TypeOK, ThreadTyped,
       BrokerTyped, ManagerTyped, ViewType, brokerVars, dayVars, queueVars,
       syncVars, auxVars
  <1> QED BY <1>3, <1>4, <1>5

(* The steps of reconcile_once. *)
LEMMA ReconcileStepTyped ==
  ASSUME TypeInv, NEW t \in Threads,
         ReconcileDefault(t) \/ ReconcileRead(t) \/ ReconcileCompare(t)
  PROVE  TypeInv'
  <1>1. ThreadTyped /\ ViewType(view[t]) /\ BrokerTyped
    BY DEF TypeInv, TypeOK, ThreadTyped, ThreadsTyped
  <1>2. CASE ReconcileDefault(t) \/ ReconcileRead(t)
    <2>1. Quantities(HeldPositions) /\ Quantities(positions)
      BY <1>1 DEF Quantities, HeldPositions, Held, BrokerTyped
    <2>2. ViewType(view'[t])
      BY <1>1, <1>2, <2>1 DEF ReconcileDefault, ReconcileRead, ViewType,
         ThreadTyped, ThreadsTyped
    <2>3. ThreadsTyped'
      BY <1>1, <1>2, <2>2 DEF ReconcileDefault, ReconcileRead, ThreadTyped,
         ThreadsTyped, Goto, Labels
    <2>4. CallsTyped'
      BY <1>1, <1>2 DEF ReconcileDefault, ReconcileRead, ThreadTyped,
         ThreadsTyped, CallsTyped, CallTyped, Goto, CheckLabels, PreLabels
    <2> QED BY <1>2, <2>3, <2>4, LocalStep
            DEF ReconcileDefault, ReconcileRead, ThreadTyped
  <1>3. CASE ReconcileCompare(t)
    <2>1. ThreadTyped'
      BY <1>1, <1>3, ReturnTyped DEF ReconcileCompare
    <2>2. drift' \in BOOLEAN
      BY <1>3 DEF ReconcileCompare, TypeInv, TypeOK
    <2> QED BY <1>3, <2>1, <2>2 DEF ReconcileCompare, TypeInv, TypeOK,
        ThreadTyped, BrokerTyped, ManagerTyped, brokerVars, managerVars,
        dayVars, queueVars, expectVars, syncVars
  <1> QED BY <1>2, <1>3

(* The steps of the startup import. *)
LEMMA SyncStepTyped ==
  ASSUME TypeInv, NEW t \in Threads, SyncImport(t) \/ SyncCommit(t)
  PROVE  TypeInv'
  <1>1. ThreadTyped /\ ImportType(import[t])
    BY DEF TypeInv, TypeOK, ThreadTyped, ThreadsTyped
  <1>2. nextOrderId \in Nat \ {0}
    BY DEF TypeInv, TypeOK, ManagerTyped
  <1>3. CASE SyncImport(t)
    <2> DEFINE raw == Head(import[t].source)
               id  == IF raw.id = NoId THEN nextOrderId ELSE raw.id
               top == IF id \in Nat /\ id > import[t].top
                      THEN id ELSE import[t].top
    <2>1. raw \in RawOrder /\ Tail(import[t].source) \in Seq(RawOrder)
      BY <1>1, <1>3 DEF SyncImport, ImportType
    <2>2. id \in IdSpace /\ raw.order \in Order
      BY <1>2, <2>1 DEF RawOrder, IdSpace, NoId
    <2>3. top \in Nat
      BY <1>1 DEF ImportType
    <2>4. Queue(Put(import[t].queue, id, raw.order))
      BY <1>1, <2>2, QueuePut DEF ImportType
    <2>5. /\ \/ import' = [import EXCEPT
                             ![t] = [source |-> Tail(@.source),
                                     queue  |-> Put(@.queue, id, raw.order),
                                     top    |-> top]]
             \/ import' = [import EXCEPT ![t].source = Tail(@)]
          /\ nextOrderId' \in {nextOrderId, nextOrderId + 1}
          /\ UNCHANGED <<pc, call, batch, view>>
      BY <1>3 DEF SyncImport, IdAfter
    <2> HIDE DEF raw, id, top
    <2>6. ImportType(import'[t])
      <3>1. CASE import' = [import EXCEPT ![t].source = Tail(@)]
        BY <1>1, <2>1, <3>1 DEF ImportType, ThreadTyped, ThreadsTyped
      <3>2. CASE import' = [import EXCEPT
                              ![t] = [source |-> Tail(@.source),
                                      queue  |-> Put(@.queue, id, raw.order),
                                      top    |-> top]]
        <4>1. import'[t] = [source |-> Tail(import[t].source),
                            queue  |-> Put(import[t].queue, id, raw.order),
                            top    |-> top]
          BY <1>1, <3>2 DEF ThreadTyped, ThreadsTyped
        <4> QED BY <2>1, <2>3, <2>4, <4>1 DEF ImportType
      <3> QED BY <2>5, <3>1, <3>2
    <2>7. ThreadsTyped'
      BY <1>1, <2>5, <2>6 DEF ThreadTyped, ThreadsTyped
    <2>8. CallsTyped'
      BY <1>1, <2>5 DEF ThreadTyped, CallsTyped
    <2>9. nextOrderId' \in Nat \ {0}
      BY <1>2, <2>5
    <2> QED BY <1>3, <2>7, <2>8, <2>9 DEF SyncImport, TypeInv, TypeOK,
        BrokerTyped, ManagerTyped, brokerVars, dayVars, expectVars, syncVars,
        auxVars
  <1>4. CASE SyncCommit(t)
    <2>1. ThreadTyped'
      BY <1>1, <1>4, ReturnTyped DEF SyncCommit
    <2>2. nextOrderId' \in Nat \ {0} /\ Queue(pending')
      BY <1>1, <1>2, <1>4 DEF SyncCommit, IdAfterImport, ImportType
    <2> QED BY <1>4, <2>1, <2>2 DEF SyncCommit, TypeInv, TypeOK, ThreadTyped,
            BrokerTyped, ManagerTyped, brokerVars, dayVars, expectVars, auxVars
  <1> QED BY <1>3, <1>4

(* Any step inside an operation ... *)
LEMMA StepTyped ==
  ASSUME TypeInv, NEW t \in Threads, Step(t)
  PROVE  TypeInv'
  BY CheckStepTyped, FreezeTyped, PlaceTyped, ApplyTyped, LimitStepTyped,
     TickStepTyped, DayStepTyped, SyncStepTyped, ReconcileStepTyped DEF Step

(* ... and the start of any operation keep the invariant. *)
LEMMA StartTyped ==
  ASSUME TypeInv, NEW t \in Threads, NewCall(t)
  PROVE  TypeInv'
  <1>1. ThreadTyped /\ DOMAIN call = Threads /\ DOMAIN batch = Threads
    BY DEF TypeInv, TypeOK, ThreadTyped, ThreadsTyped
  <1>2. ManagerTyped /\ BrokerTyped
    BY DEF TypeInv, TypeOK
  <1>3. ASSUME NEW op, Start(t, op)
        PROVE  /\ calls' \in Nat
               /\ UNCHANGED <<drift, restarts>>
    BY <1>3 DEF Start, TypeInv, TypeOK
  <1>4. ASSUME NEW o \in Order, StartOrder(t, o) \/ StartLimit(t, o)
        PROVE  TypeInv'
    <2>1. PICK op \in {"order", "limit"}, label \in {"gate", "limit_check"} :
            /\ call' = [call EXCEPT ![t] = CallFor(op, o)]
            /\ pc' = [pc EXCEPT ![t] = label]
      BY <1>4 DEF StartOrder, StartLimit, Goto
    <2>2. /\ CallFor(op, o) \in CallType
          /\ CallTyped(CallFor(op, o), label)
      BY DEF CallFor, NoCall, CallType, Order, Ops, CallTyped, HasOrder,
         CheckLabels, PreLabels
    <2>3. UNCHANGED <<brokerVars, managerVars, batch, view, import>>
      BY <1>4 DEF StartOrder, StartLimit
    <2>4. ThreadTyped'
      BY <1>1, <2>1, <2>2, <2>3 DEF ThreadTyped, ThreadsTyped, CallsTyped,
         Labels
    <2>5. calls' \in Nat /\ UNCHANGED <<drift, restarts>>
      BY <1>3, <1>4 DEF StartOrder, StartLimit
    <2> QED BY <2>3, <2>4, <2>5 DEF TypeInv, TypeOK, ThreadTyped, BrokerTyped,
        ManagerTyped, brokerVars, managerVars, dayVars, queueVars, expectVars,
        syncVars
  <1>5. ASSUME NEW ids, Cancel(t, ids) PROVE TypeInv'
    <2>1. Queue(pending')
      BY <1>2, <1>5, QueueDrop DEF Cancel, ManagerTyped
    <2> QED BY <1>3, <1>5, <2>1 DEF Cancel, TypeInv, TypeOK, BrokerTyped,
        ManagerTyped, ThreadsTyped, CallsTyped, brokerVars, dayVars,
        expectVars, syncVars, threadVars
  <1>6. ASSUME NEW s \in Symbols, NEW p \in Prices, StartTick(t, s, p)
        PROVE  TypeInv'
    <2> DEFINE c == [NoCall EXCEPT !.op = "tick", !.symbol = s, !.price = p]
               b == [snapshot |-> pending,
                     todo |-> {i \in DOMAIN pending :
                                 Triggered(pending[i], s, p)},
                     done |-> {}]
    <2>1. /\ call' = [call EXCEPT ![t] = c]
          /\ batch' = [batch EXCEPT ![t] = b]
          /\ pc' = [pc EXCEPT ![t] = "tick_next"]
          /\ UNCHANGED <<brokerVars, managerVars, view, import>>
      BY <1>6 DEF StartTick, Goto
    <2>2. c \in CallType /\ CallTyped(c, "tick_next")
      BY DEF NoCall, CallType, Ops, CallTyped, CheckLabels, PreLabels
    <2>3. BatchType(b)
      BY <1>2 DEF ManagerTyped, BatchType
    <2> HIDE DEF c, b
    <2>4. ThreadTyped'
      BY <1>1, <2>1, <2>2, <2>3 DEF ThreadTyped, ThreadsTyped, CallsTyped,
         Labels
    <2>5. calls' \in Nat /\ UNCHANGED <<drift, restarts>>
      BY <1>3, <1>6 DEF StartTick
    <2> QED BY <2>1, <2>4, <2>5 DEF TypeInv, TypeOK, ThreadTyped, BrokerTyped,
        ManagerTyped, brokerVars, managerVars, dayVars, queueVars, expectVars,
        syncVars
  <1>7. ASSUME NEW s \in Symbols, NEW p \in Prices, StartDay(t, s, p)
        PROVE  TypeInv'
    <2>1. Balance(s, p) \in Int
      BY <1>2, ManagerAssumption DEF Balance, BrokerTyped, Unit
    <2> DEFINE c == [NoCall EXCEPT !.op = "day", !.base = Balance(s, p)]
    <2>2. /\ call' = [call EXCEPT ![t] = c]
          /\ pc' = [pc EXCEPT ![t] = "day_reset"]
          /\ UNCHANGED <<brokerVars, managerVars, batch, view, import>>
      BY <1>7 DEF StartDay, Goto
    <2>3. c \in CallType /\ CallTyped(c, "day_reset")
      BY <2>1 DEF NoCall, CallType, Ops, CallTyped, CheckLabels, PreLabels
    <2> HIDE DEF c
    <2>4. ThreadTyped'
      BY <1>1, <2>2, <2>3 DEF ThreadTyped, ThreadsTyped, CallsTyped, Labels
    <2>5. calls' \in Nat /\ UNCHANGED <<drift, restarts>>
      BY <1>3, <1>7 DEF StartDay
    <2> QED BY <2>2, <2>4, <2>5 DEF TypeInv, TypeOK, ThreadTyped, BrokerTyped,
        ManagerTyped, brokerVars, managerVars, dayVars, queueVars, expectVars,
        syncVars
  <1>8. ASSUME StartSync(t) PROVE TypeInv'
    <2>1. syncCompleted' \in BOOLEAN /\ syncCalled' \in BOOLEAN
      BY <1>2, <1>8 DEF StartSync, ManagerTyped
    <2>2. ThreadTyped'
      <3>1. CASE UNCHANGED threadVars
        BY <1>1, <3>1 DEF ThreadTyped, ThreadsTyped, CallsTyped, threadVars
      <3>2. CASE /\ Goto(t, "sync_import")
                 /\ \E answer \in ActiveOrders :
                      import' =
                        [import EXCEPT ![t] = ImportOf(Limited(answer))]
                 /\ UNCHANGED <<syncCompleted, call, batch, view>>
        <4> PICK answer \in ActiveOrders :
                   import' = [import EXCEPT ![t] = ImportOf(Limited(answer))]
          BY <3>2
        <4>1. Limited(answer) \in Seq(RawOrder)
          BY ManagerAssumption DEF Limited
        <4>2. ImportType(ImportOf(Limited(answer)))
          BY <4>1, QueueEmpty DEF ImportOf, ImportType
        <4>3. ThreadsTyped'
          BY <1>1, <3>2, <4>2 DEF ThreadTyped, ThreadsTyped, Labels, Goto
        <4>4. CallsTyped'
          BY <1>1, <3>2 DEF ThreadTyped, ThreadsTyped, CallsTyped, CallTyped,
             CheckLabels, PreLabels, Goto
        <4> QED BY <4>3, <4>4 DEF ThreadTyped
      <3>3. \/ UNCHANGED threadVars
            \/ /\ Goto(t, "sync_import")
               /\ \E answer \in ActiveOrders :
                    import' = [import EXCEPT ![t] = ImportOf(Limited(answer))]
               /\ UNCHANGED <<syncCompleted, call, batch, view>>
        BY <1>8, Zenon DEF StartSync
      <3> QED BY <3>1, <3>2, <3>3
    <2>3. calls' \in Nat /\ UNCHANGED <<drift, restarts>>
      BY <1>3, <1>8 DEF StartSync
    <2> QED BY <1>8, <2>1, <2>2, <2>3 DEF StartSync, TypeInv, TypeOK,
        ThreadTyped, BrokerTyped, ManagerTyped, brokerVars, dayVars, queueVars,
        expectVars
  <1>9. ASSUME StartReconcile(t) PROVE TypeInv'
    <2>1. ViewType(ViewOf(expectedPositions, expectedCash))
      BY <1>2, QueueEmpty DEF ViewOf, ViewType, ManagerTyped
    <2>2. ThreadsTyped'
      BY <1>1, <1>9, <2>1
         DEF StartReconcile, ThreadTyped, ThreadsTyped, Goto, Labels
    <2>3. CallsTyped'
      BY <1>1, <1>9 DEF StartReconcile, ThreadTyped, ThreadsTyped, CallsTyped,
         CallTyped, Goto, CheckLabels, PreLabels
    <2>4. calls' \in Nat /\ UNCHANGED <<drift, restarts>>
      BY <1>3, <1>9 DEF StartReconcile
    <2> QED BY <1>9, <2>2, <2>3, <2>4 DEF StartReconcile, TypeInv, TypeOK,
        BrokerTyped, ManagerTyped, brokerVars, managerVars, dayVars, queueVars,
        expectVars, syncVars
  <1> QED
    BY <1>4, <1>5, <1>6, <1>7, <1>8, <1>9
       DEF NewCall, CancelLimitOrder, CancelAllForSymbol, CancelAll

(* Threads that are all idle are well typed. *)
LEMMA IdleTyped ==
  ASSUME IdleThreads
  PROVE  ThreadTyped
  BY NoLocalsTyped DEF IdleThreads, ThreadTyped, ThreadsTyped, CallsTyped,
     Labels, CallTyped, CheckLabels, PreLabels

(* A restart of the process keeps the invariant ... *)
LEMMA RestartTyped ==
  ASSUME TypeInv, Restart
  PROVE  TypeInv'
  <1>1. ThreadTyped'
    BY NoLocalsTyped DEF Restart, ThreadTyped, ThreadsTyped, CallsTyped,
       Labels, CallTyped, CheckLabels, PreLabels
  <1>2. ManagerTyped'
    <2>1. /\ syncCompleted' \in BOOLEAN /\ syncCalled' \in BOOLEAN
          /\ frozen' \in BOOLEAN
      BY DEF Restart
    <2>2. /\ startBalance' = None /\ expectedCash' = None
          /\ nextOrderId' = FirstId
          /\ pending' = EmptyQueue /\ expectedPositions' = EmptyQueue
      BY DEF Restart
    <2> QED BY <2>1, <2>2, QueueEmpty DEF ManagerTyped, FirstId
  <1>3. drift' \in BOOLEAN
    BY DEF Restart
  <1>4. restarts' \in Nat
    <2>1. restarts \in Nat
      BY DEF TypeInv, TypeOK
    <2> QED BY <2>1 DEF Restart
  <1> QED BY <1>1, <1>2, <1>3, <1>4
          DEF TypeInv, TypeOK, ThreadTyped, BrokerTyped, Restart, brokerVars

(* ... and so does a trade that bypasses the manager. *)
LEMMA OutOfBandTyped ==
  ASSUME TypeInv, NEW s \in Symbols, NEW d \in Sides, NEW q \in Qtys,
         NEW p \in Prices, TradeOutOfBand(s, d, q, p)
  PROVE  TypeInv'
  <1>1. q \in Nat /\ p \in Nat
    BY ManagerAssumption
  <1>2. BuyCost(q, p) \in Int /\ SellNet(q, p) \in Int
    BY <1>1 DEF BuyCost, SellNet, Unit, BuyFeeBps, SellFeeBps
  <1>3. BrokerTyped' /\ calls' \in Nat
    BY <1>1, <1>2 DEF TradeOutOfBand, Fill, TypeInv, TypeOK, BrokerTyped
  <1> QED BY <1>3 DEF TradeOutOfBand, TypeInv, TypeOK, ManagerTyped,
      ThreadsTyped, CallsTyped, managerVars, dayVars, queueVars, expectVars,
      syncVars, threadVars

(* Type correctness in its inductive form: in every reachable state a thread*)
(* that checks, places or queues an order has a whole order in its locals.  *)
THEOREM TypeInvHolds == Spec => []TypeInv
  <1>1. Init => TypeInv
    <2>1. ASSUME Init PROVE TypeInv
      <3>1. BrokerTyped
        BY <2>1, ManagerAssumption DEF Init, BrokerInit, BrokerTyped, Unit
      <3>2. ManagerTyped
        <4>1. PICK day \in {None, cash} : NewManager(day)
          BY <2>1 DEF Init
        <4>2. /\ syncCompleted \in BOOLEAN /\ syncCalled \in BOOLEAN
              /\ frozen \in BOOLEAN
          BY <4>1 DEF NewManager
        <4>3. /\ startBalance = day /\ expectedCash = day
              /\ nextOrderId = FirstId
              /\ pending = EmptyQueue /\ expectedPositions = EmptyQueue
          BY <4>1 DEF NewManager
        <4> QED BY <3>1, <4>2, <4>3, QueueEmpty
                DEF ManagerTyped, BrokerTyped, FirstId
      <3>3. ThreadTyped
        BY <2>1, IdleTyped DEF Init
      <3> QED BY <2>1, <3>1, <3>2, <3>3 DEF Init, TypeInv, TypeOK, ThreadTyped
    <2> QED BY <2>1
  <1>2. TypeInv /\ [Next]_vars => TypeInv'
    <2>1. CASE UNCHANGED vars
      BY <2>1 DEF TypeInv, TypeOK, BrokerTyped, ManagerTyped, ThreadsTyped,
         CallsTyped, vars, brokerVars, managerVars, dayVars, queueVars,
         expectVars, syncVars, threadVars, auxVars
    <2> QED BY <2>1, StepTyped, StartTyped, RestartTyped, OutOfBandTyped DEF
        Next
  <1> QED BY <1>1, <1>2, PTL DEF Spec

(* Every variable of the manager, the paper broker and the threads always   *)
(* has its type, for any threads, roles, symbols, orders, faults and bounds *)
(* that satisfy ManagerAssumption.                                          *)
THEOREM TypeCorrect == Spec => []TypeOK
  BY TypeInvHolds, PTL DEF TypeInv

(* Of all the steps of a thread only _place touches the account. *)
LEMMA StepKeepsBroker ==
  ASSUME NEW t \in Threads, NewCall(t) \/ Step(t),
         ~PlaceFills(t), ~PlaceRaises(t)
  PROVE  UNCHANGED brokerVars
  <1>1. ASSUME NewCall(t) PROVE UNCHANGED brokerVars
    BY <1>1 DEF NewCall, StartOrder, StartLimit, CancelLimitOrder,
       CancelAllForSymbol, CancelAll, Cancel, StartTick, StartDay, StartSync,
       StartReconcile
  <1>2. ASSUME Step(t) PROVE UNCHANGED brokerVars
    BY <1>2 DEF Step, Gate, Limits, LossRead, LossBalance, Freeze, LossFailed,
       PlaceRejected, Apply, LimitCheck, LimitId, LimitQueue, TickNext,
       TickEnd, DayReset, DayPositions, DayCash, DayExpect, SyncImport,
       SyncCommit, ReconcileDefault, ReconcileRead, ReconcileCompare
  <1> QED BY <1>1, <1>2

-----------------------------------------------------------------------------
(* The labels between the gate of pre_trade_check and the broker. *)
TradeLabels == {"limits", "loss_read", "loss_balance", "freeze", "place"}

(* The inductive invariant behind NoTradeBeforeSync: the gate has seen a    *)
(* completed startup sync before a thread goes past it, and nothing takes it*)
(* back while the process lives, since the sync is called once.             *)
SyncInv ==
  /\ RequireSync /\ syncCompleted => syncCalled
  /\ ~RequireSync => syncCompleted
  /\ \A t \in Threads : pc[t] = "sync_import" => syncCalled
  /\ \A t \in Threads :
       pc[t] \in TradeLabels /\ call[t].stage = "pre" => syncCompleted

(* Only the start of the sync ... *)
LEMMA CallKeepsSync ==
  ASSUME NEW t \in Threads, NewCall(t), ~StartSync(t)
  PROVE  UNCHANGED syncVars
  BY DEF NewCall, StartOrder, StartLimit, CancelLimitOrder, CancelAllForSymbol,
     CancelAll, Cancel, StartTick, StartDay, StartReconcile, managerVars

(* ... and its commit change the sync flags. *)
LEMMA StepKeepsSync ==
  ASSUME NEW t \in Threads, Step(t), ~SyncCommit(t)
  PROVE  UNCHANGED syncVars
  BY DEF Step, Gate, Limits, LossRead, LossBalance, Freeze, LossFailed,
     PlaceFills, PlaceRejected, PlaceRaises, Apply, LimitCheck, LimitId,
     LimitQueue, TickNext, TickEnd, DayReset, DayPositions, DayCash, DayExpect,
     SyncImport, ReconcileDefault, ReconcileRead, ReconcileCompare, managerVars

(* What a step does to the label and the stage of the thread that takes it.*)
SyncOk(c, label) ==
  /\ label = "sync_import" => syncCalled
  /\ label \in TradeLabels /\ c.stage = "pre" => syncCompleted

(* A step of one thread keeps SyncInv if the label it goes to permits it. *)
LEMMA SyncLocal ==
  ASSUME ThreadTyped, SyncInv, UNCHANGED syncVars, NEW t \in Threads,
         \A u \in Threads \ {t} : pc'[u] = pc[u] /\ call'[u] = call[u],
         pc'[t] = "sync_import" => syncCalled,
         pc'[t] \in TradeLabels /\ call'[t].stage = "pre" => syncCompleted
  PROVE  SyncInv'
  BY DEF SyncInv, syncVars

(* So does a step that moves nobody ... *)
LEMMA SyncSame ==
  ASSUME SyncInv, UNCHANGED <<syncVars, pc, call>>
  PROVE  SyncInv'
  BY DEF SyncInv, syncVars

(* ... one that only moves a thread to another label ... *)
LEMMA SyncMove ==
  ASSUME ThreadTyped, SyncInv, UNCHANGED syncVars,
         NEW t \in Threads, NEW label,
         Goto(t, label), UNCHANGED call, SyncOk(call[t], label)
  PROVE  SyncInv'
  BY DEF SyncInv, SyncOk, Goto, ThreadTyped, ThreadsTyped, syncVars

(* ... one that returns ... *)
LEMMA SyncReturn ==
  ASSUME ThreadTyped, SyncInv, UNCHANGED syncVars, NEW t \in Threads, Return(t)
  PROVE  SyncInv'
  BY SyncLocal DEF Return, Goto, TradeLabels, ThreadTyped, ThreadsTyped

(* ... and one that rejects the order. *)
LEMMA SyncReject ==
  ASSUME ThreadTyped, SyncInv, UNCHANGED syncVars, NEW t \in Threads,
         RejectCall(t) \/ Processed(t, "rejected")
  PROVE  SyncInv'
  BY SyncReturn, SyncMove DEF RejectCall, Processed, SyncOk, TradeLabels

(* Every step inside an operation keeps SyncInv; the gate is the one that   *)
(* establishes it for its thread, the sync's commit the one that sets the   *)
(* flag.                                                                    *)
LEMMA SyncStep ==
  ASSUME TypeInv, SyncInv, NEW t \in Threads, Step(t)
  PROVE  SyncInv'
  <1>1. ThreadTyped
    BY DEF TypeInv, TypeOK, ThreadTyped
  <1>2. SyncOk(call[t], pc[t])
    BY DEF SyncInv, SyncOk
  <1>3. CASE SyncCommit(t)
    <2>1. syncCompleted' /\ UNCHANGED syncCalled /\ Return(t) /\ syncCalled
      BY <1>2, <1>3 DEF SyncCommit, SyncOk
    <2> QED BY <1>1, <2>1 DEF SyncInv, Return, Goto, ThreadTyped, ThreadsTyped,
            TradeLabels
  <1>4. CASE ~SyncCommit(t)
    <2>1. UNCHANGED syncVars
      BY <1>4, StepKeepsSync
    <2>2. CASE Gate(t)
      <3>1. CASE ~Closed /\ Advance(t, "limits")
        <4>1. SyncOk(call[t], "limits")
          BY <3>1 DEF SyncInv, SyncOk, Closed
        <4> QED BY <1>1, <2>1, <3>1, <4>1, SyncMove DEF Advance
      <3> QED BY <1>1, <2>1, <2>2, <3>1, SyncReject DEF Gate
    <2>3. CASE Limits(t)
      BY <1>1, <1>2, <2>1, <2>3, SyncMove, SyncReject
         DEF Limits, Advance, SyncOk, TradeLabels
    <2>4. CASE LossRead(t) \/ LossBalance(t)
      <3>1. ASSUME NEW label \in {"place", "loss_failed", "freeze"},
                   Advance(t, label),
                   call[t].stage = "pre" \/ label = "freeze"
            PROVE  SyncInv'
        BY <1>1, <1>2, <2>1, <2>4, <3>1, SyncMove
           DEF LossRead, LossBalance, Advance, SyncOk, TradeLabels
      <3>2. CASE LossCheckPassed(t) \/ LossCheckFailed(t)
        BY <1>1, <2>1, <3>1, <3>2, SyncReturn DEF LossCheckPassed,
           LossCheckFailed
      <3>3. CASE /\ Goto(t, "loss_balance")
                 /\ call' = [call EXCEPT ![t].base = startBalance]
        <4>1. call'[t].stage = call[t].stage
          BY <1>1, <3>3 DEF ThreadTyped, ThreadsTyped, CallType
        <4>2. /\ pc'[t] = "loss_balance"
              /\ \A u \in Threads \ {t} : pc'[u] = pc[u] /\ call'[u] = call[u]
          BY <1>1, <3>3 DEF ThreadTyped, ThreadsTyped, Goto
        <4> QED BY <1>1, <1>2, <2>1, <2>4, <4>1, <4>2, SyncLocal
                DEF LossRead, LossBalance, SyncOk, TradeLabels
      <3> QED BY <2>4, <3>1, <3>2, <3>3 DEF LossRead, LossBalance
    <2>5. CASE Freeze(t)
      BY <1>1, <1>2, <2>1, <2>5, SyncReturn, SyncMove
         DEF Freeze, AfterFreeze, SyncOk, TradeLabels
    <2>6. CASE LossFailed(t)
      BY <1>1, <2>1, <2>6, SyncReject DEF LossFailed
    <2>7. CASE PlaceFills(t)
      BY <1>1, <2>1, <2>7, SyncMove DEF PlaceFills, SyncOk, TradeLabels
    <2>8. ASSUME Goto(t, "loss_read"),
                 call' = [call EXCEPT ![t].stage = "post"]
          PROVE  SyncInv'
      <3>1. /\ pc'[t] = "loss_read" /\ call'[t].stage = "post"
            /\ \A u \in Threads \ {t} : pc'[u] = pc[u] /\ call'[u] = call[u]
        BY <1>1, <2>8 DEF ThreadTyped, ThreadsTyped, CallType, Goto
      <3> QED BY <1>1, <2>1, <3>1, SyncLocal
    <2>9. CASE PlaceRejected(t) \/ PlaceRaises(t)
      BY <1>1, <2>1, <2>8, <2>9, SyncReject, SyncReturn DEF PlaceRejected,
         PlaceRaises
    <2>10. CASE Apply(t) \/ TickEnd(t)
      BY <1>1, <2>1, <2>8, <2>10, SyncMove DEF Apply, TickEnd, SyncOk,
         TradeLabels
    <2>11. CASE LimitCheck(t) \/ LimitQueue(t)
      BY <1>1, <2>1, <2>11, SyncMove, SyncReturn
         DEF LimitCheck, LimitQueue, SyncOk, TradeLabels
    <2>12. CASE LimitId(t)
      <3>1. /\ pc'[t] = "limit_queue"
            /\ \A u \in Threads \ {t} : pc'[u] = pc[u] /\ call'[u] = call[u]
        BY <1>1, <2>12 DEF LimitId, ThreadTyped, ThreadsTyped, Goto
      <3> QED BY <1>1, <2>1, <3>1, SyncLocal DEF TradeLabels
    <2>13. ASSUME NEW i \in batch[t].todo, TickNext(t, i) PROVE SyncInv'
      <3>1. CASE UNCHANGED <<pc, call>>
        BY <2>1, <3>1, SyncSame
      <3>2. CASE ~UNCHANGED <<pc, call>>
        <4>1. /\ pc'[t] = "gate"
              /\ \A u \in Threads \ {t} : pc'[u] = pc[u] /\ call'[u] = call[u]
          BY <1>1, <2>13, <3>2 DEF TickNext, ThreadTyped, ThreadsTyped, Goto
        <4> QED BY <1>1, <2>1, <4>1, SyncLocal DEF TradeLabels
      <3> QED BY <3>1, <3>2
    <2>14. CASE DayReset(t) \/ DayPositions(t) \/ DayCash(t) \/ DayExpect(t)
      BY <1>1, <2>1, <2>14, SyncMove, SyncReturn
         DEF DayReset, DayPositions, DayCash, DayExpect, SyncOk, TradeLabels
    <2>15. CASE ReconcileDefault(t) \/ ReconcileRead(t) \/ ReconcileCompare(t)
      BY <1>1, <2>1, <2>15, SyncMove, SyncReturn DEF ReconcileDefault,
         ReconcileRead, ReconcileCompare, SyncOk, TradeLabels
    <2>16. CASE SyncImport(t)
      BY <2>1, <2>16, SyncSame DEF SyncImport
    <2> QED BY <1>4, <2>2, <2>3, <2>4, <2>5, <2>6, <2>7, <2>9, <2>10, <2>11,
        <2>12, <2>13, <2>14, <2>15, <2>16 DEF Step
  <1> QED BY <1>3, <1>4

(* Starting an operation keeps SyncInv; starting the sync may clear the flag*)
(* only while it has never been set (it is called once).                    *)
LEMMA SyncStart ==
  ASSUME TypeInv, SyncInv, NEW t \in Threads, NewCall(t)
  PROVE  SyncInv'
  <1>1. ThreadTyped /\ syncCompleted \in BOOLEAN
    BY DEF TypeInv, TypeOK, ThreadTyped, ManagerTyped
  <1>2. CASE StartSync(t)
    <2>1. ~syncCalled /\ syncCalled'
      BY <1>2 DEF StartSync
    <2>2. CASE RequireSync
      <3>1. ~syncCompleted
        BY <2>1, <2>2 DEF SyncInv
      <3>2. \/ UNCHANGED <<pc, call>>
            \/ Goto(t, "sync_import") /\ UNCHANGED call
        BY <1>2, Zenon DEF StartSync, threadVars
      <3> QED BY <1>1, <2>1, <2>2, <3>1, <3>2
              DEF SyncInv, Goto, ThreadTyped, ThreadsTyped, TradeLabels
    <2>3. CASE ~RequireSync
      <3>1. syncCompleted' /\ UNCHANGED <<pc, call>>
        BY <1>2, <2>3, Zenon DEF StartSync, threadVars
      <3> QED BY <2>1, <2>3, <3>1 DEF SyncInv
    <2> QED BY <2>2, <2>3
  <1>3. CASE ~StartSync(t)
    <2>1. UNCHANGED syncVars
      BY <1>3, CallKeepsSync
    <2>2. ASSUME NEW label \in Labels \ (TradeLabels \cup {"sync_import"}),
                 Goto(t, label), \A u \in Threads \ {t} : call'[u] = call[u]
          PROVE  SyncInv'
      BY <1>1, <2>1, <2>2, SyncLocal DEF Goto, ThreadTyped, ThreadsTyped
    <2>3. ASSUME NEW o \in Order, StartOrder(t, o) \/ StartLimit(t, o)
          PROVE  SyncInv'
      BY <1>1, <2>2, <2>3 DEF StartOrder, StartLimit, Labels, TradeLabels,
         ThreadTyped, ThreadsTyped
    <2>4. ASSUME NEW ids, Cancel(t, ids) PROVE SyncInv'
      BY <2>1, <2>4, SyncSame DEF Cancel, threadVars
    <2>5. ASSUME NEW s \in Symbols, NEW p \in Prices,
                 StartTick(t, s, p) \/ StartDay(t, s, p)
          PROVE  SyncInv'
      BY <1>1, <2>2, <2>5 DEF StartTick, StartDay, Labels, TradeLabels,
         ThreadTyped, ThreadsTyped
    <2>6. CASE StartReconcile(t)
      BY <2>2, <2>6 DEF StartReconcile, Labels, TradeLabels
    <2> QED BY <1>3, <2>3, <2>4, <2>5, <2>6
            DEF NewCall, CancelLimitOrder, CancelAllForSymbol, CancelAll
  <1> QED BY <1>2, <1>3

(* SyncInv is an invariant of the manager, restarts included. *)
THEOREM SyncInvHolds == Spec => []SyncInv
  <1>1. Init => SyncInv
    <2> SUFFICES ASSUME Init PROVE SyncInv
      OBVIOUS
    <2>1. (syncCompleted <=> ~RequireSync)
      BY Zenon DEF Init, NewManager
    <2>2. \A t \in Threads : pc[t] = "idle"
      BY DEF Init, IdleThreads
    <2> QED BY <2>1, <2>2 DEF SyncInv, TradeLabels
  <1>2. TypeInv /\ SyncInv /\ [Next]_vars => SyncInv'
    <2> SUFFICES ASSUME TypeInv, SyncInv, [Next]_vars PROVE SyncInv'
      OBVIOUS
    <2>1. CASE UNCHANGED vars
      BY <2>1, SyncSame DEF vars, managerVars, threadVars
    <2>2. CASE Restart
      <3>1. (syncCompleted' <=> ~RequireSync)
        BY <2>2, Zenon DEF Restart
      <3>2. \A t \in Threads : pc'[t] = "idle"
        BY <2>2 DEF Restart
      <3> QED BY <3>1, <3>2 DEF SyncInv, TradeLabels
    <2>3. ASSUME NEW s \in Symbols, NEW d \in Sides,
                 NEW q \in Qtys, NEW p \in Prices,
                 TradeOutOfBand(s, d, q, p)
          PROVE  SyncInv'
      BY <2>3, SyncSame DEF TradeOutOfBand, managerVars, threadVars
    <2> QED BY <2>1, <2>2, <2>3, SyncStep, SyncStart DEF Next
  <1> QED BY <1>1, <1>2, TypeInvHolds, PTL DEF Spec

(* NoTradeBeforeSync: with require_startup_sync no order of the manager     *)
(* reaches the broker before the startup sync has completed, whatever the   *)
(* interleaving and the faults. Trades that bypass the manager are assumed  *)
(* away: they are no concern of its gate.                                   *)
THEOREM NoTradeBeforeSyncHolds ==
  ASSUME ~OutOfBand
  PROVE  Spec => NoTradeBeforeSync
  <1>1. SyncInv /\ TypeInv /\ [Next]_vars => (cash' # cash => syncCompleted)
    <2> SUFFICES ASSUME SyncInv, TypeInv, [Next]_vars, cash' # cash
                 PROVE  syncCompleted
      OBVIOUS
    <2>1. PICK t \in Threads : PlaceFills(t) \/ PlaceRaises(t)
      BY StepKeepsBroker DEF Next, brokerVars, vars, Restart, TradeOutOfBand
    <2>2. pc[t] = "place" /\ call[t].stage = "pre"
      BY <2>1 DEF PlaceFills, PlaceRaises, TypeInv, CallsTyped, CallTyped,
         PreLabels
    <2> QED BY <2>2 DEF SyncInv, TradeLabels
  <1> QED BY <1>1, SyncInvHolds, TypeInvHolds, PTL DEF Spec, NoTradeBeforeSync

-----------------------------------------------------------------------------
(* Every "lim-n" among the ids of a queue is at most lim-bound. *)
Covers(q, bound) == \A i \in DOMAIN q : i \in Nat => i <= bound

(* The inductive invariant behind IdsFresh: besides, a sync in progress     *)
(* knows the largest "lim-n" of what it has imported so far.                *)
IdsInv ==
  /\ IdsFresh
  /\ \A t \in Threads : Covers(import[t].queue, import[t].top)

(* No operation hands out an id when it starts ... *)
LEMMA CallKeepsIds ==
  ASSUME NEW t \in Threads, NewCall(t)
  PROVE  UNCHANGED nextOrderId
  BY DEF NewCall, StartOrder, StartLimit, CancelLimitOrder, CancelAllForSymbol,
     CancelAll, Cancel, StartTick, StartDay, StartSync, StartReconcile,
     managerVars, queueVars

(* ... and only three steps ever move the counter. *)
LEMMA StepKeepsIds ==
  ASSUME NEW t \in Threads, Step(t),
         ~LimitId(t), ~SyncImport(t), ~SyncCommit(t)
  PROVE  UNCHANGED nextOrderId
  BY DEF Step, Gate, Limits, LossRead, LossBalance, Freeze, LossFailed,
     PlaceFills, PlaceRejected, PlaceRaises, Apply, LimitCheck, LimitQueue,
     TickNext, TickEnd, DayReset, DayPositions, DayCash, DayExpect,
     ReconcileDefault, ReconcileRead, ReconcileCompare, managerVars, queueVars

(* Steps that queue nothing, hand out no id and import nothing. *)
LEMMA IdsSame ==
  ASSUME TypeInv, IdsInv, NEW t \in Threads, nextOrderId' = nextOrderId,
         DOMAIN pending' \subseteq DOMAIN pending,
         \A u \in Threads \ {t} : pc'[u] = pc[u] /\ call'[u] = call[u],
         pc'[t] # "limit_queue",
         \A u \in Threads : 
           import'[u] = import[u] \/ import'[u].queue = EmptyQueue
  PROVE  IdsInv'
  BY DEF IdsInv, IdsFresh, Holders, Covers, EmptyQueue

(* What returning means for the other threads: nothing. *)
LEMMA ReturnLocal ==
  ASSUME ThreadTyped, NEW t \in Threads, Return(t)
  PROVE  /\ pc'[t] = "idle"
         /\ \A u \in Threads \ {t} : pc'[u] = pc[u] /\ call'[u] = call[u]
         /\ \A u \in Threads : 
              import'[u] = import[u] \/ import'[u].queue = EmptyQueue
  BY DEF Return, Goto, ThreadTyped, ThreadsTyped, NoImport, ImportOf

(* Every step inside an operation keeps IdsInv: LimitId hands out the       *)
(* counter and moves it, LimitQueue turns a held id into a queued one, the  *)
(* import moves the counter past what it commits, all others queue nothing. *)
LEMMA IdsStep ==
  ASSUME TypeInv, IdsInv, NEW t \in Threads, Step(t)
  PROVE  IdsInv'
  <1>1. ThreadTyped /\ nextOrderId \in Nat /\ ImportType(import[t])
    BY DEF TypeInv, TypeOK, ThreadTyped, ManagerTyped, ThreadsTyped
  <1>2. CASE LimitId(t)
    <2>1. /\ nextOrderId' = nextOrderId + 1 /\ UNCHANGED <<pending, import>>
          /\ pc' = [pc EXCEPT ![t] = "limit_queue"]
          /\ call' = [call EXCEPT ![t].id = nextOrderId]
      BY <1>2 DEF LimitId, IdAfter, Goto
    <2>2. /\ call'[t].id = nextOrderId
          /\ \A u \in Threads \ {t} : pc'[u] = pc[u] /\ call'[u] = call[u]
      BY <1>1, <2>1 DEF ThreadTyped, ThreadsTyped, CallType
    <2>3. \A u \in Holders : call[u].id \in Nat /\ call[u].id < nextOrderId
      BY DEF TypeInv, CallsTyped, CallTyped, Holders, IdsInv, IdsFresh
    <2>4. \A u \in Holders' : u = t \/ u \in Holders
      BY <2>2 DEF Holders
    <2>5. (\A i \in DOMAIN pending : i \in Nat => i < nextOrderId)'
      BY <1>1, <2>1 DEF IdsInv, IdsFresh
    <2>6. (\A u \in Holders : call[u].id < nextOrderId)'
      BY <1>1, <2>1, <2>2, <2>3, <2>4
    <2>7. (\A u, w \in Holders : u # w => call[u].id # call[w].id)'
      BY <1>1, <2>1, <2>2, <2>3, <2>4 DEF IdsInv, IdsFresh
    <2> QED BY <2>1, <2>5, <2>6, <2>7 DEF IdsInv, IdsFresh
  <1>3. CASE LimitQueue(t)
    <2>1. nextOrderId' = nextOrderId /\ Return(t)
          /\ DOMAIN pending' = DOMAIN pending \cup {call[t].id}
      BY <1>3 DEF LimitQueue, Put
    <2>2. t \in Holders /\ pc'[t] = "idle"
      BY <1>1, <1>3, <2>1, ReturnLocal DEF LimitQueue, Holders
    <2> QED BY <1>1, <2>1, <2>2, ReturnLocal
            DEF IdsInv, IdsFresh, Holders, Covers, EmptyQueue
  <1>4. CASE SyncImport(t)
    <2> DEFINE raw == Head(import[t].source)
               id  == IF raw.id = NoId THEN nextOrderId ELSE raw.id
               top == IF id \in Nat /\ id > import[t].top
                      THEN id ELSE import[t].top
    <2>1. /\ UNCHANGED <<pc, call, pending>>
          /\ nextOrderId' \in {nextOrderId, nextOrderId + 1}
          /\ \/ import' = [import EXCEPT
                             ![t] = [source |-> Tail(@.source),
                                     queue  |-> Put(@.queue, id, raw.order),
                                     top    |-> top]]
             \/ import' = [import EXCEPT ![t].source = Tail(@)]
      BY <1>4 DEF SyncImport, IdAfter
    <2>2. import[t].top \in Nat /\ Covers(import[t].queue, import[t].top)
      BY <1>1 DEF ImportType, IdsInv
    <2>3. Covers(Put(import[t].queue, id, raw.order), top)
      BY <2>2 DEF Covers, Put
    <2> HIDE DEF raw, id, top
    <2>4. Covers(import'[t].queue, import'[t].top)
      <3>1. CASE import' = [import EXCEPT ![t].source = Tail(@)]
        BY <1>1, <2>2, <3>1 DEF ImportType, ThreadTyped, ThreadsTyped
      <3>2. CASE import' = [import EXCEPT
                              ![t] = [source |-> Tail(@.source),
                                      queue  |-> Put(@.queue, id, raw.order),
                                      top    |-> top]]
        <4>1. import'[t] = [source |-> Tail(import[t].source),
                            queue  |-> Put(import[t].queue, id, raw.order),
                            top    |-> top]
          BY <1>1, <3>2 DEF ThreadTyped, ThreadsTyped
        <4> QED BY <2>3, <4>1
      <3> QED BY <2>1, <3>1, <3>2
    <2>5. \A u \in Threads \ {t} : import'[u] = import[u]
      BY <1>1, <2>1 DEF ThreadTyped, ThreadsTyped
    <2>6. \A u \in Holders : call[u].id \in Nat
      BY DEF TypeInv, CallsTyped, CallTyped, Holders
    <2>7. IdsFresh'
      BY <1>1, <2>1, <2>6 DEF IdsInv, IdsFresh, Holders
    <2> QED BY <2>4, <2>5, <2>7 DEF IdsInv
  <1>5. CASE SyncCommit(t)
    <2>1. /\ pending' = import[t].queue /\ Return(t)
          /\ nextOrderId' = IdAfterImport(import[t].top)
      BY <1>5 DEF SyncCommit
    <2>2. import[t].top \in Nat /\ Covers(import[t].queue, import[t].top)
      BY <1>1 DEF ImportType, IdsInv
    <2>3. /\ nextOrderId' \in Nat /\ nextOrderId <= nextOrderId'
          /\ import[t].top < nextOrderId'
      BY <1>1, <2>1, <2>2 DEF IdAfterImport
    <2>4. \A i \in DOMAIN pending' : i \in Nat => i < nextOrderId'
      BY <2>1, <2>2, <2>3 DEF Covers
    <2>5. \A u \in Holders' : u \in Holders /\ call'[u] = call[u]
      BY <1>1, <2>1, ReturnLocal DEF Holders
    <2>6. \A u \in Holders : call[u].id \in Nat
      BY DEF TypeInv, CallsTyped, CallTyped, Holders
    <2>7. IdsFresh'
      BY <1>1, <2>3, <2>4, <2>5, <2>6 DEF IdsInv, IdsFresh
    <2> QED BY <1>1, <2>1, <2>7, ReturnLocal DEF IdsInv, Covers, EmptyQueue
  <1>6. CASE ~(LimitId(t) \/ LimitQueue(t) \/ SyncImport(t) \/ SyncCommit(t))
    <2>1. UNCHANGED nextOrderId
      BY <1>6, StepKeepsIds
    <2>2. DOMAIN pending' \subseteq DOMAIN pending
      BY <1>6 DEF Step, Gate, Limits, LossRead, LossBalance, Freeze,
         LossFailed, PlaceFills, PlaceRejected, PlaceRaises, Apply, LimitCheck,
         TickNext, TickEnd, DayReset, DayPositions, DayCash, DayExpect,
         ReconcileDefault, ReconcileRead, ReconcileCompare, managerVars,
         queueVars, Drop
    <2>3. ASSUME NEW label \in Labels \ {"limit_queue"}, Goto(t, label),
                 \A u \in Threads \ {t} : call'[u] = call[u], UNCHANGED import
          PROVE  IdsInv'
      BY <1>1, <2>1, <2>2, <2>3, IdsSame DEF Goto, ThreadTyped, ThreadsTyped
    <2>4. ASSUME Return(t) PROVE IdsInv'
      BY <1>1, <2>1, <2>2, <2>4, ReturnLocal, IdsSame
    <2>5. ASSUME NEW label \in Labels \ {"limit_queue"}, Advance(t, label)
          PROVE  IdsInv'
      BY <2>3, <2>5 DEF Advance
    <2>6. ASSUME RejectCall(t) \/ Processed(t, "rejected") PROVE IdsInv'
      BY <2>3, <2>4, <2>6 DEF RejectCall, Processed, Labels
    <2>7. ASSUME LossCheckPassed(t) \/ LossCheckFailed(t) PROVE IdsInv'
      BY <2>4, <2>5, <2>7 DEF LossCheckPassed, LossCheckFailed, Labels
    <2>8. CASE Gate(t) \/ Limits(t) \/ LossFailed(t)
      BY <2>5, <2>6, <2>8 DEF Gate, Limits, LossFailed, Labels
    <2>9. \A u \in Threads \ {t} : call'[u] = call[u]
      BY <1>1, <1>6 DEF Step, Gate, Limits, LossRead, LossBalance, Freeze,
         LossFailed, PlaceFills, PlaceRejected, PlaceRaises, Apply, LimitCheck,
         TickNext, TickEnd, DayReset, DayPositions, DayCash, DayExpect,
         ReconcileDefault, ReconcileRead, ReconcileCompare, LossCheckPassed,
         LossCheckFailed, Advance, RejectCall, Processed, Return, AfterFreeze,
         ThreadTyped, ThreadsTyped
    <2>10. CASE LossRead(t) \/ LossBalance(t)
      BY <2>3, <2>5, <2>7, <2>9, <2>10 DEF LossRead, LossBalance, Labels
    <2>11. CASE Freeze(t)
      BY <2>3, <2>4, <2>9, <2>11 DEF Freeze, AfterFreeze, Labels
    <2>12. CASE PlaceFills(t) \/ PlaceRejected(t) \/ PlaceRaises(t)
      BY <2>3, <2>4, <2>6, <2>9, <2>12
         DEF PlaceFills, PlaceRejected, PlaceRaises, Labels
    <2>13. CASE Apply(t) \/ TickEnd(t)
      BY <2>3, <2>9, <2>13 DEF Apply, TickEnd, Labels
    <2>14. CASE LimitCheck(t)
      BY <2>3, <2>4, <2>9, <2>14 DEF LimitCheck, Labels
    <2>15. ASSUME NEW i \in batch[t].todo, TickNext(t, i) PROVE IdsInv'
      <3>1. CASE Goto(t, "gate")
        BY <2>3, <2>9, <2>15, <3>1 DEF TickNext, Labels
      <3>2. CASE UNCHANGED <<pc, call>>
        BY <2>1, <2>2, <2>15, <3>2 DEF TickNext, IdsInv, IdsFresh, Holders
      <3> QED BY <2>15, <3>1, <3>2 DEF TickNext
    <2>16. CASE DayReset(t) \/ DayPositions(t) \/ DayCash(t) \/ DayExpect(t)
      BY <2>3, <2>4, <2>9, <2>16
         DEF DayReset, DayPositions, DayCash, DayExpect, Labels
    <2>17. CASE ReconcileDefault(t) \/ ReconcileRead(t) \/ ReconcileCompare(t)
      BY <2>3, <2>4, <2>9, <2>17
         DEF ReconcileDefault, ReconcileRead, ReconcileCompare, Labels
    <2> QED BY <1>6, <2>8, <2>10, <2>11, <2>12, <2>13, <2>14, <2>15, <2>16,
        <2>17 DEF Step
  <1> QED BY <1>2, <1>3, <1>4, <1>5, <1>6

(* Starting an operation keeps IdsInv. *)
LEMMA IdsStart ==
  ASSUME TypeInv, IdsInv, NEW t \in Threads, NewCall(t)
  PROVE  IdsInv'
  <1>1. ThreadTyped
    BY DEF TypeInv, TypeOK, ThreadTyped
  <1>2. UNCHANGED nextOrderId
    BY CallKeepsIds
  <1>3. DOMAIN pending' \subseteq DOMAIN pending
    BY DEF NewCall, StartOrder, StartLimit, CancelLimitOrder,
       CancelAllForSymbol, CancelAll, Cancel, StartTick, StartDay, StartSync,
       StartReconcile, managerVars, queueVars, Drop
  <1>4. ASSUME NEW label \in Labels \ {"limit_queue"}, Goto(t, label),
               \A u \in Threads \ {t} : call'[u] = call[u],
               \A u \in Threads : 
                 import'[u] = import[u] \/ import'[u].queue = EmptyQueue
        PROVE  IdsInv'
    BY <1>1, <1>2, <1>3, <1>4, IdsSame DEF Goto, ThreadTyped, ThreadsTyped
  <1>5. ASSUME UNCHANGED threadVars PROVE IdsInv'
    BY <1>2, <1>3, <1>5 DEF IdsInv, IdsFresh, Holders, threadVars
  <1>6. ASSUME NEW o \in Order, StartOrder(t, o) \/ StartLimit(t, o)
        PROVE  IdsInv'
    BY <1>1, <1>4, <1>6 DEF StartOrder, StartLimit, Labels, ThreadTyped,
       ThreadsTyped
  <1>7. ASSUME NEW ids, Cancel(t, ids) PROVE IdsInv'
    BY <1>5, <1>7 DEF Cancel
  <1>8. ASSUME NEW s \in Symbols, NEW p \in Prices,
               StartTick(t, s, p) \/ StartDay(t, s, p)
        PROVE  IdsInv'
    BY <1>1, <1>4, <1>8 DEF StartTick, StartDay, Labels, ThreadTyped,
       ThreadsTyped
  <1>9. CASE StartReconcile(t)
    BY <1>4, <1>9 DEF StartReconcile, Labels
  <1>10. CASE StartSync(t)
    <2>1. \/ UNCHANGED threadVars
          \/ /\ Goto(t, "sync_import")
             /\ \E answer \in ActiveOrders :
                  import' = [import EXCEPT ![t] = ImportOf(Limited(answer))]
             /\ UNCHANGED <<syncCompleted, call, batch, view>>
      BY <1>10, Zenon DEF StartSync
    <2>2. CASE UNCHANGED call /\ \E answer \in ActiveOrders :
                 import' = [import EXCEPT ![t] = ImportOf(Limited(answer))]
      <3>1. \A u \in Threads : 
              import'[u] = import[u] \/ import'[u].queue = EmptyQueue
        BY <1>1, <2>2 DEF ThreadTyped, ThreadsTyped, ImportOf
      <3> QED BY <1>4, <1>5, <2>1, <2>2, <3>1 DEF Labels
    <2> QED BY <1>5, <2>1, <2>2
  <1> QED BY <1>6, <1>7, <1>8, <1>9, <1>10
          DEF NewCall, CancelLimitOrder, CancelAllForSymbol, CancelAll

(* IdsFresh: the id counter is ahead of every "lim-n" in the queue or held  *)
(* by a thread that is about to queue it, and no two threads hold the same  *)
(* one: _generate_order_id never gives an id that overwrites an order.      *)
THEOREM IdsAlwaysFresh == Spec => []IdsFresh
  <1>1. Init => IdsInv
    BY DEF Init, NewManager, IdleThreads, IdsInv, IdsFresh, Holders, Covers,
       EmptyQueue, NoImport, ImportOf
  <1>2. TypeInv /\ IdsInv /\ [Next]_vars => IdsInv'
    <2> SUFFICES ASSUME TypeInv, IdsInv, [Next]_vars PROVE IdsInv'
      OBVIOUS
    <2>1. ASSUME UNCHANGED <<queueVars, threadVars>> PROVE IdsInv'
      BY <2>1 DEF IdsInv, IdsFresh, Holders, queueVars, threadVars
    <2>2. CASE UNCHANGED vars
      BY <2>1, <2>2 DEF vars, managerVars
    <2>3. CASE Restart
      BY <2>3 DEF Restart, IdsInv, IdsFresh, Holders, Covers, EmptyQueue,
         NoImport, ImportOf
    <2>4. ASSUME NEW s \in Symbols, NEW d \in Sides,
                 NEW q \in Qtys, NEW p \in Prices,
                 TradeOutOfBand(s, d, q, p)
          PROVE  IdsInv'
      BY <2>1, <2>4 DEF TradeOutOfBand, managerVars
    <2> QED BY <2>2, <2>3, <2>4, IdsStep, IdsStart DEF Next
  <1>3. IdsInv => IdsFresh
    BY DEF IdsInv
  <1> QED BY <1>1, <1>2, <1>3, TypeInvHolds, PTL DEF Spec

-----------------------------------------------------------------------------
(* Serial use: one thread does everything, and nobody trades the account    *)
(* behind its back or calls the startup sync during the day.                *)
SerialUse ==
  /\ \A t, u \in Threads : t = u
  /\ \A t \in Threads : "sync" \notin Role[t]
  /\ ~OutOfBand

(* A step inside an operation moves no other thread ... *)
LEMMA StepOthers ==
  ASSUME ThreadTyped, NEW t \in Threads, Step(t), NEW u \in Threads \ {t}
  PROVE  pc'[u] = pc[u] /\ call'[u] = call[u] /\ batch'[u] = batch[u] /\ view'[u] = view[u]
  <1>1. CASE Gate(t) \/ Limits(t) \/ LossRead(t) \/ LossBalance(t) \/ Freeze(t)
             \/ LossFailed(t)
    BY <1>1 DEF Gate, Limits, LossRead, LossBalance, Freeze, LossFailed,
       LossCheckPassed, LossCheckFailed, Advance, RejectCall, Processed, Return,
       AfterFreeze, Goto, ThreadTyped, ThreadsTyped
  <1>2. CASE PlaceFills(t) \/ PlaceRejected(t) \/ PlaceRaises(t) \/ Apply(t)
    BY <1>2 DEF PlaceFills, PlaceRejected, PlaceRaises, Apply, Processed, Return, Goto,
       ThreadTyped, ThreadsTyped
  <1>3. CASE LimitCheck(t) \/ LimitId(t) \/ LimitQueue(t)
             \/ (\E i \in batch[t].todo : TickNext(t, i)) \/ TickEnd(t)
    BY <1>3 DEF LimitCheck, LimitId, LimitQueue, TickNext, TickEnd, Return, Goto,
       ThreadTyped, ThreadsTyped
  <1>4. CASE DayReset(t) \/ DayPositions(t) \/ DayCash(t) \/ DayExpect(t)
             \/ SyncImport(t) \/ SyncCommit(t)
             \/ ReconcileDefault(t) \/ ReconcileRead(t) \/ ReconcileCompare(t)
    BY <1>4 DEF DayReset, DayPositions, DayCash, DayExpect, SyncImport, SyncCommit,
       ReconcileDefault, ReconcileRead, ReconcileCompare, Return, Goto, ThreadTyped,
       ThreadsTyped
  <1> QED BY <1>1, <1>2, <1>3, <1>4 DEF Step

(* ... and neither does the start of one. *)
LEMMA StartOthers ==
  ASSUME ThreadTyped, NEW t \in Threads, NewCall(t), NEW u \in Threads \ {t}
  PROVE  pc'[u] = pc[u] /\ call'[u] = call[u] /\ batch'[u] = batch[u] /\ view'[u] = view[u]
  <1>1. ASSUME NEW o \in Order, StartOrder(t, o) \/ StartLimit(t, o)
        PROVE  pc'[u] = pc[u] /\ call'[u] = call[u] /\ batch'[u] = batch[u] /\ view'[u] = view[u]
    BY <1>1 DEF StartOrder, StartLimit, Goto, ThreadTyped, ThreadsTyped
  <1>2. ASSUME NEW ids, Cancel(t, ids)
        PROVE  pc'[u] = pc[u] /\ call'[u] = call[u] /\ batch'[u] = batch[u] /\ view'[u] = view[u]
    BY <1>2 DEF Cancel, threadVars
  <1>3. ASSUME NEW s \in Symbols, NEW p \in Prices, StartTick(t, s, p) \/ StartDay(t, s, p)
        PROVE pc'[u] = pc[u] /\ call'[u] = call[u] /\ batch'[u] = batch[u] /\ view'[u] = view[u]
    BY <1>3 DEF StartTick, StartDay, Goto, ThreadTyped, ThreadsTyped
  <1>4. CASE StartReconcile(t)
    BY <1>4 DEF StartReconcile, Goto, ThreadTyped, ThreadsTyped
  <1>5. CASE StartSync(t)
    <2>1. \/ UNCHANGED threadVars
          \/ /\ Goto(t, "sync_import")
             /\ \E answer \in ActiveOrders :
                  import' = [import EXCEPT ![t] = ImportOf(Limited(answer))]
             /\ UNCHANGED <<syncCompleted, call, batch, view>>
      BY <1>5, Zenon DEF StartSync
    <2> QED BY <2>1 DEF threadVars, Goto, ThreadTyped, ThreadsTyped
  <1> QED BY <1>1, <1>2, <1>3, <1>4, <1>5 DEF NewCall, CancelLimitOrder,
      CancelAllForSymbol, CancelAll

-----------------------------------------------------------------------------
(* Where a thread is while an order path or a tick of its own is under way. *)
TraderLabels == {"gate", "limits", "loss_read", "loss_balance", "freeze",
                 "loss_failed", "place", "apply", "tick_next"}
TradersTrade ==
  \A t \in Threads :
    pc[t] \in TraderLabels => t \in Traders /\ call[t].op \in {"order", "tick"}

(* No step puts a thread that does not trade on the way to the broker ...   *)
LEMMA TradersStep ==
  ASSUME TypeInv, TradersTrade, NEW t \in Threads, Step(t)
  PROVE  TradersTrade'
  <1>1. ThreadTyped
    BY DEF TypeInv, TypeOK, ThreadTyped
  <1> SUFFICES pc'[t] \in TraderLabels => t \in Traders /\ call'[t].op \in {"order", "tick"}
    BY <1>1, StepOthers DEF TradersTrade
  <1>2. pc[t] \in TraderLabels => t \in Traders /\ call[t].op \in {"order", "tick"}
    BY DEF TradersTrade
  <1>3. CASE Gate(t) \/ Limits(t) \/ LossRead(t) \/ LossBalance(t) \/ Freeze(t)
             \/ LossFailed(t)
    BY <1>1, <1>2, <1>3 DEF Gate, Limits, LossRead, LossBalance, Freeze, LossFailed,
       LossCheckPassed, LossCheckFailed, Advance, RejectCall, Processed, Return,
       AfterFreeze, Goto, ThreadTyped, ThreadsTyped, TraderLabels, CallType
  <1>4. CASE PlaceFills(t) \/ PlaceRejected(t) \/ PlaceRaises(t) \/ Apply(t)
    BY <1>1, <1>2, <1>4 DEF PlaceFills, PlaceRejected, PlaceRaises, Apply, Processed,
       Return, Goto, ThreadTyped, ThreadsTyped, TraderLabels, CallType
  <1>7. ASSUME NEW i \in batch[t].todo, TickNext(t, i)
        PROVE  pc'[t] \in TraderLabels => t \in Traders /\ call'[t].op \in {"order", "tick"}
    <2>1. call'[t].op = call[t].op
      BY <1>1, <1>7 DEF TickNext, ThreadTyped, ThreadsTyped, CallType
    <2> QED BY <1>2, <1>7, <2>1 DEF TickNext, TraderLabels
  <1>5. CASE LimitCheck(t) \/ LimitId(t) \/ LimitQueue(t) \/ TickEnd(t)
    BY <1>1, <1>2, <1>5 DEF LimitCheck, LimitId, LimitQueue, TickEnd, Return, Goto,
       ThreadTyped, ThreadsTyped, TraderLabels, CallType
  <1>6. CASE DayReset(t) \/ DayPositions(t) \/ DayCash(t) \/ DayExpect(t)
             \/ SyncImport(t) \/ SyncCommit(t)
             \/ ReconcileDefault(t) \/ ReconcileRead(t) \/ ReconcileCompare(t)
    BY <1>1, <1>2, <1>6 DEF DayReset, DayPositions, DayCash, DayExpect, SyncImport,
       SyncCommit, ReconcileDefault, ReconcileRead, ReconcileCompare, Return, Goto,
       ThreadTyped, ThreadsTyped, TraderLabels, CallType
  <1> QED BY <1>3, <1>4, <1>5, <1>6, <1>7 DEF Step

(* ... nor does the start of an operation.                                  *)
LEMMA TradersStart ==
  ASSUME TypeInv, TradersTrade, NEW t \in Threads, NewCall(t)
  PROVE  TradersTrade'
  <1>1. ThreadTyped
    BY DEF TypeInv, TypeOK, ThreadTyped
  <1> SUFFICES pc'[t] \in TraderLabels => t \in Traders /\ call'[t].op \in {"order", "tick"}
    BY <1>1, StartOthers DEF TradersTrade
  <1>2. pc[t] \in TraderLabels => t \in Traders /\ call[t].op \in {"order", "tick"}
    BY DEF TradersTrade
  <1>3. ASSUME NEW o \in Order, StartOrder(t, o) \/ StartLimit(t, o)
        PROVE  pc'[t] \in TraderLabels => t \in Traders /\ call'[t].op \in {"order", "tick"}
    BY <1>1, <1>3 DEF StartOrder, StartLimit, Start, Goto, ThreadTyped, ThreadsTyped,
       TraderLabels, CallFor, NoCall, Traders
  <1>4. ASSUME NEW ids, Cancel(t, ids)
        PROVE  pc'[t] \in TraderLabels => t \in Traders /\ call'[t].op \in {"order", "tick"}
    BY <1>2, <1>4 DEF Cancel, threadVars
  <1>5. ASSUME NEW s \in Symbols, NEW p \in Prices, StartTick(t, s, p) \/ StartDay(t, s, p)
        PROVE  pc'[t] \in TraderLabels => t \in Traders /\ call'[t].op \in {"order", "tick"}
    BY <1>1, <1>5 DEF StartTick, StartDay, Start, Goto, ThreadTyped, ThreadsTyped,
       TraderLabels, NoCall, Traders
  <1>6. CASE StartReconcile(t)
    BY <1>1, <1>6 DEF StartReconcile, Goto, ThreadTyped, ThreadsTyped, TraderLabels
  <1>7. CASE StartSync(t)
    <2>1. \/ UNCHANGED threadVars
          \/ /\ Goto(t, "sync_import")
             /\ \E answer \in ActiveOrders :
                  import' = [import EXCEPT ![t] = ImportOf(Limited(answer))]
             /\ UNCHANGED <<syncCompleted, call, batch, view>>
      BY <1>7, Zenon DEF StartSync
    <2> QED BY <1>1, <1>2, <2>1 DEF threadVars, Goto, ThreadTyped, ThreadsTyped,
        TraderLabels
  <1> QED BY <1>3, <1>4, <1>5, <1>6, <1>7 DEF NewCall, CancelLimitOrder,
      CancelAllForSymbol, CancelAll

(* A thread is on the way to the broker only if its role is to trade, and   *)
(* with an order of its own or one of its tick.                             *)
THEOREM TradersAlwaysTrade == Spec => []TradersTrade
  <1>1. Init => TradersTrade
    BY DEF Init, IdleThreads, TradersTrade, TraderLabels
  <1>2. TypeInv /\ TradersTrade /\ [Next]_vars => TradersTrade'
    <2> SUFFICES ASSUME TypeInv, TradersTrade, [Next]_vars PROVE TradersTrade'
      OBVIOUS
    <2>1. CASE UNCHANGED threadVars
      BY <2>1 DEF threadVars, TradersTrade
    <2>2. CASE Restart
      BY <2>2 DEF Restart, TradersTrade, TraderLabels
    <2>3. ASSUME NEW s \in Symbols, NEW d \in Sides, NEW q \in Qtys, NEW p \in Prices,
                 TradeOutOfBand(s, d, q, p)
          PROVE  TradersTrade'
      BY <2>1, <2>3 DEF TradeOutOfBand
    <2> QED BY <2>1, <2>2, <2>3, TradersStep, TradersStart DEF Next, vars
  <1> QED BY <1>1, <1>2, TypeInvHolds, PTL DEF Spec


(* StartupSafe: what the two theorems above say of a restart.  The gate is  *)
(* about the manager's own trades, as in NoTradeBeforeSyncHolds.            *)
THEOREM StartupIsSafe ==
  ASSUME ~OutOfBand
  PROVE  Spec => StartupSafe
  BY NoTradeBeforeSyncHolds, IdsAlwaysFresh DEF StartupSafe

-----------------------------------------------------------------------------
(***************************************************************************)
(* Further proofs about ExecutionManager, each for the use the property is *)
(* about: PositionLimitHolds for any number of threads, FreezeAlwaysHolds  *)
(* and NoFalseDriftHolds for one caller.  Of its queue: with one thread    *)
(* feeding ticks, an order is dealt with once, whatever other threads      *)
(* queue, cancel and freeze (HandledOnceHolds); with one caller, the queue *)
(* implements OrderLifecycle (LifecycleHolds).  Both speak of the history  *)
(* of each order, of which HandledInv lists the possible values.  And of   *)
(* its books: however many threads trade at once, the expected state is    *)
(* the account less the trades on their way (ExpectedAlwaysTracks).        *)
(***************************************************************************)

-----------------------------------------------------------------------------
(* What PositionLimit takes for granted: finitely many threads, some of     *)
(* which trade, orders that have a largest quantity, and an account only    *)
(* the manager trades.                                                      *)
TradingBounded ==
  /\ IsFiniteSet(Threads) /\ Traders # {}
  /\ \E q \in Qtys : \A r \in Qtys : r <= q
  /\ MaxPosition \in Nat /\ ~OutOfBand

LargestOrder == Max(Qtys)
PositionBound == MaxPosition + (Cardinality(Traders) - 1) * LargestOrder

(* The threads between the position check and the broker with a purchase of *)
(* symbol s.                                                                *)
Buyers(s) ==
  {t \in Threads : /\ pc[t] \in {"loss_read", "loss_balance", "freeze", "place"}
                   /\ call[t].stage = "pre" /\ call[t].side = "buy"
                   /\ call[t].symbol = s}

(* The inductive invariant behind PositionLimit: what is held and what the  *)
(* buyers may still buy stay below the bound, the buyer that was checked    *)
(* last counting with its own order and the others with the largest.        *)
RoomFor(s) ==
  \/ positions[s] + Cardinality(Buyers(s)) * LargestOrder <= PositionBound
  \/ \E w \in Buyers(s) :
       positions[s] + call[w].qty
         + (Cardinality(Buyers(s)) - 1) * LargestOrder <= PositionBound
RoomInv == \A s \in Symbols : RoomFor(s)

(* The largest quantity there is: Max of a finite set is one of its members *)
(* and bounds the others.                                                   *)
LEMMA LargestOrderIs ==
  ASSUME TradingBounded
  PROVE  LargestOrder \in Qtys /\ LargestOrder \in Nat /\ \A q \in Qtys : q \in Nat /\ q <= LargestOrder
  <1>1. Qtys \subseteq Nat
    BY ManagerAssumption
  <1>2. \E q \in Qtys : \A r \in Qtys : q >= r
    BY <1>1 DEF TradingBounded
  <1>3. LargestOrder \in Qtys /\ \A r \in Qtys : LargestOrder >= r
    BY <1>2 DEF LargestOrder, Max
  <1> QED BY <1>1, <1>3

(* Multiples of the largest order. *)
LEMMA Multiples ==
  ASSUME NEW n \in Nat, NEW m \in Nat
  PROVE  /\ n * m \in Nat
         /\ (n + 1) * m = n * m + m
         /\ (n - 1) * m = n * m - m
         /\ n >= 1 => (n - 1) * m \in Nat
  OBVIOUS

(* The buyers are traders, so they are finitely many.                       *)
LEMMA BuyersFinite ==
  ASSUME TypeInv, TradersTrade, TradingBounded, NEW s
  PROVE  /\ IsFiniteSet(Buyers(s)) /\ Cardinality(Buyers(s)) \in Nat
         /\ Cardinality(Buyers(s)) <= Cardinality(Traders)
         /\ Cardinality(Traders) \in Nat /\ Cardinality(Traders) >= 1
         /\ \A w \in Buyers(s) : call[w].qty \in Qtys
  <1>1. Buyers(s) \subseteq Traders /\ Traders \subseteq Threads
    BY DEF Buyers, TradersTrade, TraderLabels, Traders
  <1>2. IsFiniteSet(Traders) /\ IsFiniteSet(Buyers(s))
    BY <1>1, FS_Subset DEF TradingBounded
  <1>3. Cardinality(Traders) \in Nat /\ Cardinality(Buyers(s)) \in Nat
    BY <1>2, FS_CardinalityType
  <1>4. Cardinality(Buyers(s)) <= Cardinality(Traders)
    BY <1>1, <1>2, FS_Subset
  <1>5. Cardinality(Traders) # 0
    BY <1>2, FS_EmptySet DEF TradingBounded
  <1>6. \A w \in Buyers(s) : call[w].qty \in Qtys
    BY DEF Buyers, TypeInv, CallsTyped, CallTyped, CheckLabels, HasOrder
  <1> QED BY <1>2, <1>3, <1>4, <1>5, <1>6

(* The bound leaves room for what is held. *)
LEMMA RoomIsEnough ==
  ASSUME TypeInv, TradersTrade, TradingBounded, NEW s \in Symbols, RoomFor(s)
  PROVE  positions[s] <= PositionBound
  <1> DEFINE n == Cardinality(Buyers(s))
             k == Cardinality(Traders)
  <1>1. n \in Nat /\ k \in Nat /\ k >= 1 /\ LargestOrder \in Nat /\ MaxPosition \in Nat
    BY BuyersFinite, LargestOrderIs DEF TradingBounded
  <1>2. positions[s] \in Int
    BY DEF TypeInv, TypeOK, BrokerTyped
  <1>3. PositionBound \in Nat
    BY <1>1, Multiples DEF PositionBound
  <1>4. n * LargestOrder \in Nat
    BY <1>1, Multiples
  <1>5. ASSUME NEW w \in Buyers(s)
        PROVE  call[w].qty \in Nat /\ (n - 1) * LargestOrder \in Nat
    <2>1. n # 0
      BY <1>5, BuyersFinite, FS_EmptySet
    <2> QED BY <1>1, <1>5, <2>1, Multiples, BuyersFinite, ManagerAssumption
  <1> HIDE DEF n, k
  <1> QED BY <1>2, <1>3, <1>4, <1>5 DEF RoomFor, n

(* A step after which thread t is no buyer, whether it bought or not ... *)
LEMMA RoomAfterLeaving ==
  ASSUME TypeInv, TypeInv', TradersTrade, TradersTrade', TradingBounded,
         NEW s \in Symbols, RoomFor(s), NEW t \in Threads,
         \A u \in Threads \ {t} : pc'[u] = pc[u] /\ call'[u] = call[u],
         t \notin Buyers(s)',
         \/ positions'[s] <= positions[s]
         \/ t \in Buyers(s) /\ positions'[s] <= positions[s] + call[t].qty
  PROVE  RoomFor(s)'
  <1> DEFINE n == Cardinality(Buyers(s))
             m == Cardinality(Buyers(s)')
             L == LargestOrder
  <1>1. /\ n \in Nat /\ m \in Nat /\ L \in Nat /\ PositionBound \in Int
        /\ positions[s] \in Int /\ positions'[s] \in Int
    <2>1. MaxPosition \in Nat /\ Cardinality(Traders) \in Nat /\ L \in Nat
      BY BuyersFinite, LargestOrderIs DEF TradingBounded
    <2>2. Buyers(s)' \subseteq Buyers(s)
      BY DEF Buyers
    <2>3. IsFiniteSet(Buyers(s)')
      BY <2>2, BuyersFinite, FS_Subset
    <2> QED BY <2>1, <2>3, BuyersFinite, FS_CardinalityType DEF TypeInv, TypeOK,
        BrokerTyped, PositionBound
  <1>2. \A w \in Buyers(s) : call[w].qty \in Nat /\ call[w].qty <= L
    BY BuyersFinite, LargestOrderIs
  <1>3. Buyers(s)' = Buyers(s) \ {t} /\ \A w \in Buyers(s)' : call'[w] = call[w] /\ w # t
    BY DEF Buyers
  <1>4. m = IF t \in Buyers(s) THEN n - 1 ELSE n
    BY <1>3, BuyersFinite, FS_RemoveElement
  <1>5. n * L \in Nat /\ (n - 1) * L = n * L - L /\ m * L \in Nat /\ (m - 1) * L = m * L - L
    BY <1>1, Multiples
  <1>6. m = n - 1 => (m - 1) * L = n * L - L - L
    BY <1>1, <1>5
  <1> DEFINE nL == n * L
             P == positions[s]
             Q == positions'[s]
             B == PositionBound
  <1>7. /\ nL \in Nat
        /\ P + nL <= B \/ \E w \in Buyers(s) : P + call[w].qty + nL - L <= B
    BY <1>1, <1>2, <1>5 DEF RoomFor
  <1>8. SUFFICES Q + m * L <= B \/ \E w \in Buyers(s)' : Q + call'[w].qty + (m - 1) * L <= B
    BY DEF RoomFor, PositionBound, LargestOrder
  <1>9. CASE t \notin Buyers(s)
    <2>1. m * L = nL /\ (m - 1) * L = nL - L /\ Q <= P
      BY <1>4, <1>5, <1>9
    <2>2. Buyers(s)' = Buyers(s)
      BY <1>3, <1>9
    <2> HIDE DEF n, m, L, nL, P, Q, B
    <2> QED BY <1>1, <1>2, <1>3, <1>7, <2>1, <2>2 DEF P, Q, B, L
  <1>10. CASE t \in Buyers(s)
    <2>1. m = n - 1 /\ m * L = nL - L /\ (m - 1) * L = nL - L - L
      BY <1>4, <1>5, <1>6, <1>10
    <2>2. call[t].qty \in Nat /\ call[t].qty <= L /\ Q <= P + call[t].qty
      BY <1>1, <1>2, <1>10
    <2>3. CASE P + nL <= B
      <3> HIDE DEF n, m, L, nL, P, Q, B
      <3> QED BY <1>1, <1>7, <2>1, <2>2, <2>3 DEF P, Q, B, L
    <2>4. ASSUME NEW w \in Buyers(s), P + call[w].qty + nL - L <= B
          PROVE  Q + m * L <= B \/ \E v \in Buyers(s)' : Q + call'[v].qty + (m - 1) * L <= B
      <3>1. call[w].qty \in Nat /\ call[w].qty <= L
        BY <1>2
      <3>2. CASE w = t
        <4>1. Q + m * L <= B
          <5> HIDE DEF n, m, L, nL, P, Q, B
          <5> QED BY <1>1, <1>7, <2>1, <2>2, <2>4, <3>1, <3>2 DEF P, Q, B, L
        <4> QED BY <4>1
      <3>3. CASE w # t
        <4>1. w \in Buyers(s)' /\ call'[w].qty = call[w].qty
          BY <1>3, <3>3
        <4>2. Q + call[w].qty + (m - 1) * L <= B
          <5> HIDE DEF n, m, L, nL, P, Q, B
          <5> QED BY <1>1, <1>7, <2>1, <2>2, <2>4, <3>1 DEF P, Q, B, L
        <4> QED BY <4>1, <4>2
      <3> QED BY <3>2, <3>3
    <2> QED BY <1>7, <2>3, <2>4
  <1> QED BY <1>9, <1>10

(* ... one after which it still is one, with the same order ... *)
LEMMA RoomAfterStaying ==
  ASSUME NEW s, RoomFor(s), NEW t \in Threads,
         \A u \in Threads \ {t} : pc'[u] = pc[u] /\ call'[u] = call[u],
         t \in Buyers(s), t \in Buyers(s)', call'[t].qty = call[t].qty,
         positions'[s] = positions[s]
  PROVE  RoomFor(s)'
  <1>1. Buyers(s)' = Buyers(s)
    BY DEF Buyers
  <1>2. \A w \in Buyers(s) : call'[w].qty = call[w].qty
    BY DEF Buyers
  <1> QED BY <1>1, <1>2 DEF RoomFor, PositionBound

(* ... and one with which it becomes one: its order has just been checked.  *)
LEMMA RoomAfterEntering ==
  ASSUME TypeInv, TypeInv', TradersTrade, TradersTrade', TradingBounded,
         NEW s \in Symbols,
         NEW t \in Threads,
         \A u \in Threads \ {t} : pc'[u] = pc[u] /\ call'[u] = call[u],
         t \notin Buyers(s), t \in Buyers(s)', call'[t].qty = call[t].qty,
         positions'[s] = positions[s], positions[s] + call[t].qty <= MaxPosition
  PROVE  RoomFor(s)'
  <1> DEFINE n == Cardinality(Buyers(s))
             m == Cardinality(Buyers(s)')
             k == Cardinality(Traders)
             L == LargestOrder
  <1>1. /\ n \in Nat /\ m \in Nat /\ k \in Nat /\ L \in Nat /\ MaxPosition \in Nat
        /\ positions[s] \in Int
    <2>1. Buyers(s)' = Buyers(s) \cup {t}
      BY DEF Buyers
    <2>2. IsFiniteSet(Buyers(s)')
      BY <2>1, BuyersFinite, FS_AddElement
    <2> QED BY <2>2, BuyersFinite, LargestOrderIs, FS_CardinalityType DEF TypeInv,
        TypeOK, BrokerTyped, TradingBounded
  <1>2. m <= k /\ m >= 1
    <2>1. Buyers(s)' \subseteq Traders
      BY DEF Buyers, TradersTrade, TraderLabels
    <2>2. IsFiniteSet(Traders)
      BY FS_Subset DEF TradingBounded, Traders
    <2>3. IsFiniteSet(Buyers(s)') /\ m <= k
      BY <2>1, <2>2, FS_Subset
    <2>4. m # 0
      BY <2>3, FS_EmptySet
    <2> QED BY <1>1, <2>3, <2>4
  <1>3. (m - 1) * L <= (k - 1) * L
    <2> HIDE DEF m, k, L
    <2>1. ASSUME NEW a \in Nat, NEW b \in Nat, a <= b PROVE a * L <= b * L
      BY <1>1, <2>1
    <2> QED BY <1>1, <1>2, <2>1
  <1>4. (m - 1) * L \in Int /\ (k - 1) * L \in Int
    <2> HIDE DEF m, k, L
    <2> QED BY <1>1
  <1>5. call[t].qty \in Int
    <2>1. call'[t].qty \in Qtys
      BY DEF Buyers, TypeInv, CallsTyped, CallTyped, CheckLabels, HasOrder
    <2> QED BY <2>1, LargestOrderIs
  <1>6. positions'[s] + call'[t].qty + (m - 1) * L <= PositionBound
    <2> HIDE DEF m, k, L
    <2> QED BY <1>1, <1>3, <1>4, <1>5 DEF PositionBound, L, k
  <1> QED BY <1>6 DEF RoomFor, PositionBound

-----------------------------------------------------------------------------
(* The label of a thread with a purchase past the check. *)
BuyLabels == {"loss_read", "loss_balance", "freeze", "place"}

(* Only Limits lets a thread past the check, and only its order is bought.  *)
LEMMA BuyersStep ==
  ASSUME TypeInv, NEW t \in Threads, NEW s \in Symbols, Step(t), ~Limits(t)
  PROVE  /\ t \in Buyers(s)' => t \in Buyers(s) /\ call'[t].qty = call[t].qty
                                /\ positions'[s] = positions[s]
         /\ t \notin Buyers(s)' => \/ positions'[s] <= positions[s]
                                   \/ t \in Buyers(s) /\ positions'[s] <= positions[s] + call[t].qty
  <1>1. ThreadTyped /\ BrokerTyped
    BY DEF TypeInv, TypeOK, ThreadTyped
  <1> DEFINE Goal ==
        /\ t \in Buyers(s)' =>
             t \in Buyers(s) /\ call'[t].qty = call[t].qty /\ positions'[s] = positions[s]
        /\ t \notin Buyers(s)' =>
             \/ positions'[s] <= positions[s]
             \/ t \in Buyers(s) /\ positions'[s] <= positions[s] + call[t].qty
  <1>2. positions[s] \in Int
    BY <1>1 DEF BrokerTyped
  <1>3. ASSUME UNCHANGED brokerVars,
               \/ pc'[t] \notin BuyLabels
               \/ call'[t].stage = "post"
               \/ /\ pc[t] \in BuyLabels /\ call'[t].stage = call[t].stage
                  /\ call'[t].side = call[t].side /\ call'[t].symbol = call[t].symbol
                  /\ call'[t].qty = call[t].qty
        PROVE  Goal
    <2>1. positions'[s] = positions[s]
      BY <1>3 DEF brokerVars
    <2>2. t \in Buyers(s)' => t \in Buyers(s) /\ call'[t].qty = call[t].qty
      BY <1>3 DEF Buyers, BuyLabels
    <2> QED BY <1>2, <2>1, <2>2
  <1>4. CASE Gate(t) \/ LossFailed(t)
    BY <1>1, <1>3, <1>4 DEF Gate, LossFailed, Advance, RejectCall, Processed, Return,
       Goto, ThreadTyped, ThreadsTyped, BuyLabels
  <1>5. CASE LossRead(t)
    BY <1>1, <1>3, <1>5 DEF LossRead, LossCheckPassed, LossCheckFailed, Advance,
       Return, Goto, ThreadTyped, ThreadsTyped, BuyLabels, CallType
  <1>6. CASE LossBalance(t)
    BY <1>1, <1>3, <1>6 DEF LossBalance, LossCheckPassed, LossCheckFailed, Advance,
       Return, Goto, ThreadTyped, ThreadsTyped, BuyLabels
  <1>7. CASE Freeze(t)
    BY <1>1, <1>3, <1>7 DEF Freeze, AfterFreeze, Return, Goto, ThreadTyped,
       ThreadsTyped, BuyLabels
  <1>8. CASE PlaceRejected(t)
    BY <1>1, <1>3, <1>8 DEF PlaceRejected, Processed, Goto, ThreadTyped, ThreadsTyped,
       BuyLabels, CallType
  <1>9. CASE PlaceFills(t) \/ PlaceRaises(t)
    <2>1. pc'[t] \in {"apply", "idle"} /\ pc[t] = "place" /\ call[t].stage = "pre"
      BY <1>1, <1>9 DEF PlaceFills, PlaceRaises, Return, Goto, ThreadTyped,
         ThreadsTyped, CallsTyped, CallTyped, PreLabels
    <2>2. call[t].symbol \in Symbols /\ call[t].qty \in Nat
      BY <2>1, ManagerAssumption DEF TypeInv, CallsTyped, CallTyped, HasOrder,
         CheckLabels
    <2>3. CASE UNCHANGED brokerVars
      BY <1>3, <2>1, <2>3 DEF BuyLabels
    <2>4. CASE Fill(call[t].symbol, call[t].side, call[t].qty, call[t].price)
      <3>1. t \notin Buyers(s)'
        BY <2>1 DEF Buyers
      <3>2. CASE call[t].side = "buy"
        BY <1>1, <1>2, <2>1, <2>2, <2>4, <3>1, <3>2 DEF Fill, Buyers, BrokerTyped
      <3>3. CASE call[t].side # "buy"
        BY <1>1, <1>2, <2>2, <2>4, <3>1, <3>3 DEF Fill, BrokerTyped
      <3> QED BY <3>2, <3>3
    <2> QED BY <1>9, <2>3, <2>4 DEF PlaceFills, PlaceRaises
  <1>10. CASE Apply(t) \/ TickEnd(t)
    BY <1>1, <1>3, <1>10 DEF Apply, TickEnd, Goto, ThreadTyped, ThreadsTyped, CallType,
       BuyLabels
  <1>11. CASE LimitCheck(t) \/ LimitId(t) \/ LimitQueue(t)
    BY <1>1, <1>3, <1>11 DEF LimitCheck, LimitId, LimitQueue, Return, Goto,
       ThreadTyped, ThreadsTyped, BuyLabels
  <1>12. ASSUME NEW i \in batch[t].todo, TickNext(t, i) PROVE Goal
    <2>1. pc'[t] \in {"tick_next", "gate"}
      BY <1>1, <1>12 DEF TickNext, Goto, ThreadTyped, ThreadsTyped
    <2> QED BY <1>3, <1>12, <2>1 DEF TickNext, BuyLabels
  <1>13. CASE DayReset(t) \/ DayPositions(t) \/ DayCash(t) \/ DayExpect(t)
    BY <1>1, <1>3, <1>13 DEF DayReset, DayPositions, DayCash, DayExpect, Return, Goto,
       ThreadTyped, ThreadsTyped, BuyLabels
  <1>14. CASE SyncImport(t) \/ SyncCommit(t)
    BY <1>1, <1>3, <1>14 DEF SyncImport, SyncCommit, Return, Goto, ThreadTyped,
       ThreadsTyped, BuyLabels
  <1>15. CASE ReconcileDefault(t) \/ ReconcileRead(t) \/ ReconcileCompare(t)
    BY <1>1, <1>3, <1>15 DEF ReconcileDefault, ReconcileRead, ReconcileCompare, Return,
       Goto, ThreadTyped, ThreadsTyped, BuyLabels
  <1> QED BY <1>4, <1>5, <1>6, <1>7, <1>8, <1>9, <1>10, <1>11, <1>12, <1>13, <1>14,
      <1>15 DEF Step

(* The check itself: a thread that passes it has room for its order. *)
LEMMA BuyersLimits ==
  ASSUME TypeInv, NEW t \in Threads, NEW s \in Symbols, Limits(t)
  PROVE  /\ positions'[s] = positions[s] /\ t \notin Buyers(s)
         /\ t \in Buyers(s)' => /\ positions[s] + call[t].qty <= MaxPosition
                                /\ call'[t].qty = call[t].qty
  <1>1. ThreadTyped
    BY DEF TypeInv, TypeOK, ThreadTyped
  <1>2. positions'[s] = positions[s] /\ pc[t] = "limits"
    BY DEF Limits, brokerVars
  <1>3. CASE OrderAllowed(call[t]) /\ Advance(t, "loss_read")
    BY <1>1, <1>2, <1>3 DEF Advance, OrderAllowed, Buyers
  <1>4. CASE RejectCall(t)
    BY <1>1, <1>2, <1>4 DEF RejectCall, Return, Processed, Goto, Buyers, ThreadTyped,
       ThreadsTyped
  <1> QED BY <1>3, <1>4 DEF Limits

(* Starting an operation brings nobody past the check. *)
LEMMA BuyersStart ==
  ASSUME TypeInv, NEW t \in Threads, NEW s \in Symbols, NewCall(t)
  PROVE  t \notin Buyers(s)' /\ positions'[s] = positions[s]
  <1>1. ThreadTyped
    BY DEF TypeInv, TypeOK, ThreadTyped
  <1>2. positions' = positions
    BY DEF NewCall, StartOrder, StartLimit, CancelLimitOrder, CancelAllForSymbol,
       CancelAll, Cancel, StartTick, StartDay, StartSync, StartReconcile, brokerVars
  <1>3. ASSUME pc'[t] \notin BuyLabels PROVE t \notin Buyers(s)'
    BY <1>3 DEF Buyers, BuyLabels
  <1>4. ASSUME NEW o \in Order, StartOrder(t, o) \/ StartLimit(t, o)
        PROVE  pc'[t] \notin BuyLabels
    BY <1>1, <1>4 DEF StartOrder, StartLimit, Goto, ThreadTyped, ThreadsTyped, BuyLabels
  <1>5. ASSUME NEW ids, Cancel(t, ids) PROVE pc'[t] \notin BuyLabels
    BY <1>5 DEF Cancel, Start, threadVars, BuyLabels
  <1>6. ASSUME NEW x \in Symbols, NEW p \in Prices, StartTick(t, x, p) \/ StartDay(t, x, p)
        PROVE  pc'[t] \notin BuyLabels
    BY <1>1, <1>6 DEF StartTick, StartDay, Goto, ThreadTyped, ThreadsTyped, BuyLabels
  <1>7. CASE StartReconcile(t)
    BY <1>1, <1>3, <1>2, <1>7 DEF StartReconcile, Goto, ThreadTyped, ThreadsTyped,
       BuyLabels
  <1>8. CASE StartSync(t)
    <2>1. pc[t] = "idle" /\ (UNCHANGED pc \/ Goto(t, "sync_import"))
      BY <1>8, Zenon DEF StartSync, Start, threadVars
    <2> QED BY <1>1, <1>2, <1>3, <2>1 DEF Goto, ThreadTyped, ThreadsTyped, BuyLabels
  <1> QED BY <1>2, <1>3, <1>4, <1>5, <1>6, <1>7, <1>8 DEF NewCall, CancelLimitOrder,
      CancelAllForSymbol, CancelAll

(* The inductive step, whoever takes it. *)
LEMMA RoomStep ==
  ASSUME TypeInv, TypeInv', TradersTrade, TradersTrade', TradingBounded, RoomInv,
         NEW t \in Threads, NewCall(t) \/ Step(t)
  PROVE  RoomInv'
  <1> SUFFICES ASSUME NEW s \in Symbols PROVE RoomFor(s)'
    BY DEF RoomInv
  <1>1. ThreadTyped /\ RoomFor(s)
    BY DEF TypeInv, TypeOK, ThreadTyped, RoomInv
  <1>2. \A u \in Threads \ {t} : pc'[u] = pc[u] /\ call'[u] = call[u]
    BY <1>1, StepOthers, StartOthers
  <1>3. positions[s] \in Int /\ positions'[s] \in Int
    BY DEF TypeInv, TypeOK, BrokerTyped
  <1>4. CASE NewCall(t)
    BY <1>1, <1>2, <1>3, <1>4, BuyersStart, RoomAfterLeaving
  <1>5. CASE Limits(t)
    BY <1>1, <1>2, <1>3, <1>5, BuyersLimits, RoomAfterLeaving, RoomAfterEntering
  <1>6. CASE Step(t) /\ ~Limits(t)
    <2>1. CASE t \in Buyers(s)'
      BY <1>1, <1>2, <1>6, <2>1, BuyersStep, RoomAfterStaying
    <2>2. CASE t \notin Buyers(s)'
      BY <1>1, <1>2, <1>6, <2>2, BuyersStep, RoomAfterLeaving
    <2> QED BY <2>1, <2>2
  <1> QED BY <1>4, <1>5, <1>6

(* PositionLimit: however the threads interleave, and across restarts, a    *)
(* symbol is held above max_position_per_symbol by at most one order of     *)
(* every trading thread but one.                                            *)
THEOREM PositionLimitHolds ==
  ASSUME TradingBounded
  PROVE  Spec => []PositionLimit
  <1> DEFINE Inv == TradersTrade /\ RoomInv
  <1>1. Init => Inv
    <2> SUFFICES ASSUME Init PROVE Inv
      OBVIOUS
    <2>1. /\ \A t \in Threads : pc[t] = "idle"
          /\ \A s \in Symbols : positions[s] = 0
      BY DEF Init, IdleThreads, BrokerInit
    <2>2. TradersTrade
      BY <2>1 DEF TradersTrade, TraderLabels
    <2>3. \A s \in Symbols : Buyers(s) = {}
      BY <2>1 DEF Buyers
    <2>4. PositionBound \in Nat /\ LargestOrder \in Nat
      <3>1. IsFiniteSet(Traders)
        BY FS_Subset DEF TradingBounded, Traders
      <3>2. Cardinality(Traders) \in Nat /\ Cardinality(Traders) >= 1
        BY <3>1, FS_CardinalityType, FS_EmptySet DEF TradingBounded
      <3> QED BY <3>2, LargestOrderIs, Multiples DEF PositionBound, TradingBounded
    <2>5. Cardinality({}) = 0
      BY FS_EmptySet
    <2>6. ASSUME NEW s \in Symbols PROVE RoomFor(s)
      <3>1. positions[s] = 0 /\ Cardinality(Buyers(s)) = 0
        BY <2>1, <2>3, <2>5
      <3>2. positions[s] + Cardinality(Buyers(s)) * LargestOrder <= PositionBound
        BY <2>4, <3>1
      <3> QED BY <3>2 DEF RoomFor
    <2> QED BY <2>2, <2>6 DEF RoomInv
  <1>2. TypeInv /\ TypeInv' /\ Inv /\ [Next]_vars => Inv'
    <2> SUFFICES ASSUME TypeInv, TypeInv', Inv, [Next]_vars PROVE Inv'
      OBVIOUS
    <2>1. ASSUME NEW t \in Threads, NewCall(t) \/ Step(t) PROVE Inv'
      <3>1. TradersTrade'
        BY <2>1, TradersStep, TradersStart
      <3> QED BY <2>1, <3>1, RoomStep
    <2>2. CASE Restart
      <3>1. (\A t \in Threads : pc'[t] = "idle") /\ positions' = positions
        BY <2>2 DEF Restart, brokerVars
      <3>2. TradersTrade'
        BY <3>1 DEF TradersTrade, TraderLabels
      <3>3. ASSUME NEW s \in Symbols PROVE RoomFor(s)'
        <4>1. Buyers(s)' = {} /\ Cardinality({}) = 0
          BY <3>1, FS_EmptySet DEF Buyers
        <4>2. positions[s] <= PositionBound
          BY RoomIsEnough DEF RoomInv
        <4>3. positions[s] \in Int /\ LargestOrder \in Nat
          BY LargestOrderIs DEF TypeInv, TypeOK, BrokerTyped
        <4>4. positions'[s] + Cardinality(Buyers(s)') * LargestOrder <= PositionBound
          BY <3>1, <4>1, <4>2, <4>3
        <4> QED BY <4>4 DEF RoomFor, PositionBound
      <3> QED BY <3>2, <3>3 DEF RoomInv
    <2>3. CASE UNCHANGED vars
      <3>1. UNCHANGED <<positions, pc, call>>
        BY <2>3 DEF vars, brokerVars, threadVars
      <3>2. TradersTrade'
        BY <3>1 DEF TradersTrade
      <3>3. ASSUME NEW s \in Symbols PROVE RoomFor(s)'
        BY <3>1 DEF RoomInv, RoomFor, Buyers, PositionBound
      <3> QED BY <3>2, <3>3 DEF RoomInv
    <2>4. ASSUME NEW s \in Symbols, NEW d \in Sides, NEW q \in Qtys, NEW p \in Prices,
                 TradeOutOfBand(s, d, q, p)
          PROVE  Inv'
      BY <2>4 DEF TradeOutOfBand, TradingBounded
    <2> QED BY <2>1, <2>2, <2>3, <2>4 DEF Next
  <1>3. TypeInv /\ Inv => PositionLimit
    BY RoomIsEnough DEF RoomInv, PositionLimit, PositionBound, LargestOrder
  <1> HIDE DEF Inv
  <1> QED BY <1>1, <1>2, <1>3, TypeInvHolds, PTL DEF Spec

-----------------------------------------------------------------------------
(* Where no thread may be on a frozen day: between the check of the freeze  *)
(* and the broker, or between it and the queue.                             *)
Quiet(t) ==
  /\ pc[t] \notin {"limits", "loss_balance", "freeze", "place", "limit_check", "limit_id",
                   "limit_queue"}
  /\ pc[t] = "loss_read" => call[t].stage = "post"

(* The inductive invariant behind FreezeHolds. *)
FrozenInv ==
  /\ \A t \in Threads : pc[t] # "sync_import"
  /\ frozen => pending = EmptyQueue /\ \A t \in Threads : Quiet(t)

(* Removing everything, or anything from nothing, leaves nothing.           *)
LEMMA DropsToEmpty ==
  ASSUME NEW q, NEW S
  PROVE  /\ Drop(EmptyQueue, S) = EmptyQueue
         /\ Drop(q, DOMAIN q) = EmptyQueue
  BY DEF Drop, EmptyQueue

(* The inductive step inside an operation ...                               *)
LEMMA FrozenStep ==
  ASSUME SerialUse, TypeInv, FrozenInv, NEW t \in Threads, Step(t)
  PROVE  FrozenInv'
  <1>1. ThreadTyped /\ \A u \in Threads : u = t
    BY DEF TypeInv, TypeOK, ThreadTyped, SerialUse
  <1>2. /\ pc[t] # "sync_import"
        /\ frozen => pending = EmptyQueue /\ Quiet(t)
    BY DEF FrozenInv
  <1> SUFFICES /\ pc'[t] # "sync_import"
               /\ frozen' => pending' = EmptyQueue /\ Quiet(t)'
    BY <1>1 DEF FrozenInv
  <1>3. CASE Gate(t)
    BY <1>1, <1>2, <1>3 DEF Gate, Closed, Advance, RejectCall, Processed, Return, Goto,
       ThreadTyped, ThreadsTyped, Quiet, managerVars, dayVars, queueVars
  <1>4. CASE Limits(t) \/ LossFailed(t)
    BY <1>1, <1>2, <1>4 DEF Limits, LossFailed, Advance, RejectCall, Processed, Return,
       Goto, ThreadTyped, ThreadsTyped, Quiet, managerVars, dayVars, queueVars
  <1>5. CASE LossRead(t) \/ LossBalance(t)
    BY <1>1, <1>2, <1>5 DEF LossRead, LossBalance, LossCheckPassed, LossCheckFailed,
       Advance, Return, Goto, ThreadTyped, ThreadsTyped, Quiet, managerVars, dayVars,
       queueVars
  <1>6. CASE Freeze(t)
    <2>1. ~frozen
      BY <1>2, <1>6 DEF Freeze, Quiet
    <2>2. pending' = EmptyQueue
      BY <1>6, <2>1, DropsToEmpty DEF Freeze, Drained
    <2> QED BY <1>1, <1>6, <2>2 DEF Freeze, AfterFreeze, Return, Goto, ThreadTyped,
        ThreadsTyped, Quiet
  <1>7. CASE PlaceFills(t) \/ PlaceRejected(t) \/ PlaceRaises(t)
    BY <1>1, <1>2, <1>7 DEF PlaceFills, PlaceRejected, PlaceRaises, Processed, Return,
       Goto, ThreadTyped, ThreadsTyped, Quiet, managerVars, dayVars, queueVars
  <1>8. CASE Apply(t)
    BY <1>1, <1>2, <1>8 DEF Apply, Goto, ThreadTyped, ThreadsTyped, CallType, Quiet,
       dayVars, queueVars
  <1>9. CASE TickEnd(t)
    BY <1>1, <1>2, <1>9, DropsToEmpty DEF TickEnd, Goto, ThreadTyped, ThreadsTyped,
       CallType, Quiet, dayVars
  <1>10. CASE LimitCheck(t) \/ LimitId(t) \/ LimitQueue(t)
    BY <1>1, <1>2, <1>10 DEF LimitCheck, LimitId, LimitQueue, Return, Goto,
       ThreadTyped, ThreadsTyped, Quiet, managerVars, dayVars, queueVars
  <1>11. ASSUME NEW i \in batch[t].todo, TickNext(t, i)
         PROVE  /\ pc'[t] # "sync_import"
                /\ frozen' => pending' = EmptyQueue /\ Quiet(t)'
    <2>1. pc'[t] \in {"tick_next", "gate"} /\ UNCHANGED <<frozen, pending>>
      BY <1>1, <1>11 DEF TickNext, Goto, ThreadTyped, ThreadsTyped, managerVars,
         dayVars, queueVars
    <2> QED BY <1>2, <2>1 DEF Quiet
  <1>12. CASE DayReset(t) \/ DayPositions(t) \/ DayCash(t) \/ DayExpect(t)
    BY <1>1, <1>2, <1>12 DEF DayReset, DayPositions, DayCash, DayExpect, Return, Goto,
       ThreadTyped, ThreadsTyped, Quiet, managerVars, dayVars, queueVars
  <1>13. CASE ReconcileDefault(t) \/ ReconcileRead(t) \/ ReconcileCompare(t)
    BY <1>1, <1>2, <1>13 DEF ReconcileDefault, ReconcileRead, ReconcileCompare, Return,
       Goto, ThreadTyped, ThreadsTyped, Quiet, managerVars, dayVars, queueVars
  <1>14. ~SyncImport(t) /\ ~SyncCommit(t)
    BY <1>2 DEF SyncImport, SyncCommit
  <1> QED BY <1>3, <1>4, <1>5, <1>6, <1>7, <1>8, <1>9, <1>10, <1>11, <1>12, <1>13,
      <1>14 DEF Step

(* ... and at its start.                                                    *)
LEMMA FrozenStart ==
  ASSUME SerialUse, TypeInv, FrozenInv, NEW t \in Threads, NewCall(t)
  PROVE  FrozenInv'
  <1>1. ThreadTyped /\ \A u \in Threads : u = t
    BY DEF TypeInv, TypeOK, ThreadTyped, SerialUse
  <1>2. /\ pc[t] # "sync_import"
        /\ frozen => pending = EmptyQueue /\ Quiet(t)
    BY DEF FrozenInv
  <1> DEFINE Goal == /\ pc'[t] # "sync_import"
                     /\ frozen' => pending' = EmptyQueue /\ Quiet(t)'
  <1> SUFFICES Goal
    BY <1>1 DEF FrozenInv
  <1>3. ASSUME NEW o \in Order, StartOrder(t, o) \/ StartLimit(t, o) PROVE Goal
    BY <1>1, <1>2, <1>3 DEF StartOrder, StartLimit, Goto, ThreadTyped, ThreadsTyped,
       Quiet, managerVars, dayVars, queueVars
  <1>4. ASSUME NEW ids, Cancel(t, ids) PROVE Goal
    BY <1>2, <1>4, DropsToEmpty DEF Cancel, threadVars, dayVars, Quiet
  <1>5. ASSUME NEW s \in Symbols, NEW p \in Prices, StartTick(t, s, p) \/ StartDay(t,
               s, p)
        PROVE  Goal
    BY <1>1, <1>2, <1>5 DEF StartTick, StartDay, Goto, ThreadTyped, ThreadsTyped,
       Quiet, managerVars, dayVars, queueVars
  <1>6. CASE StartReconcile(t)
    BY <1>1, <1>2, <1>6 DEF StartReconcile, Goto, ThreadTyped, ThreadsTyped, Quiet,
       managerVars, dayVars, queueVars
  <1>7. ~StartSync(t)
    BY DEF SerialUse, StartSync, Start
  <1> QED BY <1>3, <1>4, <1>5, <1>6, <1>7 DEF NewCall, CancelLimitOrder,
      CancelAllForSymbol, CancelAll

(* The invariant holds throughout.                                          *)
THEOREM FrozenInvHolds ==
  ASSUME SerialUse
  PROVE  Spec => []FrozenInv
  <1>1. Init => FrozenInv
    BY DEF Init, NewManager, IdleThreads, FrozenInv
  <1>2. TypeInv /\ FrozenInv /\ [Next]_vars => FrozenInv'
    <2> SUFFICES ASSUME TypeInv, FrozenInv, [Next]_vars PROVE FrozenInv'
      OBVIOUS
    <2>1. CASE UNCHANGED vars
      BY <2>1 DEF vars, managerVars, dayVars, queueVars, threadVars, FrozenInv, Quiet
    <2>2. CASE Restart
      BY <2>2 DEF Restart, FrozenInv
    <2>3. ASSUME NEW s \in Symbols, NEW d \in Sides, NEW q \in Qtys, NEW p \in Prices,
                 TradeOutOfBand(s, d, q, p)
          PROVE  FrozenInv'
      BY <2>3 DEF TradeOutOfBand, SerialUse
    <2> QED BY <2>1, <2>2, <2>3, FrozenStep, FrozenStart DEF Next
  <1> QED BY <1>1, <1>2, TypeInvHolds, PTL DEF Spec

(* FreezeHolds *)
THEOREM FreezeAlwaysHolds ==
  ASSUME SerialUse
  PROVE  Spec => FreezeHolds
  <1>1. FrozenInv => FrozenQueueEmpty
    BY DEF FrozenInv, FrozenQueueEmpty
  <1>2. FrozenInv /\ [Next]_vars => (cash' # cash => ~frozen)
    <2> SUFFICES ASSUME FrozenInv, [Next]_vars, cash' # cash PROVE ~frozen
      OBVIOUS
    <2>1. PICK t \in Threads : PlaceFills(t) \/ PlaceRaises(t)
      BY StepKeepsBroker DEF Next, brokerVars, vars, Restart, TradeOutOfBand, SerialUse
    <2>2. pc[t] = "place"
      BY <2>1 DEF PlaceFills, PlaceRaises
    <2> QED BY <2>2 DEF FrozenInv, Quiet
  <1>3. FrozenInv /\ [Next]_vars => [cash' # cash => ~frozen]_vars
    BY <1>2
  <1> QED BY <1>1, <1>3, FrozenInvHolds, PTL DEF Spec, FreezeHolds, NoTradeWhileFrozen

-----------------------------------------------------------------------------
(* What NoFalseDrift needs besides: the broker never fills an order and     *)
(* then raises, and the process is not restarted, which forgets what is     *)
(* expected but not what is held.                                           *)
FaithfulBroker == "lost_ack" \notin BrokerFaults /\ MaxRestarts = 0

(* The trade that has reached the broker and not yet the expected state. *)
SharesUnderWay(t, s) ==
  IF pc[t] = "apply" /\ call[t].symbol = s THEN Signed(call[t]) ELSE 0
CashUnderWay(t) == IF pc[t] = "apply" THEN Gain(call[t]) ELSE 0

(* What the copies of start_day and reconcile_once are worth. *)
CopiesTrue(t) ==
  /\ pc[t] \in {"day_cash", "day_expect"} => view[t].positions = HeldPositions
  /\ pc[t] = "day_expect" => view[t].cash = cash
  /\ pc[t] \in {"recon_default", "recon_read", "recon_compare"} => view[t].cash = expectedCash
  /\ pc[t] \in {"recon_read", "recon_compare"} =>
       \A s \in DOMAIN view[t].positions : view[t].positions[s] = positions[s]
  /\ pc[t] = "recon_compare" => view[t].actual = positions

ExpectedTrue(t) ==
  /\ \A s \in Symbols : Expected(s) = positions[s] - SharesUnderWay(t, s)
  /\ expectedCash # None => expectedCash = cash - CashUnderWay(t)

(* The inductive invariant behind NoFalseDrift. *)
DriftInv ==
  /\ ~drift /\ restarts = 0
  /\ \A t \in Threads : ExpectedTrue(t) /\ CopiesTrue(t)

(* A fill in terms of what _apply_trade_to_expected will add. *)
LEMMA FillMoves ==
  ASSUME BrokerTyped, NEW c, c.symbol \in Symbols, c.side \in Sides, c.qty \in Nat,
         c.price \in Nat,
         Fill(c.symbol, c.side, c.qty, c.price)
  PROVE  /\ Gain(c) \in Int /\ Signed(c) \in Int
         /\ cash' = cash + Gain(c)
         /\ \A s \in Symbols : positions'[s] = positions[s] + (IF c.symbol = s THEN Signed(c) ELSE 0)
  <1>1. BuyCost(c.qty, c.price) \in Int /\ SellNet(c.qty, c.price) \in Int
    BY DEF BuyCost, SellNet, Unit, BuyFeeBps, SellFeeBps
  <1> QED BY <1>1 DEF Fill, Gain, Signed, BrokerTyped, Sides

(* At apply a thread holds a whole order. *)
LEMMA ApplyCall ==
  ASSUME TypeInv, NEW t \in Threads, pc[t] \in {"apply", "place"}
  PROVE  /\ call[t].symbol \in Symbols /\ call[t].side \in Sides
         /\ call[t].qty \in Nat /\ call[t].price \in Nat /\ call[t].stage = "pre"
         /\ Gain(call[t]) \in Int /\ Signed(call[t]) \in Int
  <1>1. HasOrder(call[t]) /\ call[t].stage = "pre"
    BY DEF TypeInv, CallsTyped, CallTyped, CheckLabels, PreLabels
  <1>2. call[t].qty \in Nat /\ call[t].price \in Nat
    BY <1>1, ManagerAssumption DEF HasOrder
  <1>3. BuyCost(call[t].qty, call[t].price) \in Int /\ SellNet(call[t].qty, call[t].price) \in Int
    BY <1>2 DEF BuyCost, SellNet, Unit, BuyFeeBps, SellFeeBps
  <1> QED BY <1>1, <1>2, <1>3 DEF HasOrder, Gain, Signed

(* Steps that leave the account, the expected state and the copies alone,   *)
(* and do not go where a copy or a trade would be needed.                   *)
LEMMA DriftSame ==
  ASSUME SerialUse, DriftInv, NEW t \in Threads,
         UNCHANGED <<brokerVars, expectVars, drift, restarts>>,
         pc[t] # "apply",
         pc'[t] \notin {"apply", "day_cash", "day_expect", "recon_default", "recon_read", "recon_compare"}
  PROVE  DriftInv'
  <1>1. \A u \in Threads : u = t
    BY DEF SerialUse
  <1>2. ExpectedTrue(t)'
    BY DEF DriftInv, ExpectedTrue, Expected, SharesUnderWay, CashUnderWay, brokerVars,
       expectVars
  <1> QED BY <1>1, <1>2 DEF DriftInv, CopiesTrue

(* The inductive step inside an operation ...                               *)
LEMMA DriftStep ==
  ASSUME SerialUse, FaithfulBroker, TypeInv, DriftInv, NEW t \in Threads, Step(t),
         pc[t] # "sync_import"
  PROVE  DriftInv'
  <1>1. ThreadTyped /\ \A u \in Threads : u = t
    BY DEF TypeInv, TypeOK, ThreadTyped, SerialUse
  <1>2. ExpectedTrue(t) /\ CopiesTrue(t) /\ ~drift /\ restarts = 0
    BY DEF DriftInv
  <1>3. CASE Gate(t) \/ Limits(t) \/ LossFailed(t) \/ LossRead(t) \/ LossBalance(t)
    BY <1>1, <1>3, DriftSame DEF Gate, Limits, LossFailed, LossRead, LossBalance,
       LossCheckPassed, LossCheckFailed, Advance, RejectCall, Processed, Return, Goto,
       ThreadTyped, ThreadsTyped, managerVars, auxVars
  <1>4. CASE Freeze(t) \/ PlaceRejected(t) \/ TickEnd(t)
    BY <1>1, <1>4, DriftSame DEF Freeze, AfterFreeze, PlaceRejected, TickEnd,
       Processed, Return, Goto, ThreadTyped, ThreadsTyped, managerVars, auxVars
  <1>5. CASE LimitCheck(t) \/ LimitId(t) \/ LimitQueue(t) \/ DayReset(t)
    BY <1>1, <1>5, DriftSame DEF LimitCheck, LimitId, LimitQueue, DayReset, Return,
       Goto, ThreadTyped, ThreadsTyped, managerVars, auxVars
  <1>6. ASSUME NEW i \in batch[t].todo, TickNext(t, i) PROVE DriftInv'
    <2>1. pc'[t] \in {"tick_next", "gate"} /\ pc[t] = "tick_next"
      BY <1>1, <1>6 DEF TickNext, Goto, ThreadTyped, ThreadsTyped
    <2> QED BY <1>6, <2>1, DriftSame DEF TickNext, managerVars, auxVars
  <1>7. CASE PlaceRaises(t)
    BY <1>1, <1>7, DriftSame DEF PlaceRaises, FaithfulBroker, Return, Goto,
       ThreadTyped, ThreadsTyped, managerVars, auxVars
  <1>8. CASE PlaceFills(t)
    <2>1. /\ pc[t] = "place" /\ pc'[t] = "apply" /\ call' = call
          /\ Fill(call[t].symbol, call[t].side, call[t].qty, call[t].price)
          /\ UNCHANGED <<expectVars, drift, restarts>>
      BY <1>1, <1>8 DEF PlaceFills, Goto, ThreadTyped, ThreadsTyped, managerVars,
         auxVars
    <2>2. /\ Gain(call[t]) \in Int /\ Signed(call[t]) \in Int
          /\ cash' = cash + Gain(call[t])
          /\ \A s \in Symbols :
               positions'[s] = positions[s] + (IF call[t].symbol = s THEN Signed(call[t]) ELSE 0)
      BY <2>1, ApplyCall, FillMoves DEF TypeInv, TypeOK
    <2>3. cash \in Int /\ \A s \in Symbols : positions[s] \in Int
      BY DEF TypeInv, TypeOK, BrokerTyped
    <2>4. \A s \in Symbols : Expected(s) = positions[s] /\ Expected(s)' = Expected(s)
      BY <1>2, <2>1, <2>3 DEF ExpectedTrue, SharesUnderWay, Expected, expectVars
    <2>5. expectedCash # None => expectedCash = cash
      BY <1>2, <2>1, <2>3 DEF ExpectedTrue, CashUnderWay
    <2>6. /\ Gain(call[t])' = Gain(call[t]) /\ Signed(call[t])' = Signed(call[t])
      BY <2>1 DEF Gain, Signed
    <2>7. \A s \in Symbols : Expected(s)' = positions'[s] - SharesUnderWay(t, s)'
      BY <2>1, <2>2, <2>3, <2>4, <2>6 DEF SharesUnderWay
    <2>8. (expectedCash # None)' => expectedCash' = cash' - CashUnderWay(t)'
      BY <2>1, <2>2, <2>3, <2>5, <2>6 DEF CashUnderWay, expectVars
    <2> QED BY <1>1, <1>2, <2>1, <2>7, <2>8 DEF DriftInv, ExpectedTrue, CopiesTrue
  <1>9. CASE Apply(t)
    <2>1. /\ pc[t] = "apply" /\ pc'[t] \in {"loss_read", "tick_next"}
          /\ ApplyToExpected(call[t])
          /\ UNCHANGED <<cash, positions, drift, restarts>>
      BY <1>1, <1>9 DEF Apply, Goto, ThreadTyped, ThreadsTyped, brokerVars, auxVars
    <2>2. /\ Gain(call[t]) \in Int /\ Signed(call[t]) \in Int /\ call[t].symbol \in Symbols
      BY <2>1, ApplyCall
    <2>3. /\ cash \in Int /\ \A s \in Symbols : positions[s] \in Int
          /\ expectedCash \in Int \cup {None}
      BY DEF TypeInv, TypeOK, BrokerTyped, ManagerTyped
    <2>4. \A s \in Symbols :
            Expected(s)' = IF s = call[t].symbol THEN Expected(s) + Signed(call[t]) ELSE Expected(s)
      BY <2>1 DEF ApplyToExpected, Expected, Put
    <2>5. \A s \in Symbols : Expected(s)' = positions'[s]
      BY <1>2, <2>1, <2>2, <2>3, <2>4 DEF ExpectedTrue, SharesUnderWay
    <2>6. (expectedCash # None)' => expectedCash' = cash'
      BY <1>2, <2>1, <2>2, <2>3 DEF ApplyToExpected, ExpectedTrue, CashUnderWay
    <2>7. ExpectedTrue(t)'
      BY <2>1, <2>3, <2>5, <2>6 DEF ExpectedTrue, SharesUnderWay, CashUnderWay
    <2> QED BY <1>1, <1>2, <2>1, <2>7 DEF DriftInv, CopiesTrue
  <1>10. CASE DayPositions(t) \/ DayCash(t)
    <2>1. /\ UNCHANGED <<brokerVars, expectVars, drift, restarts>>
          /\ pc[t] # "apply" /\ pc'[t] \in {"day_cash", "day_expect"}
          /\ pc'[t] = "day_cash" => view'[t].positions = HeldPositions
          /\ pc'[t] = "day_expect" => /\ pc[t] = "day_cash" /\ view'[t].cash = cash
                                     /\ view'[t].positions = view[t].positions
      BY <1>1, <1>10 DEF DayPositions, DayCash, Goto, ThreadTyped, ThreadsTyped,
         ViewType, managerVars, auxVars
    <2>2. ExpectedTrue(t)'
      BY <1>2, <2>1 DEF ExpectedTrue, Expected, SharesUnderWay, CashUnderWay,
         brokerVars, expectVars
    <2>3. HeldPositions' = HeldPositions
      BY <2>1 DEF HeldPositions, Held, brokerVars
    <2>4. CopiesTrue(t)'
      BY <1>2, <2>1, <2>3 DEF CopiesTrue, brokerVars
    <2> QED BY <1>1, <1>2, <2>1, <2>2, <2>4 DEF DriftInv
  <1>11. CASE DayExpect(t)
    <2>1. /\ UNCHANGED <<brokerVars, drift, restarts>> /\ pc'[t] = "idle" /\ pc[t] = "day_expect"
          /\ expectedPositions' = HeldPositions /\ expectedCash' = cash
      BY <1>1, <1>2, <1>11 DEF DayExpect, Return, Goto, ThreadTyped, ThreadsTyped,
         CopiesTrue, auxVars
    <2>2. \A s \in Symbols : positions[s] \in Int /\ Expected(s)' = positions[s]
      BY <2>1 DEF Expected, HeldPositions, Held, TypeInv, TypeOK, BrokerTyped
    <2>3. cash \in Int
      BY DEF TypeInv, TypeOK, BrokerTyped
    <2>4. ExpectedTrue(t)'
      BY <2>1, <2>2, <2>3 DEF ExpectedTrue, SharesUnderWay, CashUnderWay, brokerVars
    <2> QED BY <1>1, <1>2, <2>1, <2>4 DEF DriftInv, CopiesTrue
  <1>12. CASE ReconcileDefault(t) \/ ReconcileRead(t)
    <2>1. /\ UNCHANGED <<brokerVars, expectVars, drift, restarts>>
          /\ pc[t] \in {"recon_default", "recon_read"} /\ pc'[t] \in {"recon_read", "recon_compare"}
          /\ view'[t].cash = view[t].cash
          /\ pc'[t] = "recon_read" => view'[t].positions = HeldPositions
          /\ pc'[t] = "recon_compare" => pc[t] = "recon_read" /\ view'[t].positions = view[t].positions
                                         /\ view'[t].actual = positions
      BY <1>1, <1>12 DEF ReconcileDefault, ReconcileRead, Goto, ThreadTyped,
         ThreadsTyped, ViewType, managerVars, auxVars
    <2>2. ExpectedTrue(t)'
      BY <1>2, <2>1 DEF ExpectedTrue, Expected, SharesUnderWay, CashUnderWay,
         brokerVars, expectVars
    <2>3. CopiesTrue(t)'
      BY <1>2, <2>1 DEF CopiesTrue, HeldPositions, Held, brokerVars, expectVars
    <2> QED BY <1>1, <1>2, <2>1, <2>2, <2>3 DEF DriftInv
  <1>13. CASE ReconcileCompare(t)
    <2>1. pc[t] = "recon_compare" /\ Return(t) /\ UNCHANGED <<brokerVars, managerVars, restarts>>
          /\ drift' = ~ReportOk(view[t])
      BY <1>2, <1>13 DEF ReconcileCompare
    <2>2. cash \in Int
      BY DEF TypeInv, TypeOK, BrokerTyped
    <2>3. ReportOk(view[t])
      BY <1>2, <2>1, <2>2 DEF ReportOk, CopiesTrue, ExpectedTrue, CashUnderWay
    <2>4. pc'[t] = "idle"
      BY <1>1, <2>1 DEF Return, Goto, ThreadTyped, ThreadsTyped
    <2>5. ExpectedTrue(t)'
      BY <1>2, <2>1, <2>4 DEF ExpectedTrue, Expected, SharesUnderWay, CashUnderWay,
         brokerVars, managerVars, expectVars
    <2> QED BY <1>1, <1>2, <2>1, <2>3, <2>4, <2>5 DEF DriftInv, CopiesTrue
  <1>14. ~SyncImport(t) /\ ~SyncCommit(t)
    BY DEF SyncImport, SyncCommit
  <1> QED BY <1>3, <1>4, <1>5, <1>6, <1>7, <1>8, <1>9, <1>10, <1>11, <1>12, <1>13,
      <1>14 DEF Step

(* ... and at its start.                                                    *)
LEMMA DriftStart ==
  ASSUME SerialUse, TypeInv, DriftInv, NEW t \in Threads, NewCall(t)
  PROVE  DriftInv'
  <1>1. ThreadTyped /\ \A u \in Threads : u = t
    BY DEF TypeInv, TypeOK, ThreadTyped, SerialUse
  <1>2. ExpectedTrue(t) /\ CopiesTrue(t) /\ ~drift /\ restarts = 0
    BY DEF DriftInv
  <1>3. ASSUME NEW o \in Order, StartOrder(t, o) \/ StartLimit(t, o) PROVE DriftInv'
    BY <1>1, <1>3, DriftSame DEF StartOrder, StartLimit, Start, Goto, ThreadTyped,
       ThreadsTyped, managerVars
  <1>4. ASSUME NEW ids, Cancel(t, ids) PROVE DriftInv'
    BY <1>1, <1>4, DriftSame DEF Cancel, Start, threadVars
  <1>5. ASSUME NEW s \in Symbols, NEW p \in Prices, StartTick(t, s, p) \/ StartDay(t,
               s, p)
        PROVE  DriftInv'
    BY <1>1, <1>5, DriftSame DEF StartTick, StartDay, Start, Goto, ThreadTyped,
       ThreadsTyped, managerVars
  <1>6. CASE StartReconcile(t)
    <2>1. /\ UNCHANGED <<brokerVars, expectVars, drift, restarts>> /\ pc[t] = "idle"
          /\ pc'[t] \in {"recon_default", "recon_read"}
          /\ view'[t].positions = expectedPositions /\ view'[t].cash = expectedCash
      BY <1>1, <1>6 DEF StartReconcile, Start, Goto, ThreadTyped, ThreadsTyped, ViewOf,
         managerVars
    <2>2. \A s \in Symbols : positions[s] \in Int
      BY DEF TypeInv, TypeOK, BrokerTyped
    <2>3. \A s \in DOMAIN expectedPositions : s \in Symbols /\ expectedPositions[s] = positions[s]
      BY <1>2, <2>1, <2>2 DEF ExpectedTrue, Expected, SharesUnderWay, TypeInv, TypeOK,
         ManagerTyped, Quantities
    <2>4. ExpectedTrue(t)'
      BY <1>2, <2>1 DEF ExpectedTrue, Expected, SharesUnderWay, CashUnderWay,
         brokerVars, expectVars
    <2>5. CopiesTrue(t)'
      BY <2>1, <2>3 DEF CopiesTrue, brokerVars, expectVars
    <2> QED BY <1>1, <1>2, <2>1, <2>4, <2>5 DEF DriftInv
  <1>7. ~StartSync(t)
    BY DEF SerialUse, StartSync, Start
  <1> QED BY <1>3, <1>4, <1>5, <1>6, <1>7 DEF NewCall, CancelLimitOrder,
      CancelAllForSymbol, CancelAll

(* NoFalseDrift: reconcile_once never raises an alert on an account that only *)
(* this one caller trades: copying, reading and comparing in separate steps *)
(* sees one and the same state.                                             *)
THEOREM NoFalseDriftHolds ==
  ASSUME SerialUse, FaithfulBroker
  PROVE  Spec => []NoFalseDrift
  <1>1. Init => DriftInv
    <2> SUFFICES ASSUME Init PROVE DriftInv
      OBVIOUS
    <2>1. /\ cash \in Int /\ expectedPositions = EmptyQueue /\ expectedCash \in {None, cash}
          /\ \A s \in Symbols : positions[s] = 0
          /\ \A t \in Threads : pc[t] = "idle"
          /\ ~drift /\ restarts = 0
      BY ManagerAssumption DEF Init, NewManager, IdleThreads, BrokerInit, Unit
    <2> QED BY <2>1 DEF DriftInv, ExpectedTrue, CopiesTrue, Expected, SharesUnderWay,
        CashUnderWay, EmptyQueue
  <1>2. TypeInv /\ FrozenInv /\ DriftInv /\ [Next]_vars => DriftInv'
    <2> SUFFICES ASSUME TypeInv, FrozenInv, DriftInv, [Next]_vars PROVE DriftInv'
      OBVIOUS
    <2>1. CASE UNCHANGED vars
      BY <2>1 DEF vars, brokerVars, managerVars, expectVars, threadVars, auxVars,
         DriftInv, ExpectedTrue, CopiesTrue, Expected, SharesUnderWay, CashUnderWay,
         Signed, Gain, BuyCost, SellNet, HeldPositions, Held
    <2>2. ~Restart
      BY DEF Restart, DriftInv, FaithfulBroker
    <2>3. ASSUME NEW s \in Symbols, NEW d \in Sides, NEW q \in Qtys, NEW p \in Prices,
                 TradeOutOfBand(s, d, q, p)
          PROVE  DriftInv'
      BY <2>3 DEF TradeOutOfBand, SerialUse
    <2>4. \A t \in Threads : pc[t] # "sync_import"
      BY DEF FrozenInv
    <2> QED BY <2>1, <2>2, <2>3, <2>4, DriftStep, DriftStart DEF Next
  <1>3. DriftInv => NoFalseDrift
    BY DEF DriftInv, NoFalseDrift
  <1> QED BY <1>1, <1>2, <1>3, TypeInvHolds, FrozenInvHolds, PTL DEF Spec

-----------------------------------------------------------------------------
(* The use HandledOnce is about: one thread feeds ticks, the broker never   *)
(* raises, and the startup sync, which replaces the queue, is over.         *)
OneTicker ==
  /\ \A t, u \in Threads : "tick" \in Role[t] /\ "tick" \in Role[u] => t = u
  /\ \A t \in Threads : "sync" \notin Role[t]
  /\ "refused" \notin BrokerFaults /\ "lost_ack" \notin BrokerFaults

(* What may have become of a limit order. *)
Waits             == <<"queued">>
WasFilled         == <<"queued", "filled">>
WasRejected       == <<"queued", "rejected">>
WasCancelled      == <<"queued", "cancelled">>
FilledInFlight    == <<"queued", "cancelled", "filled">>
RejectedInFlight  == <<"queued", "cancelled", "rejected">>
CancelledFilled   == <<"queued", "filled", "cancelled">>
CancelledRejected == <<"queued", "rejected", "cancelled">>
Histories == {Waits, WasFilled, WasRejected, WasCancelled, FilledInFlight, RejectedInFlight,
              CancelledFilled, CancelledRejected}

(* A second event ...                                                       *)
LEMMA AppendSecond ==
  ASSUME NEW x, NEW y
  PROVE  Append(<<x>>, y) = <<x, y>>
  <1> DEFINE s == Append(<<x>>, y)
             t == <<x, y>>
  <1>1. <<x>> \in Seq({x, y}) /\ Len(<<x>>) = 1 /\ <<x>>[1] = x
    OBVIOUS
  <1>2. s \in Seq({x, y}) /\ Len(s) = 2 /\ s[1] = x /\ s[2] = y
    BY <1>1, AppendProperties
  <1>3. t \in Seq({x, y}) /\ Len(t) = 2 /\ t[1] = x /\ t[2] = y
    OBVIOUS
  <1> HIDE DEF s, t
  <1>4. \A i \in 1 .. Len(s) : s[i] = t[i]
    BY <1>2, <1>3
  <1> QED BY <1>2, <1>3, <1>4, SeqEqual DEF s, t

(* ... and a third.                                                         *)
LEMMA AppendThird ==
  ASSUME NEW x, NEW y, NEW z
  PROVE  Append(<<x, y>>, z) = <<x, y, z>>
  <1> DEFINE s == Append(<<x, y>>, z)
             t == <<x, y, z>>
             S == {x, y, z}
  <1>1. <<x, y>> \in Seq(S) /\ Len(<<x, y>>) = 2 /\ <<x, y>>[1] = x /\ <<x, y>>[2] = y
    OBVIOUS
  <1>2. s \in Seq(S) /\ Len(s) = 3 /\ s[1] = x /\ s[2] = y /\ s[3] = z
    BY <1>1, AppendProperties
  <1>3. t \in Seq(S) /\ Len(t) = 3 /\ t[1] = x /\ t[2] = y /\ t[3] = z
    OBVIOUS
  <1> HIDE DEF s, t, S
  <1>4. \A i \in 1 .. Len(s) : s[i] = t[i]
    BY <1>2, <1>3
  <1> QED BY <1>2, <1>3, <1>4, SeqEqual DEF s, t

(* How the histories grow into each other.                                  *)
LEMMA HistoryGrows ==
  /\ Append(<<>>, "queued") = Waits
  /\ Append(Waits, "filled") = WasFilled
  /\ Append(Waits, "rejected") = WasRejected
  /\ Append(Waits, "cancelled") = WasCancelled
  /\ Append(WasCancelled, "filled") = FilledInFlight
  /\ Append(WasCancelled, "rejected") = RejectedInFlight
  /\ Append(WasFilled, "cancelled") = CancelledFilled
  /\ Append(WasRejected, "cancelled") = CancelledRejected
  BY AppendSecond, AppendThird DEF Waits, WasFilled, WasRejected, WasCancelled,
     FilledInFlight, RejectedInFlight, CancelledFilled, CancelledRejected

(* Which of them cannot be confused.                                        *)
LEMMA HistoriesDiffer ==
  /\ Waits \notin {WasFilled, WasRejected, WasCancelled, FilledInFlight, RejectedInFlight,
                   CancelledFilled, CancelledRejected}
  /\ WasCancelled \notin {WasFilled, WasRejected}
  BY DEF Waits, WasFilled, WasRejected, WasCancelled, FilledInFlight, RejectedInFlight,
     CancelledFilled, CancelledRejected

(* At most one event of a history is a fill. *)
LEMMA HistoryFills ==
  ASSUME NEW h \in Histories
  PROVE  Cardinality({k \in DOMAIN h : h[k] = "filled"}) <= 1
  <1> DEFINE F == {k \in DOMAIN h : h[k] = "filled"}
  <1>1. F = {} \/ F = {2} \/ F = {3}
    BY DEF Histories, Waits, WasFilled, WasRejected, WasCancelled, FilledInFlight,
       RejectedInFlight, CancelledFilled, CancelledRejected
  <1>2. Cardinality({}) = 0 /\ Cardinality({2}) = 1 /\ Cardinality({3}) = 1
    BY FS_EmptySet, FS_Singleton
  <1> QED BY <1>1, <1>2

-----------------------------------------------------------------------------
(* A thread is ticking from the copy of the queue until the processed       *)
(* orders leave it; at a hand label it has an order of the copy in hand.    *)
HandLabels == {"gate", "limits", "loss_read", "loss_balance", "freeze", "loss_failed", "place"}
Ticking(t) ==
  /\ pc[t] \in HandLabels \cup {"tick_next", "apply"}
  /\ call[t].op = "tick" /\ call[t].stage = "pre"

(* The orders it has dealt with, which are still in the dictionary. *)
Finished(t) ==
  IF Ticking(t) THEN batch[t].done \cup (IF pc[t] = "apply" THEN {call[t].id} ELSE {})
                ELSE {}

TickOk(t) ==
  /\ pc[t] # "sync_import"
  /\ Ticking(t) => "tick" \in Role[t]
  /\ ~Ticking(t) => batch[t].todo = {} /\ batch[t].done = {}
  /\ batch[t].todo \cap batch[t].done = {}
  /\ Ticking(t) /\ pc[t] \in HandLabels =>
       /\ call[t].id \in DOMAIN fate \ batch[t].done
       /\ fate[call[t].id] \in {Waits, WasCancelled}
  /\ \A i \in Finished(t) : i \in DOMAIN fate /\ fate[i] # Waits

FateOk ==
  \A i \in DOMAIN fate :
    /\ i \in Nat \ {0} /\ i < nextOrderId /\ fate[i] \in Histories
    /\ fate[i] = Waits => i \in DOMAIN pending

PendingOk ==
  \A i \in DOMAIN pending :
    /\ i \in DOMAIN fate
    /\ \/ fate[i] = Waits
       \/ fate[i] \in {WasFilled, WasRejected} /\ \E t \in Threads : i \in Finished(t)

(* The inductive invariant behind HandledOnce.                              *)
HandledInv ==
  /\ \A t \in Threads : TickOk(t)
  /\ \A t \in Holders : call[t].id \notin DOMAIN fate
  /\ FateOk /\ PendingOk

(* Only one thread ticks. *)
LEMMA OneTicks ==
  ASSUME OneTicker, HandledInv, NEW t \in Threads, NEW u \in Threads, Ticking(t),
         Ticking(u)
  PROVE  t = u
  BY DEF OneTicker, HandledInv, TickOk

(* What happens to the history of an order. *)
LEMMA Recorded ==
  ASSUME NEW ids, NEW e, Record(ids, e)
  PROVE  /\ DOMAIN fate' = DOMAIN fate \cup ids
         /\ \A i \in DOMAIN fate \ ids : fate'[i] = fate[i]
         /\ \A i \in ids : fate'[i] = Append(FateOf(i), e)
         /\ \A i \in ids \cap DOMAIN fate : fate'[i] = Append(fate[i], e)
  BY DEF Record, FateOf

(* Steps in which thread u stays in its tick, or out of it, as it was. *)
Keeps(u) ==
  /\ Ticking(u)' <=> Ticking(u)
  /\ Ticking(u) => /\ call'[u].id = call[u].id /\ batch'[u] = batch[u]
                   /\ pc'[u] = pc[u] \/ {pc[u], pc'[u]} \subseteq HandLabels
  /\ ~Ticking(u) => batch'[u].todo = {} /\ batch'[u].done = {}
  /\ pc'[u] # "sync_import"
  /\ pc'[u] = "limit_queue" => pc[u] = "limit_queue" /\ call'[u].id = call[u].id

(* Such a step changes nothing in what u has dealt with.                    *)
LEMMA KeepsFinished ==
  ASSUME NEW u, Keeps(u)
  PROVE  Finished(u)' = Finished(u)
  BY DEF Keeps, Finished, HandLabels

(* A thread that is not moved stays as it was.                              *)
LEMMA KeptSame ==
  ASSUME HandledInv, NEW u \in Threads, pc'[u] = pc[u], call'[u] = call[u],
         batch'[u] = batch[u]
  PROVE  Keeps(u)
  BY DEF HandledInv, TickOk, Keeps, Ticking

(* Steps that do nothing to the queue and leave all ticks alone. *)
LEMMA HandledSame ==
  ASSUME HandledInv, \A u \in Threads : Keeps(u), UNCHANGED <<pending, fate,
         nextOrderId>>
  PROVE  HandledInv'
  <1>1. \A u \in Threads : Finished(u)' = Finished(u)
    BY KeepsFinished
  <1>2. ASSUME NEW u \in Threads PROVE TickOk(u)'
    BY <1>1 DEF HandledInv, TickOk, Keeps
  <1>3. \A u \in Holders' : u \in Holders /\ call'[u].id = call[u].id
    BY DEF Keeps, Holders
  <1>4. FateOk' /\ PendingOk'
    BY <1>1 DEF HandledInv, FateOk, PendingOk
  <1> QED BY <1>2, <1>3, <1>4 DEF HandledInv

(* Steps that cancel orders of the queue, all of them or some. *)
LEMMA HandledCancel ==
  ASSUME HandledInv, \A u \in Threads : Keeps(u), UNCHANGED nextOrderId,
         NEW ids \in SUBSET DOMAIN pending, pending' = Drop(pending, ids), Record(ids, "cancelled")
  PROVE  HandledInv'
  <1>1. \A u \in Threads : Finished(u)' = Finished(u)
    BY KeepsFinished
  <1>2. /\ DOMAIN fate' = DOMAIN fate
        /\ DOMAIN pending' = DOMAIN pending \ ids
        /\ \A i \in DOMAIN fate \ ids : fate'[i] = fate[i]
        /\ \A i \in ids : fate'[i] = Append(fate[i], "cancelled")
    <2>1. ids \subseteq DOMAIN fate
      BY DEF HandledInv, PendingOk
    <2>2. DOMAIN pending' = DOMAIN pending \ ids
      BY DEF Drop
    <2>3. /\ DOMAIN fate' = DOMAIN fate \cup ids
          /\ \A i \in DOMAIN fate \ ids : fate'[i] = fate[i]
          /\ \A i \in ids \cap DOMAIN fate : fate'[i] = Append(fate[i], "cancelled")
      BY Recorded
    <2> QED BY <2>1, <2>2, <2>3
  <1>3. \A i \in ids : fate'[i] = (CASE fate[i] = Waits -> WasCancelled
                                    [] fate[i] = WasFilled -> CancelledFilled
                                    [] fate[i] = WasRejected -> CancelledRejected)
                       /\ fate[i] \in {Waits, WasFilled, WasRejected}
    BY <1>2, HistoryGrows, HistoriesDiffer DEF HandledInv, PendingOk
  <1>4. \A i \in ids : /\ fate'[i] \in {WasCancelled, CancelledFilled, CancelledRejected}
                       /\ fate[i] \in {Waits, WasCancelled} => fate'[i] = WasCancelled
    BY <1>3, HistoriesDiffer
  <1>5. ASSUME NEW u \in Threads PROVE TickOk(u)'
    <2>1. Ticking(u) /\ pc[u] \in HandLabels => fate'[call[u].id] \in {Waits, WasCancelled}
      BY <1>2, <1>4 DEF HandledInv, TickOk
    <2>2. \A i \in Finished(u)' : i \in DOMAIN fate' /\ fate'[i] # Waits
      BY <1>1, <1>2, <1>4, HistoriesDiffer DEF HandledInv, TickOk
    <2> QED BY <1>2, <2>1, <2>2 DEF HandledInv, TickOk, Keeps
  <1>6. \A u \in Holders' : u \in Holders /\ call'[u].id = call[u].id
    BY DEF Keeps, Holders
  <1>7. FateOk'
    BY <1>2, <1>4, HistoriesDiffer DEF HandledInv, FateOk, Histories
  <1>8. PendingOk'
    BY <1>1, <1>2 DEF HandledInv, PendingOk
  <1> QED BY <1>2, <1>5, <1>6, <1>7, <1>8 DEF HandledInv

(* Steps in which the order in hand is filled or rejected. *)
LEMMA HandledFinish ==
  ASSUME OneTicker, HandledInv, NEW t \in Threads, \A u \in Threads \ {t} : Keeps(u),
         UNCHANGED <<nextOrderId, pending>>,
         Ticking(t), Ticking(t)', pc[t] \in HandLabels, pc'[t] \in {"tick_next", "apply"},
         NEW e \in {"filled", "rejected"}, Record({call[t].id}, e),
         Finished(t)' = batch[t].done \cup {call[t].id},
         batch'[t].todo \cap batch'[t].done = {}
  PROVE  HandledInv'
  <1>1. PICK id : id = call[t].id
    OBVIOUS
  <1>2. id \in DOMAIN fate /\ fate[id] \in {Waits, WasCancelled} /\ id \notin batch[t].done
    BY <1>1 DEF HandledInv, TickOk
  <1>3. /\ DOMAIN fate' = DOMAIN fate
        /\ \A i \in DOMAIN fate \ {id} : fate'[i] = fate[i]
        /\ fate'[id] = Append(fate[id], e)
    <2>1. Record({id}, e)
      BY <1>1
    <2>2. /\ DOMAIN fate' = DOMAIN fate \cup {id}
          /\ \A i \in DOMAIN fate \ {id} : fate'[i] = fate[i]
          /\ \A i \in {id} \cap DOMAIN fate : fate'[i] = Append(fate[i], e)
      BY <2>1, Recorded
    <2> QED BY <1>2, <2>2
  <1>4. /\ fate'[id] \in {WasFilled, WasRejected, FilledInFlight, RejectedInFlight}
        /\ fate[id] = Waits => fate'[id] \in {WasFilled, WasRejected}
    BY <1>2, <1>3, HistoryGrows, HistoriesDiffer
  <1>5. /\ fate'[id] # Waits /\ fate'[id] \in Histories
    BY <1>4, HistoriesDiffer DEF Histories
  <1>6. Finished(t) = batch[t].done
    BY DEF Finished, HandLabels
  <1>7. Finished(t)' = Finished(t) \cup {id}
    BY <1>1, <1>6
  <1>8. \A u \in Threads \ {t} : Finished(u)' = Finished(u) /\ ~Ticking(u)
    BY KeepsFinished, OneTicks
  <1>9. \A u \in Threads : \A i \in Finished(u)' : i \in DOMAIN fate' /\ fate'[i] # Waits
    BY <1>2, <1>3, <1>5, <1>7, <1>8 DEF HandledInv, TickOk
  <1>10. ASSUME NEW u \in Threads \ {t} PROVE TickOk(u)'
    BY <1>8, <1>9 DEF HandledInv, TickOk, Keeps
  <1>11. TickOk(t)'
    BY <1>9 DEF HandledInv, TickOk, HandLabels
  <1>12. \A u \in Holders' : u \in Holders /\ call'[u].id = call[u].id
    BY DEF Keeps, Holders
  <1>13. FateOk'
    BY <1>2, <1>3, <1>5 DEF HandledInv, FateOk
  <1>14. \A i : (\E u \in Threads : i \in Finished(u)) => \E u \in Threads : i \in Finished(u)'
    BY <1>7, <1>8
  <1>15. PendingOk'
    <2>1. ASSUME NEW i \in DOMAIN pending
          PROVE  /\ i \in DOMAIN fate'
                 /\ \/ fate'[i] = Waits
                    \/ fate'[i] \in {WasFilled, WasRejected} /\ \E u \in Threads : i \in Finished(u)'
      <3>1. CASE i # id
        BY <1>3, <1>14, <3>1 DEF HandledInv, PendingOk
      <3>2. CASE i = id
        <4>1. fate[i] = Waits
          BY <1>2, <3>2, HistoriesDiffer DEF HandledInv, PendingOk
        <4>2. i \in DOMAIN fate' /\ fate'[i] \in {WasFilled, WasRejected}
          BY <1>2, <1>3, <1>4, <3>2, <4>1
        <4>3. i \in Finished(t)'
          BY <1>7, <3>2
        <4> QED BY <4>2, <4>3
      <3> QED BY <3>1, <3>2
    <2> QED BY <2>1 DEF PendingOk
  <1> QED BY <1>3, <1>10, <1>11, <1>12, <1>13, <1>15 DEF HandledInv

-----------------------------------------------------------------------------
(* Steps of one tick that leave the queue alone. *)
LEMMA HandledTick ==
  ASSUME HandledInv, NEW t \in Threads, \A u \in Threads \ {t} : Keeps(u),
         UNCHANGED <<nextOrderId, pending, fate>>,
         Finished(t)' = Finished(t), TickOk(t)', pc'[t] # "limit_queue"
  PROVE  HandledInv'
  <1>1. \A u \in Threads : Finished(u)' = Finished(u)
    BY KeepsFinished
  <1>2. ASSUME NEW u \in Threads \ {t} PROVE TickOk(u)'
    BY <1>1 DEF HandledInv, TickOk, Keeps
  <1>3. \A u \in Holders' : u \in Holders /\ call'[u].id = call[u].id
    BY DEF Keeps, Holders
  <1>4. FateOk' /\ PendingOk'
    BY <1>1 DEF HandledInv, FateOk, PendingOk
  <1> QED BY <1>2, <1>3, <1>4 DEF HandledInv

(* The thread is where its tick, if it is in one, has an order in hand. *)
LEMMA HandTicks ==
  ASSUME TypeInv, NEW t \in Threads, pc[t] \in {"gate", "limits", "loss_failed",
         "place", "apply"}
  PROVE  /\ call[t].stage = "pre" /\ (Ticking(t) <=> call[t].op = "tick")
         /\ call[t].op = "tick" => call[t].id \in IdSpace
  BY DEF TypeInv, CallsTyped, CallTyped, PreLabels, CheckLabels, HasOrder, Ticking,
     HandLabels

(* A thread that returns is out of its tick ...                             *)
LEMMA Returned ==
  ASSUME ThreadTyped, NEW t \in Threads, Return(t)
  PROVE  /\ pc'[t] = "idle" /\ batch'[t] = NoBatch /\ ~(Ticking(t)')
         /\ Finished(t)' = {}
  BY DEF Return, Goto, ThreadTyped, ThreadsTyped, Ticking, HandLabels, Finished

(* ... and if it was in none, stays as it was.                              *)
LEMMA ReturnKeeps ==
  ASSUME ThreadTyped, NEW t \in Threads, Return(t), ~Ticking(t)
  PROVE  Keeps(t)
  BY Returned DEF Keeps, NoBatch

(* The order in hand is reported rejected. *)
LEMMA HandledReject ==
  ASSUME OneTicker, TypeInv, HandledInv, NEW t \in Threads,
         \A u \in Threads \ {t} : Keeps(u),
         UNCHANGED <<nextOrderId, pending>>,
         Ticking(t), pc[t] \in HandLabels, Processed(t, "rejected")
  PROVE  HandledInv'
  <1>1. ThreadTyped
    BY DEF TypeInv, TypeOK, ThreadTyped
  <1>2. /\ pc'[t] = "tick_next" /\ call' = call /\ Record({call[t].id}, "rejected")
        /\ batch'[t] = [batch[t] EXCEPT !.todo = @ \ {call[t].id}, !.done = @ \cup {call[t].id}]
    BY <1>1 DEF Processed, Goto, ThreadTyped, ThreadsTyped
  <1>3. BatchType(batch[t])
    BY <1>1 DEF ThreadTyped, ThreadsTyped
  <1>4. /\ batch'[t].todo = batch[t].todo \ {call[t].id}
        /\ batch'[t].done = batch[t].done \cup {call[t].id}
    BY <1>2, <1>3 DEF BatchType
  <1>5. Ticking(t)'
    BY <1>2 DEF Ticking
  <1>6. Finished(t)' = batch[t].done \cup {call[t].id}
    BY <1>2, <1>4, <1>5 DEF Finished
  <1>7. batch'[t].todo \cap batch'[t].done = {}
    BY <1>4 DEF HandledInv, TickOk
  <1> QED BY <1>2, <1>5, <1>6, <1>7, HandledFinish

(* No thread moves another one.                                             *)
LEMMA OthersKeep ==
  ASSUME TypeInv, HandledInv, NEW t \in Threads, Step(t) \/ NewCall(t)
  PROVE  \A u \in Threads \ {t} : Keeps(u)
  <1>1. ThreadTyped
    BY DEF TypeInv, TypeOK, ThreadTyped
  <1> QED BY <1>1, StepOthers, StartOthers, KeptSame

(* The pre-trade check and the daily-loss checks. *)
LEMMA HandledChecks ==
  ASSUME OneTicker, TypeInv, HandledInv, NEW t \in Threads,
         Gate(t) \/ Limits(t) \/ LossRead(t) \/ LossBalance(t) \/ LossFailed(t)
  PROVE  HandledInv'
  <1>1. ThreadTyped
    BY DEF TypeInv, TypeOK, ThreadTyped
  <1>2. \A u \in Threads \ {t} : Keeps(u)
    BY OthersKeep DEF Step
  <1>3. /\ pc[t] \in {"gate", "limits", "loss_read", "loss_balance", "loss_failed"}
        /\ UNCHANGED <<nextOrderId, pending>>
    BY DEF Gate, Limits, LossRead, LossBalance, LossFailed, managerVars, queueVars
  <1>4. ASSUME RejectCall(t), pc[t] \in {"gate", "limits", "loss_failed"}
        PROVE  HandledInv'
    <2>1. CASE call[t].op = "order" /\ Return(t) /\ UNCHANGED fate
      BY <1>1, <1>2, <1>3, <1>4, <2>1, HandTicks, ReturnKeeps, HandledSame
    <2>2. CASE call[t].op = "tick" /\ Processed(t, "rejected")
      BY <1>2, <1>3, <1>4, <2>2, HandTicks, HandledReject DEF HandLabels
    <2> QED BY <1>4, <2>1, <2>2 DEF RejectCall
  <1>5. ASSUME NEW l \in HandLabels, Advance(t, l) PROVE HandledInv'
    <2>1. Keeps(t)
      BY <1>1, <1>3, <1>5 DEF Advance, Goto, ThreadTyped, ThreadsTyped, Keeps, Ticking,
         HandLabels, HandledInv, TickOk
    <2> QED BY <1>2, <1>3, <1>5, <2>1, HandledSame DEF Advance
  <1>6. ASSUME call[t].stage = "post", Return(t), UNCHANGED fate PROVE HandledInv'
    BY <1>1, <1>2, <1>3, <1>6, ReturnKeeps, HandledSame DEF Ticking
  <1>7. CASE Gate(t) \/ Limits(t) \/ LossFailed(t)
    BY <1>4, <1>5, <1>7 DEF Gate, Limits, LossFailed, HandLabels
  <1>8. ASSUME LossCheckPassed(t) \/ LossCheckFailed(t) PROVE HandledInv'
    BY <1>5, <1>6, <1>8 DEF LossCheckPassed, LossCheckFailed, HandLabels
  <1>9. CASE LossBalance(t)
    BY <1>5, <1>8, <1>9 DEF LossBalance, HandLabels
  <1>10. CASE LossRead(t)
    <2>1. CASE LossCheckPassed(t) \/ LossCheckFailed(t)
      BY <1>8, <2>1
    <2>2. CASE /\ Goto(t, "loss_balance")
               /\ call' = [call EXCEPT ![t].base = startBalance]
               /\ UNCHANGED <<batch, view, import, fate>>
      <3>1. Keeps(t)
        BY <1>1, <1>3, <2>2 DEF Goto, ThreadTyped, ThreadsTyped, CallType, Keeps,
           Ticking, HandLabels, HandledInv, TickOk
      <3> QED BY <1>2, <1>3, <2>2, <3>1, HandledSame
    <2> QED BY <1>10, <2>1, <2>2 DEF LossRead
  <1> QED BY <1>7, <1>9, <1>10

(* The freeze drains the queue.                                             *)
LEMMA HandledFreeze ==
  ASSUME TypeInv, HandledInv, NEW t \in Threads, Freeze(t)
  PROVE  HandledInv'
  <1>1. ThreadTyped
    BY DEF TypeInv, TypeOK, ThreadTyped
  <1>2. \A u \in Threads \ {t} : Keeps(u)
    BY OthersKeep DEF Step
  <1>3. Keeps(t)
    <2>1. CASE call[t].stage = "pre"
      BY <1>1, <2>1 DEF Freeze, AfterFreeze, Goto, ThreadTyped, ThreadsTyped, Keeps,
         Ticking, HandLabels, HandledInv, TickOk
    <2>2. CASE call[t].stage # "pre"
      BY <1>1, <2>2, ReturnKeeps DEF Freeze, AfterFreeze, Ticking
    <2> QED BY <2>1, <2>2
  <1>4. Drained \in SUBSET DOMAIN pending
    BY DEF Drained
  <1> QED BY <1>2, <1>3, <1>4, HandledCancel DEF Freeze

(* The broker fills or rejects, and the books are kept.                     *)
LEMMA HandledTrade ==
  ASSUME OneTicker, TypeInv, HandledInv, NEW t \in Threads,
         PlaceFills(t) \/ PlaceRejected(t) \/ PlaceRaises(t) \/ Apply(t)
  PROVE  HandledInv'
  <1>1. ThreadTyped
    BY DEF TypeInv, TypeOK, ThreadTyped
  <1>2. \A u \in Threads \ {t} : Keeps(u)
    BY OthersKeep DEF Step
  <1>3. ~PlaceRaises(t)
    BY DEF OneTicker, PlaceRaises
  <1>4. CASE PlaceFills(t)
    <2>1. CASE call[t].op = "tick"
      <3>1. pc[t] = "place" /\ Ticking(t)
        BY <1>4, <2>1, HandTicks DEF PlaceFills
      <3>2. pc'[t] = "apply" /\ call' = call /\ batch' = batch
        BY <1>1, <1>4 DEF PlaceFills, Goto, ThreadTyped, ThreadsTyped
      <3>3. Ticking(t)'
        BY <3>1, <3>2 DEF Ticking
      <3>4. Finished(t)' = batch[t].done \cup {call[t].id}
        BY <3>2, <3>3 DEF Finished
      <3>5. batch'[t].todo \cap batch'[t].done = {}
        BY <3>2 DEF HandledInv, TickOk
      <3>6. UNCHANGED <<nextOrderId, pending>> /\ Record({call[t].id}, "filled") /\ pc[t] \in HandLabels
        BY <1>4, <2>1 DEF PlaceFills, managerVars, queueVars, HandLabels
      <3> QED BY <1>2, <3>1, <3>2, <3>3, <3>4, <3>5, <3>6, HandledFinish
    <2>2. CASE call[t].op # "tick"
      <3>1. Keeps(t)
        BY <1>1, <1>4, <2>2 DEF PlaceFills, Goto, ThreadTyped, ThreadsTyped, Keeps,
           Ticking, HandledInv, TickOk
      <3> QED BY <1>2, <1>4, <2>2, <3>1, HandledSame DEF PlaceFills, managerVars,
          queueVars
    <2> QED BY <2>1, <2>2
  <1>5. CASE PlaceRejected(t)
    <2>1. UNCHANGED <<nextOrderId, pending>> /\ pc[t] = "place"
      BY <1>5 DEF PlaceRejected, managerVars, queueVars
    <2>2. CASE call[t].op = "tick"
      BY <1>2, <1>5, <2>1, <2>2, HandTicks, HandledReject DEF PlaceRejected, HandLabels
    <2>3. CASE call[t].op # "tick"
      <3>1. Keeps(t)
        BY <1>1, <1>5, <2>3 DEF PlaceRejected, Goto, ThreadTyped, ThreadsTyped,
           CallType, Keeps, Ticking, HandledInv, TickOk
      <3> QED BY <1>2, <1>5, <2>1, <2>3, <3>1, HandledSame DEF PlaceRejected
    <2> QED BY <2>2, <2>3
  <1>6. CASE Apply(t)
    <2>1. UNCHANGED <<nextOrderId, pending, fate>> /\ pc[t] = "apply"
      BY <1>6 DEF Apply, queueVars
    <2>2. CASE call[t].op = "tick"
      <3>1. Ticking(t)
        BY <2>1, <2>2, HandTicks
      <3>2. /\ pc'[t] = "tick_next" /\ call' = call
            /\ batch'[t] = [batch[t] EXCEPT !.todo = @ \ {call[t].id}, !.done = @ \cup {call[t].id}]
        BY <1>1, <1>6, <2>2 DEF Apply, Goto, ThreadTyped, ThreadsTyped
      <3>3. BatchType(batch[t])
        BY <1>1 DEF ThreadTyped, ThreadsTyped
      <3>4. /\ batch'[t].todo = batch[t].todo \ {call[t].id}
            /\ batch'[t].done = batch[t].done \cup {call[t].id}
        BY <3>2, <3>3 DEF BatchType
      <3>5. Ticking(t)'
        BY <3>1, <3>2 DEF Ticking
      <3>6. Finished(t)' = Finished(t)
        BY <2>1, <3>1, <3>2, <3>4, <3>5 DEF Finished
      <3>7. TickOk(t)'
        BY <2>1, <3>1, <3>2, <3>4, <3>5, <3>6 DEF HandledInv, TickOk, HandLabels
      <3> QED BY <1>2, <2>1, <3>2, <3>6, <3>7, HandledTick
    <2>3. CASE call[t].op # "tick"
      <3>1. Keeps(t)
        BY <1>1, <1>6, <2>3 DEF Apply, Goto, ThreadTyped, ThreadsTyped, CallType,
           Keeps, Ticking, HandledInv, TickOk
      <3> QED BY <1>2, <2>1, <3>1, HandledSame
    <2> QED BY <2>2, <2>3
  <1> QED BY <1>3, <1>4, <1>5, <1>6

-----------------------------------------------------------------------------
(* A tick picks its next order, or removes those it has dealt with.         *)
LEMMA HandledTickSteps ==
  ASSUME OneTicker, TypeInv, HandledInv, NEW t \in Threads,
         (\E i \in batch[t].todo : TickNext(t, i)) \/ TickEnd(t)
  PROVE  HandledInv'
  <1>1. ThreadTyped
    BY DEF TypeInv, TypeOK, ThreadTyped
  <1>2. \A u \in Threads \ {t} : Keeps(u)
    BY OthersKeep DEF Step
  <1>3. Ticking(t) /\ pc[t] = "tick_next" /\ BatchType(batch[t])
    BY <1>1 DEF TickNext, TickEnd, ThreadTyped, ThreadsTyped, TypeInv, CallsTyped,
       CallTyped, PreLabels, Ticking
  <1>4. ASSUME NEW i \in batch[t].todo, TickNext(t, i) PROVE HandledInv'
    <2>1. /\ UNCHANGED <<nextOrderId, pending, fate>>
          /\ call'[t].op = "tick" /\ call'[t].stage = "pre"
      <3>1. \/ call' = call
            \/ \E order : call' = [call EXCEPT ![t].id = i, ![t].side = order.side,
                                             ![t].qty = order.qty, ![t].prevClose = order.prevClose]
        BY <1>4, Zenon DEF TickNext
      <3>3. call[t] \in CallType /\ t \in DOMAIN call
        BY <1>1 DEF ThreadTyped, ThreadsTyped
      <3>4. call'[t].op = call[t].op /\ call'[t].stage = call[t].stage
        <4>1. ASSUME NEW order, call' = [call EXCEPT ![t].id = i, ![t].side = order.side,
                                             ![t].qty = order.qty, ![t].prevClose = order.prevClose]
              PROVE  call'[t].op = call[t].op /\ call'[t].stage = call[t].stage
          <5>1. call'[t] = [call[t] EXCEPT !.id = i, !.side = order.side,
                                        !.qty = order.qty, !.prevClose = order.prevClose]
            BY <3>3, <4>1
          <5> QED BY <3>3, <5>1 DEF CallType
        <4> QED BY <3>1, <4>1
      <3>2. UNCHANGED <<nextOrderId, pending, fate>>
        BY <1>4 DEF TickNext, managerVars, queueVars
      <3> QED BY <1>3, <3>1, <3>2, <3>4 DEF Ticking
    <2>2. i \notin batch[t].done
      BY DEF HandledInv, TickOk
    <2>3. CASE i \notin DOMAIN pending
      <3>1. pc' = pc /\ call' = call /\ batch'[t] = [batch[t] EXCEPT !.todo = @ \ {i}]
        BY <1>1, <1>4, <2>3 DEF TickNext, ThreadTyped, ThreadsTyped
      <3>2. batch'[t].todo = batch[t].todo \ {i} /\ batch'[t].done = batch[t].done
        BY <1>3, <3>1 DEF BatchType
      <3>3. Finished(t)' = Finished(t)
        BY <3>1, <3>2 DEF Finished, Ticking
      <3>4. TickOk(t)'
        BY <1>3, <2>1, <3>1, <3>2, <3>3 DEF HandledInv, TickOk, Ticking, HandLabels
      <3> QED BY <1>2, <1>3, <2>1, <3>1, <3>3, <3>4, HandledTick
    <2>4. CASE i \in DOMAIN pending
      <3>1. pc'[t] = "gate" /\ batch' = batch /\ call'[t].id = i
        <4>1. pc'[t] = "gate" /\ batch' = batch
          BY <1>1, <1>4, <2>4 DEF TickNext, Goto, ThreadTyped, ThreadsTyped
        <4>2. call'[t].id = i
          BY <1>1, <1>4, <2>4 DEF TickNext, ThreadTyped, ThreadsTyped, CallType
        <4> QED BY <4>1, <4>2
      <3>2. Ticking(t)'
        BY <2>1, <3>1 DEF Ticking, HandLabels
      <3>3. Finished(t)' = Finished(t) /\ Finished(t) = batch[t].done
        BY <1>3, <3>1, <3>2 DEF Finished
      <3>4. i \in DOMAIN fate /\ fate[i] = Waits
        BY <1>3, <2>2, <2>4, <3>3, OneTicks DEF HandledInv, PendingOk, Finished
      <3>5. TickOk(t)'
        BY <1>3, <2>1, <2>2, <3>1, <3>2, <3>3, <3>4 DEF HandledInv, TickOk
      <3> QED BY <1>2, <2>1, <3>1, <3>3, <3>5, HandledTick
    <2> QED BY <2>3, <2>4
  <1>5. CASE TickEnd(t)
    <2>1. /\ pc'[t] = "loss_read" /\ call'[t].stage = "post" /\ batch'[t] = NoBatch
          /\ UNCHANGED <<nextOrderId, fate>> /\ pending' = Drop(pending, batch[t].done)
      BY <1>1, <1>5 DEF TickEnd, Goto, ToRemove, ThreadTyped, ThreadsTyped, CallType
    <2>2. ~(Ticking(t)') /\ Finished(t)' = {}
      BY <2>1 DEF Ticking, Finished
    <2>3. Finished(t) = batch[t].done
      BY <1>3 DEF Finished
    <2>4. \A u \in Threads \ {t} : Finished(u)' = Finished(u) /\ ~Ticking(u) /\ Finished(u) = {}
      BY <1>2, <1>3, KeepsFinished, OneTicks DEF Finished
    <2>5. ASSUME NEW u \in Threads \ {t} PROVE TickOk(u)'
      BY <1>2, <2>1, <2>4 DEF HandledInv, TickOk, Keeps, Finished
    <2>6. TickOk(t)'
      BY <2>1, <2>2 DEF TickOk, NoBatch
    <2>7. \A u \in Holders' : u \in Holders /\ call'[u].id = call[u].id
      BY <1>2, <2>1 DEF Keeps, Holders
    <2>8. DOMAIN pending' = DOMAIN pending \ batch[t].done
      BY <2>1 DEF Drop
    <2>9. FateOk'
      <3>1. \A i \in batch[t].done : i \in DOMAIN fate => fate[i] # Waits
        BY <2>3 DEF HandledInv, TickOk
      <3> QED BY <2>1, <2>8, <3>1 DEF HandledInv, FateOk
    <2>10. PendingOk'
      <3>1. \A i \in DOMAIN pending' : i \in DOMAIN fate /\ fate[i] = Waits
        BY <2>3, <2>4, <2>8 DEF HandledInv, PendingOk
      <3> QED BY <2>1, <3>1 DEF PendingOk
    <2> QED BY <2>1, <2>5, <2>6, <2>7, <2>9, <2>10 DEF HandledInv
  <1> QED BY <1>4, <1>5

(* A new order enters the queue under an id nothing has a history of.       *)
LEMMA HandledLimit ==
  ASSUME TypeInv, IdsFresh, HandledInv, NEW t \in Threads,
         LimitCheck(t) \/ LimitId(t) \/ LimitQueue(t)
  PROVE  HandledInv'
  <1>1. ThreadTyped
    BY DEF TypeInv, TypeOK, ThreadTyped
  <1>2. \A u \in Threads \ {t} : Keeps(u)
    BY OthersKeep DEF Step
  <1>3. ~Ticking(t) /\ nextOrderId \in Nat \ {0}
    BY DEF LimitCheck, LimitId, LimitQueue, Ticking, HandLabels, TypeInv, TypeOK,
       ManagerTyped
  <1>4. CASE LimitCheck(t)
    <2>1. Keeps(t)
      <3>1. CASE Return(t)
        BY <1>1, <1>3, <3>1, ReturnKeeps
      <3>2. CASE Goto(t, "limit_id") /\ UNCHANGED <<call, batch, view, import>>
        BY <1>1, <1>3, <3>2 DEF Goto, ThreadTyped, ThreadsTyped, Keeps, Ticking,
           HandLabels, HandledInv, TickOk
      <3> QED BY <1>4, <3>1, <3>2 DEF LimitCheck
    <2> QED BY <1>2, <1>4, <2>1, HandledSame DEF LimitCheck, managerVars, queueVars
  <1>5. CASE LimitId(t)
    <2>1. /\ pc'[t] = "limit_queue" /\ call'[t].id = nextOrderId /\ batch' = batch
          /\ nextOrderId' = nextOrderId + 1 /\ UNCHANGED <<fate, pending>>
      BY <1>1, <1>5 DEF LimitId, IdAfter, Goto, ThreadTyped, ThreadsTyped, CallType
    <2>2. ~(Ticking(t)') /\ Finished(t)' = {} /\ Finished(t) = {}
      BY <1>3, <2>1 DEF Ticking, HandLabels, Finished
    <2>3. \A u \in Threads : Finished(u)' = Finished(u)
      BY <1>2, <2>2, KeepsFinished
    <2>4. ASSUME NEW u \in Threads \ {t} PROVE TickOk(u)'
      BY <1>2, <2>1, <2>3 DEF HandledInv, TickOk, Keeps
    <2>5. TickOk(t)'
      BY <1>3, <2>1, <2>2 DEF HandledInv, TickOk
    <2>6. \A u \in Holders' \ {t} : u \in Holders /\ call'[u].id = call[u].id
      BY <1>2 DEF Keeps, Holders
    <2>7. nextOrderId \notin DOMAIN fate
      BY <1>3 DEF HandledInv, FateOk
    <2>8. FateOk' /\ PendingOk'
      BY <1>3, <2>1, <2>3 DEF HandledInv, FateOk, PendingOk
    <2>9. \A u \in Holders' : call'[u].id \notin DOMAIN fate'
      BY <2>1, <2>6, <2>7 DEF HandledInv
    <2> QED BY <2>4, <2>5, <2>8, <2>9 DEF HandledInv
  <1>6. CASE LimitQueue(t)
    <2>1. PICK id : id = call[t].id
      OBVIOUS
    <2>2. id \in Nat \ {0} /\ id \notin DOMAIN fate /\ id < nextOrderId /\ t \in Holders
      BY <1>6, <2>1 DEF LimitQueue, TypeInv, CallsTyped, CallTyped, HandledInv,
         Holders, IdsFresh
    <2>3. /\ DOMAIN fate' = DOMAIN fate \cup {id}
          /\ \A i \in DOMAIN fate : fate'[i] = fate[i]
          /\ fate'[id] = Waits
      <3>1. Record({id}, "queued") /\ FateOf(id) = <<>>
        BY <1>6, <2>1, <2>2 DEF LimitQueue, FateOf
      <3>2. /\ DOMAIN fate' = DOMAIN fate \cup {id}
            /\ \A i \in DOMAIN fate \ {id} : fate'[i] = fate[i]
            /\ \A i \in {id} : fate'[i] = Append(FateOf(i), "queued")
        BY <3>1, Recorded
      <3> QED BY <2>2, <3>1, <3>2, HistoryGrows
    <2>4. DOMAIN pending' = DOMAIN pending \cup {id} /\ nextOrderId' = nextOrderId
      BY <1>6, <2>1 DEF LimitQueue, Put
    <2>5. Keeps(t) /\ pc'[t] = "idle"
      BY <1>1, <1>3, <1>6, ReturnKeeps, Returned DEF LimitQueue
    <2>6. \A u \in Threads : Keeps(u) /\ Finished(u)' = Finished(u)
      BY <1>2, <2>5, KeepsFinished
    <2>7. ASSUME NEW u \in Threads PROVE TickOk(u)'
      BY <2>3, <2>6 DEF HandledInv, TickOk, Keeps
    <2>8. \A u \in Holders' : u \in Holders /\ call'[u].id = call[u].id /\ u # t
      BY <1>2, <2>5 DEF Keeps, Holders
    <2>9. \A u \in Holders' : call'[u].id \notin DOMAIN fate'
      BY <2>1, <2>2, <2>3, <2>8 DEF HandledInv, IdsFresh
    <2>10. FateOk'
      BY <2>2, <2>3, <2>4 DEF HandledInv, FateOk, Histories
    <2>11. PendingOk'
      BY <2>3, <2>4, <2>6 DEF HandledInv, PendingOk
    <2> QED BY <2>7, <2>9, <2>10, <2>11 DEF HandledInv
  <1> QED BY <1>4, <1>5, <1>6

(* The inductive step inside an operation ...                               *)
LEMMA HandledStep ==
  ASSUME OneTicker, TypeInv, IdsFresh, HandledInv, NEW t \in Threads, Step(t)
  PROVE  HandledInv'
  <1>1. ThreadTyped
    BY DEF TypeInv, TypeOK, ThreadTyped
  <1>2. CASE DayReset(t) \/ DayPositions(t) \/ DayCash(t) \/ ReconcileDefault(t)
             \/ ReconcileRead(t)
    <2>1. Keeps(t)
      BY <1>1, <1>2 DEF DayReset, DayPositions, DayCash, ReconcileDefault,
         ReconcileRead, Goto, ThreadTyped, ThreadsTyped, Keeps, Ticking, HandLabels,
         HandledInv, TickOk
    <2> QED BY <1>2, <2>1, OthersKeep, HandledSame DEF DayReset, DayPositions, DayCash,
        ReconcileDefault, ReconcileRead, managerVars, queueVars
  <1>3. CASE DayExpect(t) \/ ReconcileCompare(t)
    <2>1. Keeps(t)
      BY <1>1, <1>3, ReturnKeeps DEF DayExpect, ReconcileCompare, Ticking, HandLabels
    <2> QED BY <1>3, <2>1, OthersKeep, HandledSame DEF DayExpect, ReconcileCompare,
        managerVars, queueVars
  <1>4. ~SyncImport(t) /\ ~SyncCommit(t)
    BY DEF SyncImport, SyncCommit, HandledInv, TickOk
  <1> QED BY <1>2, <1>3, <1>4, HandledChecks, HandledFreeze, HandledTrade,
      HandledTickSteps, HandledLimit DEF Step

(* ... and at its start.                                                    *)
LEMMA HandledStart ==
  ASSUME OneTicker, TypeInv, HandledInv, NEW t \in Threads, NewCall(t)
  PROVE  HandledInv'
  <1>1. ThreadTyped
    BY DEF TypeInv, TypeOK, ThreadTyped
  <1>2. \A u \in Threads \ {t} : Keeps(u)
    BY OthersKeep
  <1>3. ASSUME NEW o \in Order, StartOrder(t, o) \/ StartLimit(t, o) PROVE HandledInv'
    <2>1. Keeps(t)
      <3>1. /\ pc[t] = "idle" /\ pc'[t] \in {"gate", "limit_check"} /\ batch' = batch
            /\ call'[t].op \in {"order", "limit"}
        BY <1>1, <1>3 DEF StartOrder, StartLimit, Start, Goto, CallFor, NoCall,
           ThreadTyped, ThreadsTyped
      <3> QED BY <3>1 DEF Keeps, Ticking, HandLabels, HandledInv, TickOk
    <2> QED BY <1>2, <1>3, <2>1, HandledSame DEF StartOrder, StartLimit, managerVars,
        queueVars
  <1>4. ASSUME NEW ids, Cancel(t, ids) PROVE HandledInv'
    <2>1. Keeps(t)
      BY <1>4, KeptSame DEF Cancel, threadVars
    <2> QED BY <1>2, <1>4, <2>1, HandledCancel DEF Cancel
  <1>5. ASSUME NEW s \in Symbols, NEW p \in Prices, StartTick(t, s, p) PROVE HandledInv'
    <2>1. /\ pc[t] = "idle" /\ pc'[t] = "tick_next" /\ "tick" \in Role[t]
          /\ UNCHANGED <<nextOrderId, pending, fate>>
          /\ batch'[t].done = {} /\ batch'[t].todo \cap {} = {}
      BY <1>1, <1>5 DEF StartTick, Start, Goto, ThreadTyped, ThreadsTyped, managerVars,
         queueVars
    <2>2. call'[t].op = "tick" /\ call'[t].stage = "pre"
      BY <1>1, <1>5 DEF StartTick, ThreadTyped, ThreadsTyped, NoCall
    <2>3. Finished(t) = {} /\ Finished(t)' = {} /\ Ticking(t)'
      BY <2>1, <2>2 DEF Finished, Ticking, HandLabels
    <2>4. TickOk(t)'
      BY <2>1, <2>3 DEF TickOk, HandLabels
    <2> QED BY <1>2, <2>1, <2>3, <2>4, HandledTick
  <1>6. ASSUME NEW s \in Symbols, NEW p \in Prices, StartDay(t, s, p) PROVE HandledInv'
    <2>1. Keeps(t)
      BY <1>1, <1>6 DEF StartDay, Start, Goto, NoCall, ThreadTyped, ThreadsTyped,
         Keeps, Ticking, HandLabels, HandledInv, TickOk
    <2> QED BY <1>2, <1>6, <2>1, HandledSame DEF StartDay, managerVars, queueVars
  <1>7. CASE StartReconcile(t)
    <2>1. Keeps(t)
      BY <1>1, <1>7 DEF StartReconcile, Start, Goto, ThreadTyped, ThreadsTyped, Keeps,
         Ticking, HandLabels, HandledInv, TickOk
    <2> QED BY <1>2, <1>7, <2>1, HandledSame DEF StartReconcile, managerVars, queueVars
  <1>8. ~StartSync(t)
    BY DEF OneTicker, StartSync, Start
  <1> QED BY <1>3, <1>4, <1>5, <1>6, <1>7, <1>8 DEF NewCall, CancelLimitOrder,
      CancelAllForSymbol, CancelAll

(* A manager that was just built satisfies the invariant.                   *)
LEMMA HandledNew ==
  ASSUME \A t \in Threads : pc[t] = "idle" /\ call[t] = NoCall /\ batch[t] = NoBatch,
         pending = EmptyQueue, fate = EmptyQueue
  PROVE  HandledInv
  BY DEF HandledInv, TickOk, Ticking, Finished, HandLabels, NoBatch, Holders, FateOk,
     PendingOk, EmptyQueue

(* The invariant holds throughout.                                          *)
THEOREM HandledInvHolds ==
  ASSUME OneTicker
  PROVE  Spec => []HandledInv
  <1>1. Init => HandledInv
    BY HandledNew DEF Init, NewManager, IdleThreads
  <1>2. TypeInv /\ IdsFresh /\ HandledInv /\ [Next]_vars => HandledInv'
    <2> SUFFICES ASSUME TypeInv, IdsFresh, HandledInv, [Next]_vars PROVE HandledInv'
      OBVIOUS
    <2>1. ASSUME UNCHANGED <<managerVars, threadVars, fate>> PROVE HandledInv'
      <3>1. \A u \in Threads : Keeps(u)
        BY <2>1, KeptSame DEF threadVars
      <3> QED BY <2>1, <3>1, HandledSame DEF managerVars, queueVars
    <2>2. CASE Restart
      BY <2>2 DEF Restart, HandledInv, TickOk, Ticking, Finished, HandLabels, NoBatch,
         Holders, FateOk, PendingOk, EmptyQueue
    <2>3. ASSUME NEW s \in Symbols, NEW d \in Sides, NEW q \in Qtys, NEW p \in Prices,
                 TradeOutOfBand(s, d, q, p)
          PROVE  HandledInv'
      BY <2>1, <2>3 DEF TradeOutOfBand
    <2>4. CASE UNCHANGED vars
      BY <2>1, <2>4 DEF vars
    <2> QED BY <2>2, <2>3, <2>4, HandledStep, HandledStart DEF Next
  <1> QED BY <1>1, <1>2, TypeInvHolds, IdsAlwaysFresh, PTL DEF Spec

(* HandledOnce: whatever the other threads queue, cancel or freeze while a  *)
(* tick is under way, no order is filled twice, none is lost, and between   *)
(* calls the queue holds nothing that was already dealt with.               *)
THEOREM HandledOnceHolds ==
  ASSUME OneTicker
  PROVE  Spec => []HandledOnce
  <1>1. HandledInv => HandledOnce
    <2> SUFFICES ASSUME HandledInv PROVE HandledOnce
      OBVIOUS
    <2>1. FilledAtMostOnce
      BY HistoryFills DEF HandledInv, FateOk, FilledAtMostOnce, Fills, FateOf
    <2>2. NothingLost
      BY DEF HandledInv, FateOk, NothingLost, OpenOrders, Waits
    <2>3. ProcessedLeaveQueue
      BY DEF HandledInv, PendingOk, Finished, Ticking, HandLabels, ProcessedLeaveQueue,
         OpenOrders, Waits
    <2> QED BY <2>1, <2>2, <2>3 DEF HandledOnce
  <1> QED BY <1>1, HandledInvHolds, PTL

-----------------------------------------------------------------------------
SecondEvents == {"cancelled", "rejected"}
EndedBy(h) == Len(h) > 1 /\ h[2] \in SecondEvents
FillsIn(h) == Cardinality({k \in DOMAIN h : h[k] = "filled"})

(* How many fills a history has ...                                         *)
LEMMA FillsInHistories ==
  /\ FillsIn(<<>>) = 0 /\ FillsIn(Waits) = 0 /\ FillsIn(WasRejected) = 0 /\ FillsIn(WasCancelled) = 0
  /\ FillsIn(RejectedInFlight) = 0 /\ FillsIn(CancelledRejected) = 0
  /\ FillsIn(WasFilled) = 1 /\ FillsIn(CancelledFilled) = 1
  <1>1. /\ {k \in DOMAIN <<>> : <<>>[k] = "filled"} = {}
        /\ {k \in DOMAIN Waits : Waits[k] = "filled"} = {}
        /\ {k \in DOMAIN WasRejected : WasRejected[k] = "filled"} = {}
        /\ {k \in DOMAIN WasCancelled : WasCancelled[k] = "filled"} = {}
    BY DEF Waits, WasRejected, WasCancelled
  <1>2. /\ {k \in DOMAIN RejectedInFlight : RejectedInFlight[k] = "filled"} = {}
        /\ {k \in DOMAIN CancelledRejected : CancelledRejected[k] = "filled"} = {}
    BY DEF RejectedInFlight, CancelledRejected
  <1>3. /\ {k \in DOMAIN WasFilled : WasFilled[k] = "filled"} = {2}
        /\ {k \in DOMAIN CancelledFilled : CancelledFilled[k] = "filled"} = {2}
    BY DEF WasFilled, CancelledFilled
  <1>4. Cardinality({}) = 0 /\ Cardinality({2}) = 1
    BY FS_EmptySet, FS_Singleton
  <1> QED BY <1>1, <1>2, <1>3, <1>4 DEF FillsIn

(* ... and which histories are those of withdrawn orders.                   *)
LEMMA EndsInHistories ==
  /\ ~EndedBy(Waits) /\ ~EndedBy(WasFilled) /\ ~EndedBy(CancelledFilled)
  /\ EndedBy(WasRejected) /\ EndedBy(WasCancelled)
  /\ EndedBy(RejectedInFlight) /\ EndedBy(CancelledRejected)
  BY DEF EndedBy, SecondEvents, Waits, WasFilled, WasRejected, WasCancelled,
     RejectedInFlight, CancelledFilled, CancelledRejected

(* OrderLifecycle's state is a function of the histories ...                *)
LEMMA AbstractState ==
  /\ OpenOrders = {i \in DOMAIN fate : fate[i] = Waits}
  /\ Withdrawn = {i \in DOMAIN fate : EndedBy(fate[i])}
  /\ \A i : Fills(i) = FillsIn(IF i \in DOMAIN fate THEN fate[i] ELSE <<>>)
  BY DEF OpenOrders, Waits, Withdrawn, EndedBy, SecondEvents, Fills, FillsIn, FateOf

(* One thread at a time: the order in hand still waits, unless its own loss *)
(* check has just drained the queue ...                                     *)
Lives(t) ==
  /\ Ticking(t) /\ pc[t] \in HandLabels \ {"loss_failed"} => fate[call[t].id] = Waits
  /\ call[t].op = "order" => call[t].id = NoId
  /\ pc[t] = "limit_id" => call[t].op = "limit"
  /\ pc[t] = "limit_check" => call[t].op = "limit"

(* ... and there are no more ids than calls.                                *)
LifeInv ==
  /\ \A t \in Threads : /\ Lives(t)
                        /\ pc[t] \in {"limit_check", "limit_id"} => nextOrderId <= calls
  /\ calls <= MaxCalls /\ nextOrderId <= calls + 1

(* An order is open as long as it waits. *)
Matches == StillOpen = {i \in DOMAIN fate : fate[i] = Waits}

(* The queue less what was dealt with is what has a history of waiting.     *)
LEMMA LifeMatches ==
  ASSUME TypeInv, TradersTrade, HandledInv, LifeInv
  PROVE  Matches
  <1>1. ASSUME NEW t \in Threads, NEW i \in DOMAIN fate, i \in DealtWith(t)
        PROVE  i \in Finished(t)
    <2>1. i # NoId
      BY DEF HandledInv, FateOk, NoId
    <2>2. CASE i \in batch[t].done
      BY <2>2 DEF HandledInv, TickOk, Finished
    <2>3. CASE pc[t] = "apply" /\ i = call[t].id
      <3>1. call[t].op = "tick"
        BY <2>1, <2>3 DEF LifeInv, Lives, TradersTrade, TraderLabels
      <3> QED BY <2>3, <3>1, HandTicks DEF Finished
    <2> QED BY <1>1, <2>2, <2>3 DEF DealtWith
  <1>2. ASSUME NEW t \in Threads PROVE Finished(t) \subseteq DealtWith(t)
    BY DEF Finished, DealtWith
  <1>3. ASSUME NEW i \in StillOpen PROVE i \in DOMAIN fate /\ fate[i] = Waits
    <2>1. i \in DOMAIN pending /\ \A t \in Threads : i \notin Finished(t)
      BY <1>2 DEF StillOpen
    <2> QED BY <2>1 DEF HandledInv, PendingOk
  <1>4. ASSUME NEW i \in DOMAIN fate, fate[i] = Waits PROVE i \in StillOpen
    <2>1. i \in DOMAIN pending /\ \A t \in Threads : i \notin Finished(t)
      BY <1>4 DEF HandledInv, FateOk, TickOk
    <2> QED BY <1>1, <2>1 DEF StillOpen
  <1> QED BY <1>3, <1>4 DEF Matches

(* An order of the copy that is still in the queue waits. *)
LEMMA TickPicks ==
  ASSUME OneTicker, HandledInv, NEW t \in Threads, Ticking(t), pc[t] = "tick_next",
         NEW i \in batch[t].todo, i \in DOMAIN pending
  PROVE  i \in DOMAIN fate /\ fate[i] = Waits
  <1>1. i \notin batch[t].done
    BY DEF HandledInv, TickOk
  <1>2. Finished(t) = batch[t].done
    BY DEF Finished
  <1> QED BY <1>1, <1>2, OneTicks DEF HandledInv, PendingOk, Finished

(* The calls bound the ids. *)
LEMMA LifeBounds ==
  ASSUME SerialUse, TypeInv, HandledInv, LifeInv, NEW t \in Threads,
         Step(t) \/ NewCall(t)
  PROVE  /\ calls' <= MaxCalls /\ nextOrderId' <= calls' + 1
         /\ pc'[t] \in {"limit_check", "limit_id"} => nextOrderId' <= calls'
  <1>1. /\ ThreadTyped /\ nextOrderId \in Nat /\ calls \in Nat /\ MaxCalls \in Nat
        /\ calls <= MaxCalls /\ nextOrderId <= calls + 1
    BY ManagerAssumption DEF TypeInv, TypeOK, ThreadTyped, ManagerTyped, LifeInv
  <1>2. CASE NewCall(t)
    <2>1. UNCHANGED nextOrderId /\ ~StartSync(t)
      BY <1>2, CallKeepsIds DEF SerialUse, StartSync, Start
    <2>2. calls < MaxCalls /\ calls' = calls + 1
      BY <1>2, <2>1 DEF NewCall, StartOrder, StartLimit, CancelLimitOrder,
         CancelAllForSymbol, CancelAll, Cancel, StartTick, StartDay, StartReconcile,
         Start
    <2> QED BY <1>1, <2>1, <2>2
  <1>3. CASE Step(t)
    <2>1. UNCHANGED calls
      BY <1>3 DEF Step, Gate, Limits, LossRead, LossBalance, Freeze, LossFailed,
         PlaceFills, PlaceRejected, PlaceRaises, Apply, LimitCheck, LimitId,
         LimitQueue, TickNext, TickEnd, DayReset, DayPositions, DayCash, DayExpect,
         SyncImport, SyncCommit, ReconcileDefault, ReconcileRead, ReconcileCompare,
         auxVars
    <2>2. CASE LimitId(t)
      <3>1. nextOrderId <= calls /\ nextOrderId' = nextOrderId + 1 /\ pc'[t] = "limit_queue"
        BY <1>1, <2>2 DEF LimitId, IdAfter, LifeInv, Goto, ThreadTyped, ThreadsTyped
      <3> QED BY <1>1, <2>1, <3>1
    <2>3. CASE ~LimitId(t)
      <3>1. UNCHANGED nextOrderId
        BY <1>3, <2>3, StepKeepsIds DEF HandledInv, TickOk, SyncImport, SyncCommit
      <3>2. pc'[t] \in {"limit_check", "limit_id"} => pc[t] \in {"limit_check", "limit_id"}
        <4>1. CASE Gate(t) \/ Limits(t) \/ LossRead(t) \/ LossBalance(t)
                   \/ Freeze(t) \/ LossFailed(t)
          BY <1>1, <4>1 DEF Gate, Limits, LossRead, LossBalance, Freeze, LossFailed,
             LossCheckPassed, LossCheckFailed, Advance, RejectCall, Processed, Return,
             AfterFreeze, Goto, ThreadTyped, ThreadsTyped
        <4>2. CASE PlaceFills(t) \/ PlaceRejected(t) \/ PlaceRaises(t) \/ Apply(t)
          BY <1>1, <4>2 DEF PlaceFills, PlaceRejected, PlaceRaises, Apply, Processed,
             Return, Goto, ThreadTyped, ThreadsTyped
        <4>3. CASE LimitCheck(t) \/ LimitQueue(t)
                   \/ (\E i \in batch[t].todo : TickNext(t, i)) \/ TickEnd(t)
          BY <1>1, <4>3 DEF LimitCheck, LimitQueue, TickNext, TickEnd, Return, Goto,
             ThreadTyped, ThreadsTyped
        <4>4. CASE DayReset(t) \/ DayPositions(t) \/ DayCash(t) \/ DayExpect(t)
                   \/ SyncImport(t) \/ SyncCommit(t)
                   \/ ReconcileDefault(t) \/ ReconcileRead(t) \/ ReconcileCompare(t)
          BY <1>1, <4>4 DEF DayReset, DayPositions, DayCash, DayExpect, SyncImport,
             SyncCommit, ReconcileDefault, ReconcileRead, ReconcileCompare, Return,
             Goto, ThreadTyped, ThreadsTyped
        <4> QED BY <1>3, <2>3, <4>1, <4>2, <4>3, <4>4 DEF Step
      <3> QED BY <1>1, <2>1, <3>1, <3>2 DEF LifeInv
    <2> QED BY <2>2, <2>3
  <1> QED BY <1>2, <1>3

(* The inductive step for the thread that moves ...                         *)
LEMMA LivesStep ==
  ASSUME SerialUse, OneTicker, TypeInv, HandledInv, NEW t \in Threads, Lives(t), Step(t)
  PROVE  Lives(t)'
  <1>1. ThreadTyped
    BY DEF TypeInv, TypeOK, ThreadTyped
  <1>2. ASSUME pc'[t] \in {"idle", "loss_failed"}, call' = call \/ call'[t] = NoCall
        PROVE  Lives(t)'
    BY <1>2 DEF Lives, NoCall, HandLabels
  <1>3. ASSUME Return(t) PROVE Lives(t)'
    BY <1>1, <1>2, <1>3 DEF Return, Goto, ThreadTyped, ThreadsTyped
  <1>4. ASSUME NEW e, Processed(t, e) PROVE Lives(t)'
    BY <1>1, <1>4 DEF Lives, Processed, Goto, ThreadTyped, ThreadsTyped, HandLabels
  <1>5. ASSUME RejectCall(t) PROVE Lives(t)'
    BY <1>3, <1>4, <1>5 DEF RejectCall
  <1>6. ASSUME NEW l \in HandLabels, Advance(t, l),
               pc[t] \in HandLabels \ {"loss_failed"}
        PROVE  Lives(t)'
    BY <1>1, <1>6 DEF Lives, Advance, Goto, Ticking, HandLabels, ThreadTyped,
       ThreadsTyped
  <1>7. CASE Gate(t) \/ Limits(t) \/ LossFailed(t)
    BY <1>5, <1>6, <1>7 DEF Gate, Limits, LossFailed, HandLabels
  <1>8. ASSUME LossCheckPassed(t) \/ LossCheckFailed(t), pc[t] \in {"loss_read",
               "loss_balance"}
        PROVE  Lives(t)'
    BY <1>3, <1>6, <1>8 DEF LossCheckPassed, LossCheckFailed, HandLabels
  <1>9. CASE LossBalance(t)
    BY <1>6, <1>8, <1>9 DEF LossBalance, HandLabels
  <1>10. CASE LossRead(t)
    <2>1. CASE LossCheckPassed(t) \/ LossCheckFailed(t)
      BY <1>8, <1>10, <2>1 DEF LossRead
    <2>2. CASE /\ Goto(t, "loss_balance")
               /\ call' = [call EXCEPT ![t].base = startBalance]
               /\ UNCHANGED <<batch, view, import, fate>>
      BY <1>1, <1>10, <2>2 DEF LossRead, Goto, Lives, Ticking, HandLabels, ThreadTyped,
         ThreadsTyped, CallType
    <2> QED BY <1>10, <2>1, <2>2 DEF LossRead
  <1>11. CASE Freeze(t)
    BY <1>1, <1>2, <1>3, <1>11 DEF Freeze, AfterFreeze, Goto, ThreadTyped, ThreadsTyped
  <1>12. CASE PlaceFills(t)
    BY <1>1, <1>12 DEF PlaceFills, Goto, Lives, HandLabels, ThreadTyped, ThreadsTyped
  <1>13. ~PlaceRaises(t) /\ ~SyncImport(t) /\ ~SyncCommit(t)
    BY DEF OneTicker, PlaceRaises, SyncImport, SyncCommit, HandledInv, TickOk
  <1>14. ASSUME Goto(t, "loss_read"), call' = [call EXCEPT ![t].stage = "post"]
         PROVE  Lives(t)'
    BY <1>1, <1>14 DEF Goto, Lives, Ticking, ThreadTyped, ThreadsTyped, CallType
  <1>15. CASE PlaceRejected(t)
    BY <1>4, <1>14, <1>15 DEF PlaceRejected
  <1>16. CASE Apply(t)
    <2>1. CASE call[t].op = "tick"
      BY <1>1, <1>16, <2>1 DEF Apply, Goto, Lives, HandLabels, ThreadTyped, ThreadsTyped
    <2> QED BY <1>14, <1>16, <2>1 DEF Apply
  <1>17. CASE LimitCheck(t) \/ LimitQueue(t)
    <2>1. CASE Return(t)
      BY <1>3, <2>1
    <2>2. CASE pc[t] = "limit_check" /\ Goto(t, "limit_id") /\ UNCHANGED call
      BY <1>1, <2>2 DEF Goto, Lives, HandLabels, ThreadTyped, ThreadsTyped
    <2> QED BY <1>17, <2>1, <2>2 DEF LimitCheck, LimitQueue
  <1>18. CASE LimitId(t)
    <2>1. pc[t] = "limit_id" /\ pc'[t] = "limit_queue" /\ call'[t].op = call[t].op
      BY <1>1, <1>18 DEF LimitId, Goto, ThreadTyped, ThreadsTyped, CallType
    <2> QED BY <2>1 DEF Lives, HandLabels
  <1>19. ASSUME NEW i \in batch[t].todo, TickNext(t, i) PROVE Lives(t)'
    <2>1. Ticking(t) /\ pc[t] = "tick_next" /\ UNCHANGED fate
      BY <1>19 DEF TickNext, TypeInv, CallsTyped, CallTyped, PreLabels, Ticking
    <2>2. CASE i \notin DOMAIN pending
      BY <1>19, <2>1, <2>2 DEF TickNext, Lives, HandLabels
    <2>3. CASE i \in DOMAIN pending
      <3>1. fate[i] = Waits
        BY <2>1, <2>3, TickPicks
      <3>2. call'[t].id = i
        BY <1>1, <1>19, <2>3 DEF TickNext, ThreadTyped, ThreadsTyped, CallType
      <3>3. call'[t].op = "tick" /\ pc'[t] = "gate"
        <4>1. PICK order : call' = [call EXCEPT ![t].id = i, ![t].side = order.side,
                                             ![t].qty = order.qty, ![t].prevClose = order.prevClose]
          BY <1>19, <2>3, Zenon DEF TickNext
        <4>2. call'[t] = [call[t] EXCEPT !.id = i, !.side = order.side,
                                        !.qty = order.qty, !.prevClose = order.prevClose]
          BY <1>1, <4>1 DEF ThreadTyped, ThreadsTyped
        <4>3. call'[t].op = call[t].op
          BY <1>1, <4>2 DEF ThreadTyped, ThreadsTyped, CallType
        <4>4. pc'[t] = "gate"
          BY <1>1, <1>19, <2>3 DEF TickNext, Goto, ThreadTyped, ThreadsTyped
        <4> QED BY <2>1, <4>3, <4>4 DEF Ticking
      <3> QED BY <2>1, <3>1, <3>2, <3>3 DEF Lives
    <2> QED BY <2>2, <2>3
  <1>20. CASE TickEnd(t)
    BY <1>14, <1>20 DEF TickEnd
  <1>21. CASE DayReset(t) \/ DayPositions(t) \/ DayCash(t) \/ ReconcileDefault(t)
              \/ ReconcileRead(t)
    BY <1>1, <1>21 DEF DayReset, DayPositions, DayCash, ReconcileDefault,
       ReconcileRead, Goto, Lives, HandLabels, ThreadTyped, ThreadsTyped
  <1>22. CASE DayExpect(t) \/ ReconcileCompare(t)
    BY <1>3, <1>22 DEF DayExpect, ReconcileCompare
  <1> QED BY <1>7, <1>9, <1>10, <1>11, <1>12, <1>13, <1>15, <1>16, <1>17, <1>18, <1>19,
      <1>20, <1>21, <1>22 DEF Step

(* ... and for one that starts an operation.                                *)
LEMMA LivesStart ==
  ASSUME SerialUse, TypeInv, HandledInv, NEW t \in Threads, Lives(t), NewCall(t)
  PROVE  Lives(t)'
  <1>1. ThreadTyped
    BY DEF TypeInv, TypeOK, ThreadTyped
  <1>2. ASSUME NEW o \in Order, StartOrder(t, o) \/ StartLimit(t, o) PROVE Lives(t)'
    <2>1. /\ call'[t].op \in {"order", "limit"} /\ call'[t].id = NoId
          /\ pc'[t] \in {"limit_id", "limit_check"} => call'[t].op = "limit"
      BY <1>1, <1>2 DEF StartOrder, StartLimit, Goto, CallFor, NoCall, ThreadTyped,
         ThreadsTyped
    <2> QED BY <2>1 DEF Lives, Ticking
  <1>3. ASSUME NEW ids, Cancel(t, ids) PROVE Lives(t)'
    <2>1. pc[t] = "idle" /\ UNCHANGED threadVars
      BY <1>3 DEF Cancel, Start
    <2> QED BY <2>1 DEF Lives, threadVars, HandLabels
  <1>4. ASSUME NEW s \in Symbols, NEW p \in Prices, StartTick(t, s, p) \/ StartDay(t,
               s, p)
        PROVE  Lives(t)'
    BY <1>1, <1>4 DEF StartTick, StartDay, Goto, NoCall, Lives, HandLabels,
       ThreadTyped, ThreadsTyped
  <1>5. CASE StartReconcile(t)
    BY <1>1, <1>5 DEF StartReconcile, Goto, Lives, HandLabels, ThreadTyped, ThreadsTyped
  <1>6. ~StartSync(t)
    BY DEF SerialUse, StartSync, Start
  <1> QED BY <1>2, <1>3, <1>4, <1>5, <1>6 DEF NewCall, CancelLimitOrder,
      CancelAllForSymbol, CancelAll

(* The inductive step.                                                      *)
LEMMA LifeStep ==
  ASSUME SerialUse, OneTicker, TypeInv, HandledInv, LifeInv, NEW t \in Threads,
         Step(t) \/ NewCall(t)
  PROVE  LifeInv'
  <1>1. \A u \in Threads : u = t
    BY DEF SerialUse
  <1>2. Lives(t)
    BY DEF LifeInv
  <1>3. Lives(t)'
    BY <1>2, LivesStep, LivesStart
  <1>4. /\ calls' <= MaxCalls /\ nextOrderId' <= calls' + 1
        /\ pc'[t] \in {"limit_check", "limit_id"} => nextOrderId' <= calls'
    BY LifeBounds
  <1> QED BY <1>1, <1>3, <1>4 DEF LifeInv

-----------------------------------------------------------------------------
(* ... and so is the next one.                                              *)
LEMMA AbstractStateNext ==
  /\ Withdrawn' = {i \in DOMAIN fate' : EndedBy(fate'[i])}
  /\ \A i : Fills(i)' = FillsIn(IF i \in DOMAIN fate' THEN fate'[i] ELSE <<>>)
  BY DEF Withdrawn, EndedBy, SecondEvents, Fills, FillsIn, FateOf

(* Every order has one of the ids the instance of OrderLifecycle knows.     *)
LEMMA KnownIds ==
  ASSUME TypeInv, HandledInv, LifeInv, NEW i \in DOMAIN fate
  PROVE  i \in AllIds
  <1>1. i \in Nat \ {0} /\ i < nextOrderId /\ nextOrderId <= calls + 1 /\ calls <= MaxCalls
    BY DEF HandledInv, FateOk, LifeInv
  <1> QED BY <1>1, ManagerAssumption DEF AllIds, TypeInv, TypeOK, ManagerTyped

(* What a step of OrderLifecycle does to the orders in ids. *)
Ends(ids) ==
  /\ DOMAIN fate' = DOMAIN fate
  /\ ids \subseteq DOMAIN fate
  /\ \A i \in DOMAIN fate \ ids : fate'[i] = fate[i]

(* An event after the end of an order is no step of OrderLifecycle;         *)
LEMMA StutterStep ==
  ASSUME Matches, Matches', NEW ids, Ends(ids),
         \A i \in ids : /\ fate[i] # Waits /\ fate'[i] # Waits
                        /\ EndedBy(fate'[i]) <=> EndedBy(fate[i])
                        /\ FillsIn(fate'[i]) = FillsIn(fate[i])
  PROVE  UNCHANGED Lifecycle!lifecycleVars
  <1>1. StillOpen' = StillOpen
    BY DEF Matches, Ends
  <1>2. Withdrawn' = Withdrawn
    BY AbstractState, AbstractStateNext DEF Ends
  <1>3. \A i : Fills(i)' = Fills(i)
    BY AbstractState, AbstractStateNext DEF Ends
  <1> QED BY <1>1, <1>2, <1>3 DEF Lifecycle!lifecycleVars

(* the first cancellation or rejection withdraws the orders that wait;      *)
LEMMA WithdrawStep ==
  ASSUME Matches, Matches', NEW ids, Ends(ids), NEW i0 \in ids, fate[i0] = Waits,
         \A i \in ids : /\ fate'[i] # Waits
                        /\ EndedBy(fate'[i]) <=> (EndedBy(fate[i]) \/ fate[i] = Waits)
                        /\ FillsIn(fate'[i]) = FillsIn(fate[i])
  PROVE  Lifecycle!Next
  <1> DEFINE S == {i \in ids : fate[i] = Waits}
  <1>1. S # {} /\ S \in SUBSET StillOpen
    BY DEF Matches, Ends
  <1>2. StillOpen' = StillOpen \ S
    BY DEF Matches, Ends
  <1>3. Withdrawn' = Withdrawn \cup S
    BY AbstractState, AbstractStateNext DEF Ends
  <1>4. \A i : Fills(i)' = Fills(i)
    BY AbstractState, AbstractStateNext DEF Ends
  <1>5. [i \in AllIds |-> Fills(i)]' = [i \in AllIds |-> Fills(i)]
    BY <1>4
  <1>6. Lifecycle!Withdraw(S)
    BY <1>1, <1>2, <1>3, <1>5 DEF Lifecycle!Withdraw
  <1> QED BY <1>1, <1>6 DEF Lifecycle!Next

(* the first fill fills the order;                                          *)
LEMMA FillStep ==
  ASSUME Matches, Matches', NEW id \in AllIds, Ends({id}), fate[id] = Waits,
         fate'[id] = WasFilled
  PROVE  Lifecycle!Next
  <1>1. id \in StillOpen /\ StillOpen' = StillOpen \ {id}
    BY HistoriesDiffer DEF Matches, Ends
  <1>2. Withdrawn' = Withdrawn
    BY AbstractState, AbstractStateNext, EndsInHistories DEF Ends
  <1>3. Fills(id) = 0 /\ Fills(id)' = 1 /\ \A i : i # id => Fills(i)' = Fills(i)
    BY AbstractState, AbstractStateNext, FillsInHistories DEF Ends
  <1>4. [i \in AllIds |-> Fills(i)]' = [[i \in AllIds |-> Fills(i)] EXCEPT ![id] = @ + 1]
    <2>1. \A i \in AllIds : Fills(i)' = IF i = id THEN [j \in AllIds |-> Fills(j)][id] + 1 ELSE Fills(i)
      BY <1>3
    <2> QED BY <2>1
  <1>5. Lifecycle!FillOrder(id)
    BY <1>1, <1>2, <1>4 DEF Lifecycle!FillOrder
  <1> QED BY <1>5 DEF Lifecycle!Next

(* and an order that enters the queue is acknowledged.                      *)
LEMMA AcknowledgeStep ==
  ASSUME Matches, Matches', NEW id \in AllIds, id \notin DOMAIN fate,
         DOMAIN fate' = DOMAIN fate \cup {id},
         \A i \in DOMAIN fate : fate'[i] = fate[i], fate'[id] = Waits
  PROVE  Lifecycle!Next
  <1>1. id \notin StillOpen /\ StillOpen' = StillOpen \cup {id}
    BY DEF Matches
  <1>2. Withdrawn' = Withdrawn /\ id \notin Withdrawn
    BY AbstractState, AbstractStateNext, EndsInHistories
  <1>3. Fills(id) = 0 /\ \A i : Fills(i)' = Fills(i)
    BY AbstractState, AbstractStateNext, FillsInHistories
  <1>4. [i \in AllIds |-> Fills(i)]' = [i \in AllIds |-> Fills(i)]
    BY <1>3
  <1>5. id \notin Lifecycle!Settled
    BY <1>2, <1>3 DEF Lifecycle!Settled
  <1>6. Lifecycle!Acknowledge(id)
    BY <1>1, <1>2, <1>4, <1>5 DEF Lifecycle!Acknowledge
  <1> QED BY <1>6 DEF Lifecycle!Next

-----------------------------------------------------------------------------
(* What the manager does to the histories, case by case. *)
AbstractStep == Lifecycle!Next \/ UNCHANGED Lifecycle!lifecycleVars

(* A cancellation withdraws those of its orders that wait;                  *)
LEMMA CancelMaps ==
  ASSUME HandledInv, Matches, Matches', NEW ids \in SUBSET DOMAIN pending, Record(ids,
         "cancelled")
  PROVE  AbstractStep
  <1>1. Ends(ids) /\ \A i \in ids : fate'[i] = Append(fate[i], "cancelled")
    <2>1. ids \subseteq DOMAIN fate
      BY DEF HandledInv, PendingOk
    <2>2. /\ DOMAIN fate' = DOMAIN fate \cup ids
          /\ \A i \in DOMAIN fate \ ids : fate'[i] = fate[i]
          /\ \A i \in ids \cap DOMAIN fate : fate'[i] = Append(fate[i], "cancelled")
      BY Recorded
    <2> QED BY <2>1, <2>2 DEF Ends
  <1>2. \A i \in ids : \/ fate[i] = Waits /\ fate'[i] = WasCancelled
                       \/ fate[i] = WasFilled /\ fate'[i] = CancelledFilled
                       \/ fate[i] = WasRejected /\ fate'[i] = CancelledRejected
    BY <1>1, HistoryGrows DEF HandledInv, PendingOk
  <1>3. \A i \in ids : /\ fate'[i] # Waits
                       /\ EndedBy(fate'[i]) <=> (EndedBy(fate[i]) \/ fate[i] = Waits)
                       /\ FillsIn(fate'[i]) = FillsIn(fate[i])
    BY <1>2, HistoriesDiffer, EndsInHistories, FillsInHistories
  <1>4. CASE \E i \in ids : fate[i] = Waits
    BY <1>1, <1>3, <1>4, WithdrawStep DEF AbstractStep
  <1>5. CASE \A i \in ids : fate[i] # Waits
    BY <1>1, <1>3, <1>5, StutterStep DEF AbstractStep
  <1> QED BY <1>4, <1>5

(* so does a rejection, unless the freeze came before it;                   *)
LEMMA RejectMaps ==
  ASSUME Matches, Matches', NEW id \in DOMAIN fate, fate[id] \in {Waits, WasCancelled},
         Record({id}, "rejected")
  PROVE  AbstractStep
  <1>1. Ends({id}) /\ fate'[id] = Append(fate[id], "rejected")
    <2>1. /\ DOMAIN fate' = DOMAIN fate \cup {id}
          /\ \A i \in DOMAIN fate \ {id} : fate'[i] = fate[i]
          /\ \A i \in {id} \cap DOMAIN fate : fate'[i] = Append(fate[i], "rejected")
      BY Recorded
    <2> QED BY <2>1 DEF Ends
  <1>2. CASE fate[id] = Waits
    <2>1. fate'[id] = WasRejected
      BY <1>1, <1>2, HistoryGrows
    <2>2. \A i \in {id} : /\ fate'[i] # Waits
                          /\ EndedBy(fate'[i]) <=> (EndedBy(fate[i]) \/ fate[i] = Waits)
                          /\ FillsIn(fate'[i]) = FillsIn(fate[i])
      BY <1>2, <2>1, HistoriesDiffer, EndsInHistories, FillsInHistories
    <2> QED BY <1>1, <1>2, <2>2, WithdrawStep DEF AbstractStep
  <1>3. CASE fate[id] = WasCancelled
    <2>1. fate'[id] = RejectedInFlight
      BY <1>1, <1>3, HistoryGrows
    <2>2. \A i \in {id} : /\ fate[i] # Waits /\ fate'[i] # Waits
                          /\ EndedBy(fate'[i]) <=> EndedBy(fate[i])
                          /\ FillsIn(fate'[i]) = FillsIn(fate[i])
      BY <1>3, <2>1, HistoriesDiffer, EndsInHistories, FillsInHistories
    <2> QED BY <1>1, <2>2, StutterStep DEF AbstractStep
  <1> QED BY <1>2, <1>3

(* and where no history grows, nothing happens.                             *)
LEMMA SameMaps ==
  ASSUME Matches, Matches', UNCHANGED fate
  PROVE  AbstractStep
  <1>1. Ends({})
    BY DEF Ends
  <1> QED BY <1>1, StutterStep DEF AbstractStep

(* Every step inside an operation is a step of OrderLifecycle or none ...   *)
LEMMA ManagerStepMaps ==
  ASSUME OneTicker, TypeInv, IdsFresh, HandledInv, LifeInv, Matches, Matches',
         NEW t \in Threads, Step(t)
  PROVE  AbstractStep
  <1>1. ASSUME Processed(t, "rejected"), call[t].op = "tick",
               pc[t] \in {"gate", "limits", "loss_failed", "place"}
        PROVE  AbstractStep
    <2>1. Ticking(t) /\ pc[t] \in HandLabels
      BY <1>1, HandTicks DEF HandLabels
    <2>2. call[t].id \in DOMAIN fate /\ fate[call[t].id] \in {Waits, WasCancelled}
      BY <2>1 DEF HandledInv, TickOk
    <2> QED BY <1>1, <2>2, RejectMaps DEF Processed
  <1>2. ASSUME RejectCall(t), pc[t] \in {"gate", "limits", "loss_failed"}
        PROVE  AbstractStep
    BY <1>1, <1>2, SameMaps DEF RejectCall
  <1>3. CASE Gate(t) \/ Limits(t) \/ LossFailed(t)
    BY <1>2, <1>3, SameMaps DEF Gate, Limits, LossFailed, Advance
  <1>4. CASE LossRead(t) \/ LossBalance(t)
    BY <1>4, SameMaps DEF LossRead, LossBalance, LossCheckPassed, LossCheckFailed,
       Advance
  <1>5. CASE Freeze(t)
    BY <1>5, CancelMaps DEF Freeze, Drained
  <1>6. CASE PlaceFills(t)
    <2>1. CASE call[t].op = "tick"
      <3>1. PICK id : id = call[t].id
        OBVIOUS
      <3>2. Ticking(t) /\ pc[t] \in HandLabels \ {"loss_failed"} /\ Record({id}, "filled")
        BY <1>6, <2>1, <3>1, HandTicks DEF PlaceFills, HandLabels
      <3>3. id \in DOMAIN fate /\ fate[id] = Waits
        BY <3>1, <3>2 DEF HandledInv, TickOk, LifeInv, Lives
      <3>4. /\ DOMAIN fate' = DOMAIN fate \cup {id}
            /\ \A i \in DOMAIN fate \ {id} : fate'[i] = fate[i]
            /\ \A i \in {id} \cap DOMAIN fate : fate'[i] = Append(fate[i], "filled")
        BY <3>2, Recorded
      <3>5. Ends({id}) /\ fate'[id] = WasFilled /\ id \in AllIds
        BY <3>3, <3>4, HistoryGrows, KnownIds DEF Ends
      <3> QED BY <3>3, <3>5, FillStep DEF AbstractStep
    <2>2. CASE call[t].op # "tick"
      BY <1>6, <2>2, SameMaps DEF PlaceFills
    <2> QED BY <2>1, <2>2
  <1>7. CASE PlaceRejected(t)
    BY <1>1, <1>7, SameMaps DEF PlaceRejected
  <1>8. CASE LimitQueue(t)
    <2>1. PICK id : id = call[t].id
      OBVIOUS
    <2>2. /\ id \in Nat \ {0} /\ id \notin DOMAIN fate /\ id < nextOrderId
          /\ Record({id}, "queued") /\ FateOf(id) = <<>>
      BY <1>8, <2>1 DEF LimitQueue, TypeInv, CallsTyped, CallTyped, HandledInv,
         Holders, IdsFresh, FateOf
    <2>3. /\ DOMAIN fate' = DOMAIN fate \cup {id}
          /\ \A i \in DOMAIN fate \ {id} : fate'[i] = fate[i]
          /\ \A i \in {id} : fate'[i] = Append(FateOf(i), "queued")
      BY <2>2, Recorded
    <2>4. fate'[id] = Waits
      BY <2>2, <2>3, HistoryGrows
    <2>5. id \in AllIds
      BY <2>2, ManagerAssumption DEF AllIds, LifeInv, TypeInv, TypeOK, ManagerTyped
    <2> QED BY <2>2, <2>3, <2>4, <2>5, AcknowledgeStep DEF AbstractStep
  <1>9. CASE Apply(t) \/ LimitCheck(t) \/ LimitId(t)
             \/ (\E i \in batch[t].todo : TickNext(t, i)) \/ TickEnd(t)
    BY <1>9, SameMaps DEF Apply, LimitCheck, LimitId, TickNext, TickEnd
  <1>10. CASE DayReset(t) \/ DayPositions(t) \/ DayCash(t) \/ DayExpect(t)
              \/ ReconcileDefault(t) \/ ReconcileRead(t) \/ ReconcileCompare(t)
    BY <1>10, SameMaps DEF DayReset, DayPositions, DayCash, DayExpect,
       ReconcileDefault, ReconcileRead, ReconcileCompare
  <1>11. ~PlaceRaises(t) /\ ~SyncImport(t) /\ ~SyncCommit(t)
    BY DEF OneTicker, PlaceRaises, SyncImport, SyncCommit, HandledInv, TickOk
  <1> QED BY <1>3, <1>4, <1>5, <1>6, <1>7, <1>8, <1>9, <1>10, <1>11 DEF Step

(* ... and so is the start of every operation.                              *)
LEMMA ManagerCallMaps ==
  ASSUME HandledInv, Matches, Matches', NEW t \in Threads, NewCall(t)
  PROVE  AbstractStep
  <1>1. ASSUME NEW ids, Cancel(t, ids) PROVE AbstractStep
    BY <1>1, CancelMaps DEF Cancel
  <1>2. ASSUME UNCHANGED fate PROVE AbstractStep
    BY <1>2, SameMaps
  <1> QED BY <1>1, <1>2 DEF NewCall, CancelLimitOrder, CancelAllForSymbol, CancelAll,
      StartOrder, StartLimit, StartTick, StartDay, StartSync, StartReconcile

(* The initial states map to the initial state.                             *)
LEMMA LifecycleStarts ==
  ASSUME Init
  PROVE  Lifecycle!Init
  <1>1. pending = EmptyQueue /\ fate = EmptyQueue
    BY DEF Init, NewManager
  <1>2. StillOpen = {}
    BY <1>1 DEF StillOpen, EmptyQueue
  <1>3. Withdrawn = {} /\ \A i : Fills(i) = 0
    BY <1>1, AbstractState, FillsInHistories DEF EmptyQueue
  <1> QED BY <1>2, <1>3 DEF Lifecycle!Init

(* LifecycleSpec: for one caller and one process, the queue of the manager  *)
(* implements OrderLifecycle.                                               *)
THEOREM LifecycleHolds ==
  ASSUME SerialUse, OneTicker, MaxRestarts = 0
  PROVE  Spec => LifecycleSpec
  <1> DEFINE Inv == TypeInv /\ TradersTrade /\ IdsFresh /\ HandledInv /\ LifeInv
  <1>1. Init => LifeInv
    BY ManagerAssumption DEF Init, NewManager, IdleThreads, LifeInv, Lives, HandLabels,
       NoCall, FirstId
  <1>2. TypeInv /\ HandledInv /\ LifeInv /\ [Next]_vars => LifeInv'
    <2> SUFFICES ASSUME TypeInv, HandledInv, LifeInv, [Next]_vars PROVE LifeInv'
      OBVIOUS
    <2>1. CASE UNCHANGED vars
      BY <2>1 DEF vars, managerVars, queueVars, threadVars, auxVars, LifeInv, Lives,
         Ticking
    <2>2. ~Restart
      BY ManagerAssumption DEF Restart, TypeInv, TypeOK
    <2>3. ASSUME NEW s \in Symbols, NEW d \in Sides, NEW q \in Qtys, NEW p \in Prices,
                 TradeOutOfBand(s, d, q, p)
          PROVE  LifeInv'
      BY <2>3 DEF TradeOutOfBand, SerialUse
    <2> QED BY <2>1, <2>2, <2>3, LifeStep DEF Next
  <1>3. Inv => Matches
    BY LifeMatches
  <1>4. Inv /\ Matches /\ Matches' /\ [Next]_vars => [Lifecycle!Next]_(Lifecycle!lifecycleVars)
    <2> SUFFICES ASSUME Inv, Matches, Matches', [Next]_vars PROVE AbstractStep
      BY DEF AbstractStep
    <2>1. CASE UNCHANGED vars
      BY <2>1, SameMaps DEF vars
    <2>2. ~Restart
      BY ManagerAssumption DEF Restart, TypeInv, TypeOK
    <2>3. ASSUME NEW s \in Symbols, NEW d \in Sides, NEW q \in Qtys, NEW p \in Prices,
                 TradeOutOfBand(s, d, q, p)
          PROVE  AbstractStep
      BY <2>3 DEF TradeOutOfBand, SerialUse
    <2> QED BY <2>1, <2>2, <2>3, ManagerStepMaps, ManagerCallMaps DEF Next
  <1> HIDE DEF Inv
  <1>5. Init => Lifecycle!Init
    BY LifecycleStarts
  <1>6. Spec => []LifeInv
    BY <1>1, <1>2, TypeInvHolds, HandledInvHolds, PTL DEF Spec
  <1>7. Spec => []Inv
    BY <1>6, TypeInvHolds, TradersAlwaysTrade, IdsAlwaysFresh, HandledInvHolds, PTL
       DEF Inv
  <1> QED BY <1>3, <1>4, <1>5, <1>7, PTL DEF Spec, LifecycleSpec, Lifecycle!Spec

-----------------------------------------------------------------------------
(* What ExpectedTracksBroker takes for granted: finitely many threads, none *)
(* of which starts the day while others trade, a broker that does not fill  *)
(* and then raise, an account only the manager trades, no restart.          *)
BooksAlone ==
  /\ IsFiniteSet(Threads) /\ \A t \in Threads : "day" \notin Role[t]
  /\ "lost_ack" \notin BrokerFaults /\ MaxRestarts = 0 /\ ~OutOfBand

DayLabels == {"day_reset", "day_positions", "day_cash", "day_expect"}

(* The inductive invariant behind ExpectedTracksBroker. *)
TrackInv == ExpectedTracksBroker /\ \A t \in Threads : pc[t] \notin DayLabels

(* The property with the sums of Sums. *)
LEMMA TracksAre ==
  ExpectedTracksBroker <=>
    /\ \A s \in Symbols : Expected(s) = positions[s] - Total(Shares, InFlightOf(s))
    /\ expectedCash # None => expectedCash = cash - Total(Money, InFlight)
  BY DEF ExpectedTracksBroker, Total

(* ... and of the next state. *)
LEMMA TracksNext ==
  ExpectedTracksBroker' <=>
    /\ \A s \in Symbols : Expected(s)' = positions'[s] - Total(Shares', InFlightOf(s)')
    /\ expectedCash' # None => expectedCash' = cash' - Total(Money', InFlight')
  <1>1. ExpectedTracksBroker' <=>
          (/\ \A s \in Symbols : Expected(s) = positions[s] - Total(Shares, InFlightOf(s))
           /\ expectedCash # None => expectedCash = cash - Total(Money, InFlight))'
    BY TracksAre, PTL
  <1> QED BY <1>1

(* The figures of a call are integers, whatever it holds. *)
LEMMA FiguresTyped ==
  ASSUME TypeInv, NEW t \in Threads
  PROVE  Shares[t] \in Int /\ Money[t] \in Int
  <1>1. call[t].qty \in Nat /\ call[t].price \in Nat
    <2>1. call[t] \in CallType
      BY DEF TypeInv, TypeOK, ThreadsTyped
    <2>2. call[t].qty \in Qtys \cup {0} /\ call[t].price \in Prices \cup {0}
      BY <2>1 DEF CallType, NoPrice
    <2>3. Qtys \subseteq Nat /\ Prices \subseteq Nat
      BY ManagerAssumption
    <2>4. \A x \in Qtys \cup {0} : x \in Nat
      BY <2>3
    <2>5. \A x \in Prices \cup {0} : x \in Nat
      BY <2>3
    <2> QED BY <2>2, <2>4, <2>5
  <1>2. BuyCost(call[t].qty, call[t].price) \in Int /\ SellNet(call[t].qty, call[t].price) \in Int
    BY <1>1 DEF BuyCost, SellNet, Unit, BuyFeeBps, SellFeeBps
  <1> QED BY <1>1, <1>2 DEF Shares, Money, Signed, Gain

(* The threads are finitely many. *)
LEMMA FlightsFinite ==
  ASSUME BooksAlone
  PROVE  /\ IsFiniteSet(InFlight) /\ InFlight \subseteq Threads
         /\ \A s : IsFiniteSet(InFlightOf(s)) /\ InFlightOf(s) \subseteq InFlight
  <1>1. InFlight \subseteq Threads /\ \A s : InFlightOf(s) \subseteq InFlight
    BY DEF InFlight, InFlightOf
  <1> QED BY <1>1, FS_Subset DEF BooksAlone

(* Of any threads, the figures are integers. *)
LEMMA FiguresWhole ==
  ASSUME TypeInv, NEW T, T \subseteq Threads
  PROVE  Whole(Shares, T) /\ Whole(Money, T)
  BY FiguresTyped DEF Whole

(* What a step of one thread leaves of the others. *)
OthersStay(t) == \A u \in Threads \ {t} : pc'[u] = pc[u] /\ call'[u] = call[u]

(* A step that leaves the account and the expected state alone, of a thread with no trade under way before or after. *)
LEMMA TrackSame ==
  ASSUME BooksAlone, TypeInv, TrackInv, NEW t \in Threads, OthersStay(t),
         UNCHANGED <<brokerVars, expectVars>>, pc[t] # "apply", pc'[t] \notin DayLabels \cup {"apply"}
  PROVE  TrackInv'
  <1>1. InFlight' = InFlight /\ t \notin InFlight
    BY DEF InFlight, OthersStay
  <1>2. \A u \in InFlight : Shares'[u] = Shares[u] /\ Money'[u] = Money[u] /\ call'[u] = call[u]
    BY <1>1 DEF Shares, Money, Signed, Gain, OthersStay, InFlight, BuyCost, SellNet
  <1>3. \A s : InFlightOf(s)' = InFlightOf(s)
    BY <1>1, <1>2 DEF InFlightOf
  <1>4. Total(Money', InFlight') = Total(Money, InFlight)
    BY <1>1, <1>2, FlightsFinite, TotalSame
  <1>5. ASSUME NEW s \in Symbols
        PROVE  Total(Shares', InFlightOf(s)') = Total(Shares, InFlightOf(s))
    <2>1. IsFiniteSet(InFlightOf(s)) /\ \A u \in InFlightOf(s) : Shares'[u] = Shares[u]
      BY <1>2, FlightsFinite
    <2> QED BY <1>3, <2>1, TotalSame
  <1>6. ExpectedTracksBroker'
    <2>1. \A s \in Symbols : Expected(s)' = positions'[s] - Total(Shares', InFlightOf(s)')
      BY <1>5, TracksAre DEF TrackInv, Expected, expectVars, brokerVars
    <2>2. expectedCash' # None => expectedCash' = cash' - Total(Money', InFlight')
      BY <1>4, TracksAre DEF TrackInv, expectVars, brokerVars
    <2> QED BY <2>1, <2>2, TracksNext
  <1> QED BY <1>6 DEF TrackInv, OthersStay

(* The other threads are left alone, by steps inside an operation and at its start. *)
LEMMA StepStays ==
  ASSUME TypeInv, NEW t \in Threads, Step(t) \/ NewCall(t)
  PROVE  OthersStay(t)
  <1>1. ThreadTyped
    BY DEF TypeInv, TypeOK, ThreadTyped
  <1> QED BY <1>1, StepOthers, StartOthers DEF OthersStay

(* The broker fills: the account moves by the trade that is now under way. *)
LEMMA TrackFills ==
  ASSUME BooksAlone, TypeInv, TrackInv, NEW t \in Threads, PlaceFills(t)
  PROVE  TrackInv'
  <1>1. /\ pc[t] = "place" /\ pc' = [pc EXCEPT ![t] = "apply"] /\ call' = call
        /\ Fill(call[t].symbol, call[t].side, call[t].qty, call[t].price)
        /\ UNCHANGED expectVars
    BY DEF PlaceFills, Goto, managerVars
  <1>2. call[t].symbol \in Symbols /\ call[t].side \in Sides /\ call[t].qty \in Nat /\ call[t].price \in Nat
    BY <1>1, ApplyCall
  <1>3. /\ cash' = cash + Money[t]
        /\ \A s \in Symbols : positions'[s] = positions[s] + (IF call[t].symbol = s THEN Shares[t] ELSE 0)
    BY <1>1, <1>2, FillMoves DEF TypeInv, TypeOK, Money, Shares
  <1>4. DOMAIN pc = Threads
    BY DEF TypeInv, TypeOK, ThreadsTyped
  <1>5. InFlight' = InFlight \cup {t} /\ t \notin InFlight
    BY <1>1, <1>4 DEF InFlight
  <1>6. \A s : InFlightOf(s)' = IF call[t].symbol = s THEN InFlightOf(s) \cup {t} ELSE InFlightOf(s)
    BY <1>1, <1>5 DEF InFlightOf
  <1>7. Shares' = Shares /\ Money' = Money
    BY <1>1 DEF Shares, Money, Signed, Gain, BuyCost, SellNet
  <1>8. Shares[t] \in Int /\ Money[t] \in Int
    BY FiguresTyped
  <1>9. Total(Money', InFlight') = Total(Money, InFlight) + Money[t] /\ Total(Money, InFlight) \in Int
    <2>1. IsFiniteSet(InFlight) /\ Whole(Money, InFlight) /\ Whole(Money, InFlight \cup {t})
      BY FlightsFinite, FiguresWhole
    <2>2. Total(Money, InFlight) \in Int
      BY <2>1, TotalInt
    <2>3. Total(Money, InFlight \cup {t}) = Total(Money, InFlight) + Money[t]
      BY <1>5, <2>1, TotalAdds
    <2> QED BY <1>5, <1>7, <2>2, <2>3
  <1>10. ASSUME NEW s \in Symbols
         PROVE  /\ Total(Shares', InFlightOf(s)') = Total(Shares, InFlightOf(s)) + (IF call[t].symbol = s THEN Shares[t] ELSE 0)
                /\ Total(Shares, InFlightOf(s)) \in Int
    <2>1. IsFiniteSet(InFlightOf(s)) /\ t \notin InFlightOf(s)
          /\ Whole(Shares, InFlightOf(s)) /\ Whole(Shares, InFlightOf(s) \cup {t})
      BY <1>5, FlightsFinite, FiguresWhole
    <2>2. Total(Shares, InFlightOf(s)) \in Int
      BY <2>1, TotalInt
    <2>3. Total(Shares, InFlightOf(s) \cup {t}) = Total(Shares, InFlightOf(s)) + Shares[t]
      BY <2>1, TotalAdds
    <2> QED BY <1>6, <1>7, <2>2, <2>3
  <1>11. cash \in Int /\ \A s \in Symbols : positions[s] \in Int
    BY DEF TypeInv, TypeOK, BrokerTyped
  <1>12. \A s \in Symbols : Expected(s)' = positions'[s] - Total(Shares', InFlightOf(s)')
    <2> SUFFICES ASSUME NEW s \in Symbols PROVE Expected(s)' = positions'[s] - Total(Shares', InFlightOf(s)')
      OBVIOUS
    <2>1. Expected(s)' = Expected(s) /\ Expected(s) = positions[s] - Total(Shares, InFlightOf(s))
      BY <1>1, TracksAre DEF TrackInv, Expected, expectVars
    <2> QED BY <2>1, <1>3, <1>8, <1>10, <1>11
  <1>13. expectedCash' # None => expectedCash' = cash' - Total(Money', InFlight')
    <2>1. expectedCash' = expectedCash /\ (expectedCash # None => expectedCash = cash - Total(Money, InFlight))
      BY <1>1, TracksAre DEF TrackInv, expectVars
    <2> QED BY <2>1, <1>3, <1>8, <1>9, <1>11
  <1>14. \A u \in Threads : pc'[u] \notin DayLabels
    BY <1>1, <1>4 DEF TrackInv, DayLabels
  <1> QED BY <1>12, <1>13, <1>14, TracksNext DEF TrackInv

(* The trade under way is recorded. *)
LEMMA TrackApplies ==
  ASSUME BooksAlone, TypeInv, TrackInv, NEW t \in Threads, Apply(t)
  PROVE  TrackInv'
  <1>1. /\ pc[t] = "apply" /\ ApplyToExpected(call[t]) /\ UNCHANGED brokerVars
        /\ pc'[t] \in {"loss_read", "tick_next"} /\ OthersStay(t)
    BY StepStays DEF Apply, Goto, TypeInv, TypeOK, ThreadsTyped, Step
  <1>2. /\ call[t].symbol \in Symbols /\ Gain(call[t]) = Money[t] /\ Signed(call[t]) = Shares[t]
        /\ Shares[t] \in Int /\ Money[t] \in Int
    BY <1>1, ApplyCall, FiguresTyped DEF Money, Shares
  <1>3. InFlight' = InFlight \ {t} /\ t \in InFlight
    BY <1>1 DEF InFlight, OthersStay
  <1>4. \A u \in InFlight' : Shares'[u] = Shares[u] /\ Money'[u] = Money[u] /\ call'[u] = call[u]
    BY <1>1, <1>3 DEF Shares, Money, Signed, Gain, OthersStay, InFlight, BuyCost, SellNet
  <1>5. \A s : InFlightOf(s)' = InFlightOf(s) \ {t} /\ (t \in InFlightOf(s) <=> call[t].symbol = s)
    BY <1>3, <1>4 DEF InFlightOf
  <1>6. Shares[t] \in Int /\ Money[t] \in Int
    BY FiguresTyped
  <1>7. Total(Money', InFlight') = Total(Money, InFlight) - Money[t] /\ Total(Money, InFlight) \in Int
    <2>1. IsFiniteSet(InFlight) /\ IsFiniteSet(InFlight \ {t}) /\ Whole(Money, InFlight)
      BY FlightsFinite, FiguresWhole, FS_Subset
    <2>2. Total(Money, InFlight \ {t}) = Total(Money, InFlight) - Money[t]
      <3>1. t \in InFlight
        BY <1>3
      <3> QED BY <2>1, <3>1, TotalDrops
    <2>3. Total(Money', InFlight \ {t}) = Total(Money, InFlight \ {t})
      BY <1>3, <1>4, <2>1, TotalSame
    <2> QED BY <1>3, <2>1, <2>2, <2>3, TotalInt
  <1>8. ASSUME NEW s \in Symbols
        PROVE  /\ Total(Shares', InFlightOf(s)') = Total(Shares, InFlightOf(s)) - (IF call[t].symbol = s THEN Shares[t] ELSE 0)
               /\ Total(Shares, InFlightOf(s)) \in Int
    <2>1. IsFiniteSet(InFlightOf(s)) /\ IsFiniteSet(InFlightOf(s) \ {t}) /\ Whole(Shares, InFlightOf(s))
      BY FlightsFinite, FiguresWhole, FS_Subset
    <2>2. Total(Shares, InFlightOf(s)) \in Int
      BY <2>1, TotalInt
    <2>3. Total(Shares', InFlightOf(s)') = Total(Shares, InFlightOf(s) \ {t})
      <3>1. \A u \in InFlightOf(s) \ {t} : Shares'[u] = Shares[u]
        BY <1>3, <1>4, FlightsFinite
      <3> QED BY <1>5, <2>1, <3>1, TotalSame
    <2>4. CASE call[t].symbol = s
      <3>1. Total(Shares, InFlightOf(s) \ {t}) = Total(Shares, InFlightOf(s)) - Shares[t]
        <4>1. t \in InFlightOf(s)
          BY <1>5, <2>4
        <4> QED BY <2>1, <4>1, TotalDrops
      <3> QED BY <2>2, <2>3, <2>4, <3>1
    <2>5. CASE call[t].symbol # s
      <3>1. InFlightOf(s) \ {t} = InFlightOf(s)
        BY <1>5, <2>5
      <3>2. Total(Shares', InFlightOf(s)') = Total(Shares, InFlightOf(s))
        BY <2>3, <3>1
      <3> QED BY <2>2, <2>5, <3>2
    <2> QED BY <2>4, <2>5
  <1>9. /\ cash \in Int /\ \A s \in Symbols : positions[s] \in Int
        /\ expectedCash \in Int \cup {None}
    BY DEF TypeInv, TypeOK, BrokerTyped, ManagerTyped
  <1>10. \A s \in Symbols : Expected(s)' = positions'[s] - Total(Shares', InFlightOf(s)')
    <2> SUFFICES ASSUME NEW s \in Symbols PROVE Expected(s)' = positions'[s] - Total(Shares', InFlightOf(s)')
      OBVIOUS
    <2>1. Expected(s)' = IF s = call[t].symbol THEN Expected(s) + Shares[t] ELSE Expected(s)
      BY <1>1, <1>2 DEF ApplyToExpected, Expected, Put
    <2>2. Expected(s) = positions[s] - Total(Shares, InFlightOf(s)) /\ positions'[s] = positions[s]
      BY <1>1, TracksAre DEF TrackInv, brokerVars
    <2> QED BY <2>1, <2>2, <1>2, <1>8, <1>9
  <1>11. expectedCash' # None => expectedCash' = cash' - Total(Money', InFlight')
    <2>1. expectedCash' = IF expectedCash = None THEN None ELSE expectedCash + Money[t]
      BY <1>1, <1>2 DEF ApplyToExpected
    <2>2. (expectedCash # None => expectedCash = cash - Total(Money, InFlight)) /\ cash' = cash
      BY <1>1, TracksAre DEF TrackInv, brokerVars
    <2> QED BY <2>1, <2>2, <1>2, <1>7, <1>9
  <1>12. \A u \in Threads : pc'[u] \notin DayLabels
    BY <1>1 DEF TrackInv, DayLabels, OthersStay
  <1> QED BY <1>10, <1>11, <1>12, TracksNext DEF TrackInv

(* The other steps inside an operation ... *)
LEMMA TrackStep ==
  ASSUME BooksAlone, TypeInv, TrackInv, NEW t \in Threads, Step(t)
  PROVE  TrackInv'
  <1>1. ThreadTyped /\ OthersStay(t)
    BY StepStays DEF TypeInv, TypeOK, ThreadTyped
  <1>2. CASE PlaceFills(t) \/ Apply(t)
    BY <1>2, TrackFills, TrackApplies
  <1>3. CASE Gate(t) \/ Limits(t) \/ LossFailed(t) \/ LossRead(t) \/ LossBalance(t)
    BY <1>1, <1>3, TrackSame DEF Gate, Limits, LossFailed, LossRead, LossBalance,
       LossCheckPassed, LossCheckFailed, Advance, RejectCall, Processed, Return, Goto,
       ThreadTyped, ThreadsTyped, managerVars, DayLabels
  <1>4. CASE Freeze(t) \/ PlaceRejected(t) \/ TickEnd(t)
    BY <1>1, <1>4, TrackSame DEF Freeze, AfterFreeze, PlaceRejected, TickEnd,
       Processed, Return, Goto, ThreadTyped, ThreadsTyped, managerVars, DayLabels
  <1>5. CASE LimitCheck(t) \/ LimitId(t) \/ LimitQueue(t)
    BY <1>1, <1>5, TrackSame DEF LimitCheck, LimitId, LimitQueue, Return,
       Goto, ThreadTyped, ThreadsTyped, managerVars, DayLabels
  <1>6. ASSUME NEW i \in batch[t].todo, TickNext(t, i) PROVE TrackInv'
    <2>1. pc'[t] \in {"tick_next", "gate"} /\ pc[t] = "tick_next"
      BY <1>1, <1>6 DEF TickNext, Goto, ThreadTyped, ThreadsTyped
    <2> QED BY <1>1, <1>6, <2>1, TrackSame DEF TickNext, managerVars, DayLabels
  <1>7. CASE PlaceRaises(t)
    BY <1>1, <1>7, TrackSame DEF PlaceRaises, BooksAlone, Return, Goto,
       ThreadTyped, ThreadsTyped, managerVars, DayLabels
  <1>8. ~(DayReset(t) \/ DayPositions(t) \/ DayCash(t) \/ DayExpect(t))
    BY DEF DayReset, DayPositions, DayCash, DayExpect, TrackInv, DayLabels
  <1>9. CASE SyncImport(t) \/ SyncCommit(t)
    BY <1>1, <1>9, TrackSame DEF SyncImport, SyncCommit, Return, Goto,
       ThreadTyped, ThreadsTyped, managerVars, DayLabels
  <1>10. CASE ReconcileDefault(t) \/ ReconcileRead(t) \/ ReconcileCompare(t)
    BY <1>1, <1>10, TrackSame DEF ReconcileDefault, ReconcileRead, ReconcileCompare, Return, Goto,
       ThreadTyped, ThreadsTyped, managerVars, DayLabels
  <1> QED BY <1>2, <1>3, <1>4, <1>5, <1>6, <1>7, <1>8, <1>9, <1>10 DEF Step

(* ... and at its start. *)
LEMMA TrackStart ==
  ASSUME BooksAlone, TypeInv, TrackInv, NEW t \in Threads, NewCall(t)
  PROVE  TrackInv'
  <1>1. ThreadTyped /\ OthersStay(t)
    BY StepStays DEF TypeInv, TypeOK, ThreadTyped
  <1>2. ASSUME NEW o \in Order, StartOrder(t, o) \/ StartLimit(t, o) PROVE TrackInv'
    BY <1>1, <1>2, TrackSame DEF StartOrder, StartLimit, Start, Goto, ThreadTyped,
       ThreadsTyped, managerVars, DayLabels
  <1>3. ASSUME NEW ids, Cancel(t, ids) PROVE TrackInv'
    BY <1>1, <1>3, TrackSame DEF Cancel, Start, threadVars, DayLabels
  <1>4. ASSUME NEW s \in Symbols, NEW p \in Prices, StartTick(t, s, p) PROVE TrackInv'
    BY <1>1, <1>4, TrackSame DEF StartTick, Start, Goto, ThreadTyped, ThreadsTyped, managerVars, DayLabels
  <1>5. \A s \in Symbols, p \in Prices : ~StartDay(t, s, p)
    BY DEF StartDay, Start, BooksAlone
  <1>6. CASE StartReconcile(t) \/ StartSync(t)
    <2>1. pc[t] = "idle" /\ pc'[t] \in {"idle", "recon_default", "recon_read", "sync_import"}
      BY <1>1, <1>6 DEF StartReconcile, StartSync, Start, Goto, ThreadTyped, ThreadsTyped, threadVars
    <2>2. UNCHANGED <<brokerVars, expectVars>>
      BY <1>6 DEF StartReconcile, StartSync, managerVars
    <2> QED BY <1>1, <2>1, <2>2, TrackSame DEF DayLabels
  <1> QED BY <1>2, <1>3, <1>4, <1>5, <1>6 DEF NewCall, CancelLimitOrder, CancelAllForSymbol, CancelAll

(* ExpectedTracksBroker: however many threads trade at once, the expected state differs from the account by exactly
   the trades between the broker and _apply_trade_to_expected. *)
THEOREM ExpectedAlwaysTracks ==
  ASSUME BooksAlone
  PROVE  Spec => []ExpectedTracksBroker
  <1>1. Init => TrackInv
    <2> SUFFICES ASSUME Init PROVE TrackInv
      OBVIOUS
    <2>1. /\ cash \in Int /\ expectedPositions = EmptyQueue /\ expectedCash \in {None, cash}
          /\ \A s \in Symbols : positions[s] = 0
          /\ \A t \in Threads : pc[t] = "idle"
      BY ManagerAssumption DEF Init, NewManager, IdleThreads, BrokerInit, Unit
    <2>2. InFlight = {} /\ \A s : InFlightOf(s) = {}
      BY <2>1 DEF InFlight, InFlightOf
    <2>3. Total(Money, InFlight) = 0 /\ \A s : Total(Shares, InFlightOf(s)) = 0
      BY <2>2, TotalEmpty
    <2> QED BY <2>1, <2>3, TracksAre DEF TrackInv, Expected, EmptyQueue, DayLabels
  <1>2. TypeInv /\ TrackInv /\ [Next]_vars => TrackInv'
    <2> SUFFICES ASSUME TypeInv, TrackInv, [Next]_vars PROVE TrackInv'
      OBVIOUS
    <2>1. CASE UNCHANGED vars
      <3>1. UNCHANGED <<positions, cash, expectedPositions, expectedCash, pc, call>>
        BY <2>1 DEF vars, brokerVars, managerVars, expectVars, threadVars
      <3>2. InFlight' = InFlight /\ (\A s : InFlightOf(s)' = InFlightOf(s)) /\ Shares' = Shares /\ Money' = Money
        BY <3>1 DEF InFlight, InFlightOf, Shares, Money, Signed, Gain, BuyCost, SellNet
      <3> QED BY <3>1, <3>2, TracksAre, TracksNext DEF TrackInv, Expected
    <2>2. ~Restart
      BY DEF Restart, BooksAlone, TypeInv, TypeOK
    <2>3. \A s \in Symbols, d \in Sides, q \in Qtys, p \in Prices : ~TradeOutOfBand(s, d, q, p)
      BY DEF TradeOutOfBand, BooksAlone
    <2> QED BY <2>1, <2>2, <2>3, TrackStep, TrackStart DEF Next
  <1>3. TrackInv => ExpectedTracksBroker
    BY DEF TrackInv
  <1> QED BY <1>1, <1>2, <1>3, TypeInvHolds, PTL DEF Spec
=============================================================================
