------------------------- MODULE MCExecutionManager -------------------------
(***************************************************************************)
(* Instances of ExecutionManager for TLC.                                  *)
(***************************************************************************)
EXTENDS ExecutionManager

CONSTANTS
  loop, feed, worker,     \* threads: the API's event loop, the market-data
                          \* feed, the kill switch's worker
  A, B,                   \* symbols
  bkr                     \* an id the broker made up

(* One thread does everything, as in the trading environment and tests. *)
SerialRole ==
  [t \in Threads |-> {"order", "limit", "tick", "cancel", "day", "reconcile"}]

(* The API places orders, the feed brings ticks, the kill switch cancels. *)
ConcurrentRole ==
  [t \in Threads |-> CASE t = loop   -> {"order", "limit"}
                       [] t = feed   -> {"tick"}
                       [] t = worker -> {"cancel"}]

(* Two API threads queue limit orders while the startup sync runs. *)
StartupRole ==
  [t \in Threads |-> CASE t = loop   -> {"order", "limit"}
                       [] t = feed   -> {"limit"}
                       [] t = worker -> {"sync"}]

(* The reconciliation loop runs beside a thread that trades. *)
ReconcileRole ==
  [t \in Threads |-> CASE t = loop   -> {"order"}
                       [] t = worker -> {"reconcile"}]

BuyAt100 == [symbol |-> A, side |-> "buy", qty |-> 2, price |-> 100,
             prevClose |-> NoPrice]
Raw(id, open) == [id |-> id, open |-> open, order |-> BuyAt100]

(* What the broker may know after a crash: nothing; one order of ours; one *)
(* without an id, one of the broker's own and one that is closed.          *)
OpenOrderLists ==
  {<<>>, <<Raw(2, TRUE)>>, <<Raw(NoId, TRUE), Raw(1, TRUE)>>,
   <<Raw(bkr, TRUE), Raw(1, FALSE), Raw(3, TRUE)>>}
=============================================================================
