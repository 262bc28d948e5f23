---------------------------- MODULE TradeReconciler ----------------------------
(***************************************************************************)
(* src/execution/reconciler.py: a pass reads the orders that are PENDING   *)
(* in the local database, then the orders active at the broker, and for    *)
(* each local order that is not active there its trades; it stores the     *)
(* resulting status and then writes a ledger entry.  Every call is an      *)
(* await: passes overlap, the broker goes on trading between two calls,    *)
(* a call may raise, and the process may die.  The broker and the database *)
(* are known from these calls only.  The amounts of an entry: OrderSlices. *)
(***************************************************************************)
EXTENDS Naturals, FiniteSets

CONSTANTS Orders, OrderQty, PassIds, MaxPasses

ASSUME RecAssumption == Orders # {} /\ OrderQty \in Nat /\ MaxPasses \in Nat

VARIABLES early,    \* orders are recorded as PENDING before the broker knows them
          status,   \* the local database
          live,     \* the orders active at the broker
          filled,   \* and the quantity its trade history shows
          pass, passes, journal,
          overlapped, aborted   \* history: passes overlapped, a pass ended half-way

recVars == <<early, status, live, filled, pass, passes, journal, overlapped, aborted>>

Statuses == {"NONE", "PENDING", "FILLED", "PARTIALLY_FILLED", "REJECTED"}
NoPass == [pc |-> "idle", todo |-> {}, order |-> CHOOSE o \in Orders : TRUE, qty |-> 0]
LedgerEntries == [order : Orders, status : Statuses, qty : 0 .. OrderQty, pass : 1 .. MaxPasses]

RecTypeOK ==
  /\ early \in BOOLEAN /\ status \in [Orders -> Statuses] /\ live \subseteq Orders
  /\ filled \in [Orders -> 0 .. OrderQty] /\ passes \in 0 .. MaxPasses /\ journal \subseteq LedgerEntries
  /\ pass \in [PassIds -> [pc : {"idle", "active", "history", "status", "ledger"}, todo : SUBSET Orders,
                           order : Orders, qty : 0 .. OrderQty]]
  /\ overlapped \in BOOLEAN /\ aborted \in BOOLEAN

RecInit ==
  /\ early \in BOOLEAN /\ status = [o \in Orders |-> "NONE"] /\ live = {}
  /\ filled = [o \in Orders |-> 0] /\ pass = [p \in PassIds |-> NoPass]
  /\ passes = 0 /\ journal = {} /\ overlapped = FALSE /\ aborted = FALSE

-----------------------------------------------------------------------------
\* The rest of the system: an order is recorded and sent, in either order, and the broker fills it
\* in parts or ends it.
Record(o) ==
  /\ status[o] = "NONE" /\ (early \/ o \in live \/ filled[o] > 0)
  /\ status' = [status EXCEPT ![o] = "PENDING"]
  /\ UNCHANGED <<early, live, filled, pass, passes, journal, overlapped, aborted>>

Send(o) ==
  /\ o \notin live /\ filled[o] = 0 /\ status[o] = IF early THEN "PENDING" ELSE "NONE"
  /\ live' = live \cup {o}
  /\ UNCHANGED <<early, status, filled, pass, passes, journal, overlapped, aborted>>

Trade(o) ==
  /\ o \in live
  /\ \/ filled[o] + 1 < OrderQty /\ filled' = [filled EXCEPT ![o] = @ + 1] /\ UNCHANGED live
     \/ filled[o] + 1 = OrderQty /\ filled' = [filled EXCEPT ![o] = OrderQty] /\ live' = live \ {o}
     \/ status[o] = "PENDING" /\ live' = live \ {o} /\ UNCHANGED filled     \* cancelled, rejected
  /\ UNCHANGED <<early, status, pass, passes, journal, overlapped, aborted>>

-----------------------------------------------------------------------------
Busy == {p \in PassIds : pass[p].pc # "idle"}

\* get_orders_by_status("PENDING")
ReadPending(p) ==
  /\ pass[p].pc = "idle" /\ passes < MaxPasses
  /\ passes' = passes + 1
  /\ pass' = [pass EXCEPT ![p] = [NoPass EXCEPT !.pc = "active", !.todo = {o \in Orders : status[o] = "PENDING"}]]
  /\ overlapped' = (overlapped \/ Busy # {})
  /\ UNCHANGED <<early, status, live, filled, journal, aborted>>

SkippedNone == {}                                                          \* mutant
\* get_active_orders; the orders active now are skipped.
Skipped == live

ReadActive(p) ==
  /\ pass[p].pc = "active"
  /\ pass' = [pass EXCEPT ![p].pc = "history", ![p].todo = @ \ Skipped]
  /\ UNCHANGED <<early, status, live, filled, passes, journal, overlapped, aborted>>

\* get_trade_history, for one of the orders still to do.
ReadHistory(p) ==
  /\ pass[p].pc = "history"
  /\ \E o \in pass[p].todo :
       pass' = [pass EXCEPT ![p].pc = "status", ![p].order = o, ![p].qty = filled[o], ![p].todo = @ \ {o}]
  /\ UNCHANGED <<early, status, live, filled, passes, journal, overlapped, aborted>>

ResolvedPending(qty) == IF qty = 0 THEN "REJECTED" ELSE IF qty < OrderQty THEN "PENDING" ELSE "FILLED" \* mutant
Resolved(qty) == IF qty = 0 THEN "REJECTED" ELSE IF qty < OrderQty THEN "PARTIALLY_FILLED" ELSE "FILLED"

\* update_order_status
UpdateStatus(p) ==
  /\ pass[p].pc = "status"
  /\ status' = [status EXCEPT ![pass[p].order] = Resolved(pass[p].qty)]
  /\ pass' = [pass EXCEPT ![p].pc = "ledger"]
  /\ UNCHANGED <<early, live, filled, passes, journal, overlapped, aborted>>

\* _emit_ledger_entry: the journal in memory, then the sink.
WriteLedger(p) ==
  /\ pass[p].pc = "ledger"
  /\ journal' = journal \cup {[order |-> pass[p].order, status |-> Resolved(pass[p].qty),
                               qty |-> pass[p].qty, pass |-> passes]}
  /\ pass' = [pass EXCEPT ![p].pc = "history"]
  /\ UNCHANGED <<early, status, live, filled, passes, overlapped, aborted>>

EndPass(p) ==
  /\ pass[p].pc = "history" /\ pass[p].todo = {}
  /\ pass' = [pass EXCEPT ![p] = NoPass]
  /\ UNCHANGED <<early, status, live, filled, passes, journal, overlapped, aborted>>

\* A call of the broker, the database or the sink raises, or the process dies: the pass is over.
AbortPass(p) ==
  /\ pass[p].pc # "idle"
  /\ pass' = [pass EXCEPT ![p] = NoPass]
  /\ aborted' = TRUE
  /\ UNCHANGED <<early, status, live, filled, passes, journal, overlapped>>

RecNext ==
  \/ \E o \in Orders : Record(o) \/ Send(o) \/ Trade(o)
  \/ \E p \in PassIds : \/ ReadPending(p) \/ ReadActive(p) \/ ReadHistory(p) \/ UpdateStatus(p)
                        \/ WriteLedger(p) \/ EndPass(p) \/ AbortPass(p)

RecSpec == RecInit /\ [][RecNext]_recVars

-----------------------------------------------------------------------------
Final(o) == status[o] \notin {"NONE", "PENDING"}

\* However the broker trades between the calls and passes overlap, an order that is recorded after
\* the broker has it ends up with the status its trades say, and is no longer active.
StatusIsTrue ==
  ~early => \A o \in Orders : Final(o) => o \notin live /\ status[o] = Resolved(filled[o])

\* A ledger entry carries the status and quantity the order is left with.
LedgerIsTrue ==
  ~early => \A e \in journal : status[e.order] = e.status /\ filled[e.order] = e.qty

\* Passes that do not overlap write one entry for an order, and none is missing unless a pass ended
\* half-way.
OneEntry ==
  ~overlapped => \A o \in Orders :
    /\ Cardinality({e \in journal : e.order = o}) <= 1
    /\ Final(o) /\ ~aborted => \/ \E e \in journal : e.order = o
                               \/ \E p \in Busy : pass[p].pc = "ledger" /\ pass[p].order = o

\* All of it: statuses and ledger after reconciliation passes (reconciler.py).
ReconciledRight == RecTypeOK /\ StatusIsTrue /\ LedgerIsTrue /\ OneEntry
=============================================================================
