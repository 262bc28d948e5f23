--------------------------- MODULE AutonomyService ---------------------------
(***************************************************************************)
(* The autonomy slider, src/api/services/autonomy_service.py: whether a    *)
(* trade signal is only reported (level 1), drafted for a human to approve *)
(* (level 2) or executed (level 3), and the kill switch over all three.    *)
(*                                                                         *)
(* Every method holds the lock from its first line to its last, so an      *)
(* action here is a whole method.  The draft "ORD-<time>-n" is the number  *)
(* n.  KillKeepsDrafts, LowerKeepsDrafts, StaleDraftId, NewestDraft,       *)
(* RoomAfter and ApprovedStays are wrong variants of the operators that    *)
(* follow them, for PROJECT.json's mutants.                                *)
(***************************************************************************)
EXTENDS Integers, FiniteSets, FiniteSetsExt

CONSTANTS
  Levels0,       \* initial_level
  Expiry,        \* order_expiry_seconds
  MaxPending,    \* max_pending_orders
  MaxDrafts,     \* bound: signals drafted
  MaxTime,       \* bound: the clock
  MaxAuto        \* bound: automatic executions

VARIABLES
  level,         \* _level
  killSwitch,    \* _kill_switch
  drafts,        \* _pending_orders: ids to status, creation and expiry time
  counter,       \* _order_counter, which is also _total_drafted
  approved, rejected, expired, autoExecuted,   \* the statistics
  now,           \* time.time()
  late           \* history: drafts approve_order found expired

stats == <<approved, rejected, expired, autoExecuted>>
vars  == <<level, killSwitch, drafts, counter, stats, now, late>>

SignalOnly   == 1
HumanConfirm == 2
FullAuto     == 3
Levels == {SignalOnly, HumanConfirm, FullAuto}

ASSUME AutonomyAssumption ==
  /\ Levels0 \subseteq Levels
  /\ Expiry \in Nat
  /\ MaxPending \in Nat \ {0}

NoDrafts == [i \in {} |-> 0]
Without(ids) == [i \in DOMAIN drafts \ ids |-> drafts[i]]
Count(ids) == Cardinality(ids)

Init ==
  /\ level \in Levels0
  /\ killSwitch = FALSE
  /\ drafts = NoDrafts
  /\ counter = 0
  /\ approved = 0 /\ rejected = 0 /\ expired = 0 /\ autoExecuted = 0
  /\ now = 0
  /\ late = 0

(* Expire the drafts in ids: they leave the dictionary and are counted. *)
Expire(ids) ==
  /\ drafts' = Without(ids)
  /\ expired' = expired + Count(ids)

(* set_level: a level below the human one has no drafts. *)
LowerKeepsDrafts(new) == {}
ExpiredByLevel(new) == IF new < HumanConfirm THEN DOMAIN drafts ELSE {}

SetLevel(new) ==
  /\ level' = new
  /\ Expire(ExpiredByLevel(new))
  /\ UNCHANGED <<killSwitch, counter, approved, rejected, autoExecuted, now,
                 late>>

KillKeepsDrafts == {}
ExpiredByKill == DOMAIN drafts

ActivateKillSwitch ==
  /\ killSwitch' = TRUE
  /\ Expire(ExpiredByKill)
  /\ UNCHANGED <<level, counter, approved, rejected, autoExecuted, now, late>>

DeactivateKillSwitch ==
  /\ killSwitch' = FALSE
  /\ UNCHANGED <<level, drafts, counter, stats, now, late>>

(* _expire_oldest_pending: the first of the drafts created earliest. *)
NewestDraft == {i \in DOMAIN drafts : \A j \in DOMAIN drafts : j <= i}
OldestDraft ==
  {i \in DOMAIN drafts :
     \A j \in DOMAIN drafts \ {i} :
       \/ drafts[i].created < drafts[j].created
       \/ drafts[i].created = drafts[j].created /\ i < j}

(* process_trade_signal.  A blocked signal and a signal of level 1 change  *)
(* nothing, so only two cases are actions.                                 *)
RoomAfter == IF Count(DOMAIN drafts) > MaxPending THEN OldestDraft ELSE {}
Evicted   == IF Count(DOMAIN drafts) >= MaxPending THEN OldestDraft ELSE {}

(* _generate_order_id increments the counter first. *)
StaleDraftId == counter
DraftId == counter + 1

DraftOrder ==
  /\ ~killSwitch /\ level = HumanConfirm
  /\ counter < MaxDrafts
  /\ counter' = counter + 1
  /\ drafts' = [i \in (DOMAIN drafts \ Evicted) \cup {DraftId} |->
                  IF i = DraftId
                  THEN [status |-> "pending", created |-> now,
                        expires |-> now + Expiry]
                  ELSE drafts[i]]
  /\ expired' = expired + Count(Evicted)
  /\ UNCHANGED <<level, killSwitch, approved, rejected, autoExecuted, now,
                 late>>

AutoExecute ==
  /\ ~killSwitch /\ level = FullAuto
  /\ autoExecuted < MaxAuto
  /\ autoExecuted' = autoExecuted + 1
  /\ UNCHANGED <<level, killSwitch, drafts, counter, approved, rejected,
                 expired, now, late>>

Pending(i) == i \in DOMAIN drafts /\ drafts[i].status = "pending"
Due(i) == now > drafts[i].expires

(* approve_order.  One that comes too late marks the draft and counts it,  *)
(* but leaves it in the dictionary.                                        *)
ApprovedStays(i) == {}
Approved(i) == {i}

ApproveOrder(i) ==
  /\ Pending(i)
  /\ \/ /\ ~Due(i)
        /\ approved' = approved + 1
        /\ drafts' = Without(Approved(i))
        /\ UNCHANGED <<expired, late>>
     \/ /\ Due(i)
        /\ drafts' = [drafts EXCEPT ![i].status = "expired"]
        /\ expired' = expired + 1
        /\ late' = late + 1
        /\ UNCHANGED approved
  /\ UNCHANGED <<level, killSwitch, counter, rejected, autoExecuted, now>>

(* reject_order does not look at the clock. *)
RejectOrder(i) ==
  /\ Pending(i)
  /\ rejected' = rejected + 1
  /\ drafts' = Without({i})
  /\ UNCHANGED <<level, killSwitch, counter, approved, expired, autoExecuted,
                 now, late>>

(* _cleanup_expired, which get_pending_orders and get_state begin with. *)
Cleanup ==
  /\ Expire({i \in DOMAIN drafts : Due(i)})
  /\ UNCHANGED <<level, killSwitch, counter, approved, rejected, autoExecuted,
                 now, late>>

ClockTicks ==
  /\ now < MaxTime
  /\ now' = now + 1
  /\ UNCHANGED <<level, killSwitch, drafts, counter, stats, late>>

Next ==
  \/ \E new \in Levels : SetLevel(new)
  \/ ActivateKillSwitch \/ DeactivateKillSwitch
  \/ DraftOrder \/ AutoExecute
  \/ \E i \in DOMAIN drafts : ApproveOrder(i) \/ RejectOrder(i)
  \/ Cleanup
  \/ ClockTicks

Spec == Init /\ [][Next]_vars

-----------------------------------------------------------------------------
(* Properties. *)

Draft == [status : {"pending", "expired"}, created : Nat, expires : Nat]

TypeOK ==
  /\ level \in Levels /\ killSwitch \in BOOLEAN
  /\ DOMAIN drafts \subseteq 1..counter
  /\ \A i \in DOMAIN drafts : drafts[i] \in Draft
  /\ counter \in Nat /\ now \in Nat
  /\ approved \in Nat /\ rejected \in Nat /\ expired \in Nat
  /\ autoExecuted \in Nat /\ late \in Nat

(* While the kill switch is on, and at level 1, there is nothing a human   *)
(* could approve: what is drafted afterwards is drafted under level 2 with *)
(* the switch off, and what was drafted before never comes back.           *)
NoDraftsWhenHalted == killSwitch \/ level = SignalOnly => drafts = NoDrafts

(* So no order leaves the service while the kill switch is on ("halt all   *)
(* trading activity immediately", autonomy_service.py:210), although       *)
(* approve_order never asks about it.                                      *)
NothingLeavesWhenKilled ==
  [][approved' # approved \/ autoExecuted' # autoExecuted => ~killSwitch]_vars

(* max_pending_orders bounds the drafts.                                   *)
PendingBounded == Cardinality(DOMAIN drafts) <= MaxPending

(* Every draft ends exactly once: approved, rejected or expired; only the  *)
(* expiries an approval came too late for are counted once more.           *)
EveryDraftCounted ==
  counter = approved + rejected + (expired - late)
              + Cardinality(DOMAIN drafts)

(* A draft that makes room for another one was the next to expire.         *)
EvictsNextToExpire ==
  [][counter' # counter =>
       \A i \in DOMAIN drafts \ DOMAIN drafts', j \in DOMAIN drafts' :
         drafts[i].expires <= drafts'[j].expires]_vars

(* All that holds of the drafts between two calls (autonomy_service.py).   *)
DraftsSafe ==
  TypeOK /\ NoDraftsWhenHalted /\ PendingBounded /\ EveryDraftCounted

(* All that a call may never do to them.                                   *)
DraftsMoveSafely == NothingLeavesWhenKilled /\ EvictsNextToExpire

(* The drafts, at rest and in every step.                                  *)
DraftsSound == []DraftsSafe /\ DraftsMoveSafely
=============================================================================
