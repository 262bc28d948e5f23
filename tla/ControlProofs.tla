---------------------------- MODULE ControlProofs -----------------------------
(***************************************************************************)
(* Proofs about the runtime controls: AutonomyService, for every expiry,   *)
(* every size of the queue and any number of drafts, KillSwitch, for any   *)
(* number of worker threads and requests, the quotas of AccessRules, for   *)
(* any clients, windows and requests, what the server runs itself          *)
(* (ServerJobs), for any requests, prices, timeframes and size of the      *)
(* history, and the models it keeps up to date (SelfTuning), for any       *)
(* returns, baselines and intervals.                                       *)
(***************************************************************************)
EXTENDS AutonomyService, KillSwitch, AccessRules, ServerJobs, SelfTuning, FiniteSetTheorems, SequenceTheorems,
        WellFoundedInduction, Sums

-----------------------------------------------------------------------------
(* The autonomy service. *)

(* A later draft is no older, so that the lowest number is the one that    *)
(* _expire_oldest_pending finds; a draft expires Expiry after its creation.*)
InOrder ==
  /\ \A i \in DOMAIN drafts :
       drafts[i].created <= now /\ drafts[i].expires = drafts[i].created + Expiry
  /\ \A i, j \in DOMAIN drafts : i < j => drafts[i].created <= drafts[j].created

(* The inductive invariant.  PendingBounded needs InOrder: a full queue    *)
(* must have an oldest draft to make room with.                            *)
AutonomyInv ==
  TypeOK /\ InOrder /\ NoDraftsWhenHalted /\ EveryDraftCounted
         /\ PendingBounded

-----------------------------------------------------------------------------
(* Sets of numbers. *)

(* Removing part of a finite set leaves the difference of the sizes. *)
LEMMA RemovedCount ==
  ASSUME NEW S, IsFiniteSet(S), NEW T, T \subseteq S
  PROVE  /\ IsFiniteSet(S \ T) /\ Cardinality(S) \in Nat
         /\ Cardinality(T) \in Nat /\ Cardinality(S \ T) \in Nat
         /\ Cardinality(S \ T) = Cardinality(S) - Cardinality(T)
  <1>1. S \cap T = T
    OBVIOUS
  <1>2. IsFiniteSet(T) /\ IsFiniteSet(S \ T)
    BY FS_Subset, FS_Difference
  <1> QED BY <1>1, <1>2, FS_Difference, FS_CardinalityType

(* The drafts are finitely many. *)
LEMMA FiniteDrafts ==
  ASSUME TypeOK
  PROVE  IsFiniteSet(DOMAIN drafts)
  <1>1. IsFiniteSet(1..counter)
    BY FS_Interval DEF TypeOK
  <1> QED BY <1>1, FS_Subset DEF TypeOK

(* A dictionary with nothing in it is the empty one. *)
LEMMA WithoutAll ==
  ASSUME NEW ids, DOMAIN drafts \subseteq ids
  PROVE  Without(ids) = NoDrafts
  BY DEF Without, NoDrafts

(* Only the empty dictionary is still empty without some of its drafts. *)
LEMMA WithoutSome ==
  ASSUME NEW ids, drafts = NoDrafts
  PROVE  Without(ids) = NoDrafts
  BY DEF Without, NoDrafts

-----------------------------------------------------------------------------
(* What the actions do to the drafts. *)

(* The part of TypeOK and of the invariant that is about the drafts. *)
DraftsOK ==
  /\ DOMAIN drafts \subseteq 1..counter
  /\ \A i \in DOMAIN drafts : drafts[i] \in Draft
  /\ InOrder
  /\ PendingBounded

(* Drafts that leave the dictionary leave the others as they were. *)
LEMMA RemovalKeeps ==
  ASSUME AutonomyInv, NEW ids, ids \subseteq DOMAIN drafts,
         drafts' = Without(ids), UNCHANGED <<counter, now>>
  PROVE  /\ DraftsOK'
         /\ Count(ids) \in Nat /\ Cardinality(DOMAIN drafts) \in Nat
         /\ Cardinality(DOMAIN drafts') = Cardinality(DOMAIN drafts) - Count(ids)
         /\ drafts = NoDrafts => drafts' = NoDrafts
  <1>1. TypeOK /\ InOrder /\ PendingBounded
    BY DEF AutonomyInv
  <1>2. DOMAIN drafts' = DOMAIN drafts \ ids
        /\ \A i \in DOMAIN drafts' : drafts'[i] = drafts[i]
    BY DEF Without
  <1>3. /\ Cardinality(DOMAIN drafts') = Cardinality(DOMAIN drafts) - Count(ids)
        /\ Count(ids) \in Nat /\ Cardinality(DOMAIN drafts) \in Nat
    BY <1>1, <1>2, FiniteDrafts, RemovedCount DEF Count
  <1>4. DOMAIN drafts' \subseteq 1..counter'
        /\ \A i \in DOMAIN drafts' : drafts'[i] \in Draft
    BY <1>1, <1>2 DEF TypeOK
  <1>5. InOrder'
    BY <1>1, <1>2 DEF InOrder
  <1>6. PendingBounded'
    BY <1>1, <1>3, AutonomyAssumption DEF PendingBounded
  <1> QED BY <1>3, <1>4, <1>5, <1>6, WithoutSome DEF DraftsOK

(* A queue that is not empty has one oldest draft. *)
LEMMA OldestExists ==
  ASSUME AutonomyInv, DOMAIN drafts # {}
  PROVE  \E m \in DOMAIN drafts :
           /\ OldestDraft = {m}
           /\ \A j \in DOMAIN drafts : drafts[m].expires <= drafts[j].expires
  <1>1. TypeOK /\ InOrder
    BY DEF AutonomyInv
  <1>2. DOMAIN drafts \subseteq Nat
    BY <1>1 DEF TypeOK
  <1>3. PICK m \in DOMAIN drafts : \A k \in DOMAIN drafts : m <= k
    BY <1>2, LeastNatural
  <1>4. \A j \in DOMAIN drafts : drafts[j].created \in Nat /\ j \in Nat
    BY <1>1, <1>2 DEF TypeOK, Draft
  <1>5. \A j \in DOMAIN drafts \ {m} :
          m < j /\ drafts[m].created <= drafts[j].created
    BY <1>1, <1>3, <1>4 DEF InOrder
  <1>6. m \in OldestDraft
    BY <1>4, <1>5 DEF OldestDraft
  <1>7. ASSUME NEW i \in OldestDraft PROVE i = m
    BY <1>4, <1>5 DEF OldestDraft
  <1>8. \A j \in DOMAIN drafts : drafts[m].expires <= drafts[j].expires
    BY <1>1, <1>4, <1>5, AutonomyAssumption DEF InOrder
  <1> QED BY <1>6, <1>7, <1>8

(* Making room takes the oldest draft of a full queue, so that the new one *)
(* fits. *)
LEMMA RoomIsMade ==
  ASSUME AutonomyInv
  PROVE  /\ Evicted \subseteq DOMAIN drafts
         /\ Count(Evicted) \in Nat
         /\ Cardinality(DOMAIN drafts \ Evicted)
              = Cardinality(DOMAIN drafts) - Count(Evicted)
         /\ Cardinality(DOMAIN drafts \ Evicted) < MaxPending
  <1>1. TypeOK /\ PendingBounded
    BY DEF AutonomyInv
  <1>2. IsFiniteSet(DOMAIN drafts)
    BY <1>1, FiniteDrafts
  <1>3. Cardinality(DOMAIN drafts) \in Nat /\ MaxPending \in Nat \ {0}
    BY <1>2, FS_CardinalityType, AutonomyAssumption
  <1>4. Evicted \subseteq DOMAIN drafts
    BY DEF Evicted, OldestDraft
  <1>5. /\ Count(Evicted) \in Nat
        /\ Cardinality(DOMAIN drafts \ Evicted)
             = Cardinality(DOMAIN drafts) - Count(Evicted)
    BY <1>2, <1>4, RemovedCount DEF Count
  <1>6. Cardinality(DOMAIN drafts \ Evicted) < MaxPending
    <2>1. CASE Cardinality(DOMAIN drafts) >= MaxPending
      <3>1. DOMAIN drafts # {}
        BY <1>3, <2>1, FS_EmptySet
      <3>2. PICK m : Evicted = {m}
        BY <2>1, <3>1, OldestExists DEF Evicted, Count
      <3>3. Count(Evicted) = 1
        BY <3>2, FS_Singleton DEF Count
      <3>4. Cardinality(DOMAIN drafts) <= MaxPending
        BY <1>1 DEF PendingBounded
      <3> QED BY <1>3, <1>5, <3>3, <3>4
    <2>2. CASE ~(Cardinality(DOMAIN drafts) >= MaxPending)
      BY <1>3, <1>5, <2>2
    <2> QED BY <2>1, <2>2
  <1> QED BY <1>4, <1>5, <1>6

(* A draft that was made room for joins the others. *)
LEMMA DraftOrderKeeps ==
  ASSUME AutonomyInv, DraftOrder
  PROVE  /\ DraftsOK'
         /\ Cardinality(DOMAIN drafts')
              = Cardinality(DOMAIN drafts) - Count(Evicted) + 1
         /\ \A i \in DOMAIN drafts \ DOMAIN drafts', j \in DOMAIN drafts' :
              drafts[i].expires <= drafts'[j].expires
  <1> DEFINE Staying == DOMAIN drafts \ Evicted
  <1>1. TypeOK /\ InOrder
    BY DEF AutonomyInv
  <1>2. /\ DOMAIN drafts' = Staying \cup {DraftId}
        /\ drafts'[DraftId] = [status |-> "pending", created |-> now,
                               expires |-> now + Expiry]
        /\ \A i \in Staying : i # DraftId => drafts'[i] = drafts[i]
        /\ counter' = counter + 1 /\ now' = now
    BY DEF DraftOrder
  <1>3. DraftId = counter + 1 /\ counter \in Nat /\ now \in Nat /\ Expiry \in Nat
    BY <1>1, AutonomyAssumption DEF DraftId, TypeOK
  <1>4. \A i \in DOMAIN drafts : i \in Nat /\ i < DraftId /\ i \in 1..counter
    BY <1>1, <1>3 DEF TypeOK
  <1>5. DraftId \notin Staying /\ \A i \in Staying : drafts'[i] = drafts[i]
    BY <1>2, <1>3, <1>4
  <1>6. \A i \in DOMAIN drafts :
          drafts[i] \in Draft /\ drafts[i].created \in Nat /\ drafts[i].expires \in Nat
    BY <1>1 DEF TypeOK, Draft
  <1>7. /\ DOMAIN drafts' \subseteq 1..counter'
        /\ \A i \in DOMAIN drafts' : drafts'[i] \in Draft
    BY <1>2, <1>3, <1>4, <1>5, <1>6 DEF Draft
  <1>8. InOrder'
    <2>1. \A i \in DOMAIN drafts' :
            drafts'[i].created <= now' /\ drafts'[i].expires = drafts'[i].created + Expiry
      BY <1>1, <1>2, <1>3, <1>5 DEF InOrder
    <2>2. \A i, j \in DOMAIN drafts' :
            i < j => drafts'[i].created <= drafts'[j].created
      <3> SUFFICES ASSUME NEW i \in DOMAIN drafts', NEW j \in DOMAIN drafts', i < j
                   PROVE  drafts'[i].created <= drafts'[j].created
        OBVIOUS
      <3>1. i \in Staying
        BY <1>2, <1>3, <1>4
      <3>2. CASE j = DraftId
        BY <1>1, <1>2, <1>5, <3>1, <3>2 DEF InOrder
      <3>3. CASE j \in Staying
        BY <1>1, <1>5, <3>1, <3>3 DEF InOrder
      <3> QED BY <1>2, <3>2, <3>3
    <2> QED BY <2>1, <2>2 DEF InOrder
  <1>9. /\ Cardinality(DOMAIN drafts') = Cardinality(Staying) + 1
        /\ Cardinality(Staying) \in Nat
    <2>1. IsFiniteSet(Staying)
      BY <1>1, FiniteDrafts, FS_Difference
    <2> QED BY <1>2, <1>5, <2>1, FS_AddElement, FS_CardinalityType
  <1>10. Cardinality(DOMAIN drafts') = Cardinality(DOMAIN drafts) - Count(Evicted) + 1
    BY <1>9, RoomIsMade
  <1>11. PendingBounded'
    BY <1>9, RoomIsMade, AutonomyAssumption DEF PendingBounded
  <1>12. ASSUME NEW i \in DOMAIN drafts \ DOMAIN drafts', NEW j \in DOMAIN drafts'
         PROVE  drafts[i].expires <= drafts'[j].expires
    <2>1. i \in Evicted
      BY <1>2
    <2>2. i \in OldestDraft /\ DOMAIN drafts # {}
      BY <2>1 DEF Evicted
    <2>3. \A k \in DOMAIN drafts : drafts[i].expires <= drafts[k].expires
      BY <2>2, OldestExists
    <2>4. CASE j \in Staying
      BY <1>5, <2>3, <2>4
    <2>5. CASE j = DraftId
      BY <1>1, <1>2, <1>3, <1>6, <2>5 DEF InOrder
    <2> QED BY <1>2, <2>4, <2>5
  <1> QED BY <1>7, <1>8, <1>10, <1>11, <1>12 DEF DraftsOK

(* An approval that comes too late only changes the draft's status. *)
LEMMA LateApprovalKeeps ==
  ASSUME AutonomyInv, NEW i \in DOMAIN drafts,
         drafts' = [drafts EXCEPT ![i].status = "expired"],
         UNCHANGED <<counter, now>>
  PROVE  /\ DraftsOK'
         /\ DOMAIN drafts' = DOMAIN drafts
  <1>1. TypeOK /\ InOrder /\ PendingBounded
    BY DEF AutonomyInv
  <1>2. DOMAIN drafts' = DOMAIN drafts
    OBVIOUS
  <1>3. \A j \in DOMAIN drafts :
          /\ drafts'[j] \in Draft
          /\ drafts'[j].created = drafts[j].created
          /\ drafts'[j].expires = drafts[j].expires
    BY <1>1 DEF TypeOK, Draft
  <1>4. InOrder'
    BY <1>1, <1>2, <1>3 DEF InOrder
  <1>5. PendingBounded'
    BY <1>1, <1>2 DEF PendingBounded
  <1> QED BY <1>1, <1>2, <1>3, <1>4, <1>5 DEF DraftsOK, TypeOK

-----------------------------------------------------------------------------
(* The invariant is inductive. *)

(* The invariant holds at the start. *)
LEMMA InitInv == Init => AutonomyInv
  <1> SUFFICES ASSUME Init PROVE AutonomyInv
    OBVIOUS
  <1>1. DOMAIN drafts = {}
    BY DEF Init, NoDrafts
  <1>2. Cardinality(DOMAIN drafts) = 0
    BY <1>1, FS_EmptySet
  <1>3. TypeOK
    BY <1>1, AutonomyAssumption DEF Init, TypeOK
  <1>4. InOrder
    BY <1>1 DEF InOrder
  <1>5. NoDraftsWhenHalted
    BY DEF Init, NoDraftsWhenHalted
  <1>6. EveryDraftCounted
    BY <1>2 DEF Init, EveryDraftCounted
  <1>7. PendingBounded
    BY <1>2, AutonomyAssumption DEF PendingBounded
  <1> QED BY <1>3, <1>4, <1>5, <1>6, <1>7 DEF AutonomyInv

(* The expiries that an action counts are as many as it takes away. *)
LEMMA ExpireKeeps ==
  ASSUME AutonomyInv, NEW ids, ids \subseteq DOMAIN drafts, Expire(ids),
         UNCHANGED <<counter, approved, rejected, autoExecuted, now, late>>,
         level' \in Levels, killSwitch' \in BOOLEAN, NoDraftsWhenHalted'
  PROVE  AutonomyInv'
  <1>1. TypeOK /\ EveryDraftCounted
    BY DEF AutonomyInv
  <1>2. drafts' = Without(ids) /\ expired' = expired + Count(ids)
    BY DEF Expire
  <1>3. /\ DraftsOK' /\ Count(ids) \in Nat /\ Cardinality(DOMAIN drafts) \in Nat
        /\ Cardinality(DOMAIN drafts') = Cardinality(DOMAIN drafts) - Count(ids)
    BY <1>2, RemovalKeeps
  <1>4. TypeOK'
    BY <1>1, <1>2, <1>3 DEF TypeOK, DraftsOK
  <1>5. EveryDraftCounted'
    BY <1>1, <1>2, <1>3 DEF EveryDraftCounted, TypeOK
  <1> QED BY <1>3, <1>4, <1>5 DEF AutonomyInv, DraftsOK

(* It is kept when the level is set ... *)
LEMMA SetLevelInv ==
  ASSUME AutonomyInv, NEW new \in Levels, SetLevel(new)
  PROVE  AutonomyInv'
  <1>1. ExpiredByLevel(new) \subseteq DOMAIN drafts
    BY DEF ExpiredByLevel
  <1>2. drafts' = Without(ExpiredByLevel(new)) /\ level' = new
        /\ killSwitch' = killSwitch
    BY DEF SetLevel, Expire
  <1>3. NoDraftsWhenHalted'
    <2>1. CASE new = SignalOnly
      <3>1. ExpiredByLevel(new) = DOMAIN drafts
        BY <2>1 DEF ExpiredByLevel, SignalOnly, HumanConfirm
      <3> QED BY <1>2, <3>1, WithoutAll DEF NoDraftsWhenHalted
    <2>2. CASE killSwitch
      <3>1. drafts = NoDrafts
        BY <2>2 DEF AutonomyInv, NoDraftsWhenHalted
      <3> QED BY <1>2, <3>1, WithoutSome DEF NoDraftsWhenHalted
    <2> QED BY <1>2, <2>1, <2>2 DEF NoDraftsWhenHalted
  <1> QED BY <1>1, <1>3, ExpireKeeps DEF SetLevel, AutonomyInv, TypeOK

(* ... when the kill switch is thrown ... *)
LEMMA KillSwitchInv ==
  ASSUME AutonomyInv, ActivateKillSwitch
  PROVE  AutonomyInv'
  <1>1. drafts' = NoDrafts
    BY WithoutAll DEF ActivateKillSwitch, Expire, ExpiredByKill
  <1>2. NoDraftsWhenHalted'
    BY <1>1 DEF NoDraftsWhenHalted
  <1> QED BY <1>2, ExpireKeeps
          DEF ActivateKillSwitch, ExpiredByKill, AutonomyInv, TypeOK

(* ... when what has expired is marked ... *)
LEMMA CleanupInv ==
  ASSUME AutonomyInv, Cleanup
  PROVE  AutonomyInv'
  <1> DEFINE ids == {i \in DOMAIN drafts : Due(i)}
  <1>1. ids \subseteq DOMAIN drafts
    OBVIOUS
  <1>2. Expire(ids) /\ UNCHANGED <<level, killSwitch>>
    BY DEF Cleanup
  <1> HIDE DEF ids
  <1>3. NoDraftsWhenHalted'
    BY <1>2, WithoutSome DEF Expire, AutonomyInv, NoDraftsWhenHalted
  <1> QED BY <1>1, <1>2, <1>3, ExpireKeeps DEF Cleanup, AutonomyInv, TypeOK

(* ... when a draft is queued, after the oldest pending one if the queue is full ... *)
LEMMA DraftOrderInv ==
  ASSUME AutonomyInv, DraftOrder
  PROVE  AutonomyInv'
  <1>1. TypeOK /\ EveryDraftCounted
    BY DEF AutonomyInv
  <1>2. /\ DraftsOK' /\ Count(Evicted) \in Nat
        /\ Cardinality(DOMAIN drafts')
             = Cardinality(DOMAIN drafts) - Count(Evicted) + 1
    BY DraftOrderKeeps, RoomIsMade
  <1>3. Cardinality(DOMAIN drafts) \in Nat
    BY <1>1, FiniteDrafts, FS_CardinalityType
  <1>4. /\ counter' = counter + 1 /\ expired' = expired + Count(Evicted)
        /\ ~killSwitch /\ level = HumanConfirm
        /\ UNCHANGED <<level, killSwitch, approved, rejected, autoExecuted, now,
                       late>>
    BY DEF DraftOrder
  <1>5. TypeOK'
    BY <1>1, <1>2, <1>4 DEF TypeOK, DraftsOK
  <1>6. EveryDraftCounted'
    BY <1>1, <1>2, <1>3, <1>4 DEF EveryDraftCounted, TypeOK
  <1>7. NoDraftsWhenHalted'
    BY <1>4 DEF NoDraftsWhenHalted, HumanConfirm, SignalOnly
  <1> QED BY <1>2, <1>5, <1>6, <1>7 DEF AutonomyInv, DraftsOK

(* One draft leaves by a human's decision. *)
LEMMA DecisionKeeps ==
  ASSUME AutonomyInv, NEW i \in DOMAIN drafts, drafts' = Without({i}),
         UNCHANGED <<level, killSwitch, counter, expired, autoExecuted, now, late>>,
         \/ approved' = approved + 1 /\ rejected' = rejected
         \/ rejected' = rejected + 1 /\ approved' = approved
  PROVE  AutonomyInv'
  <1>1. TypeOK /\ EveryDraftCounted /\ NoDraftsWhenHalted
    BY DEF AutonomyInv
  <1>2. Count({i}) = 1
    BY FS_Singleton DEF Count
  <1>3. /\ DraftsOK' /\ Cardinality(DOMAIN drafts) \in Nat
        /\ Cardinality(DOMAIN drafts') = Cardinality(DOMAIN drafts) - 1
        /\ drafts = NoDrafts => drafts' = NoDrafts
    BY <1>2, RemovalKeeps
  <1>4. TypeOK'
    <2>1. approved' \in Nat /\ rejected' \in Nat
      BY <1>1 DEF TypeOK
    <2> QED BY <1>1, <1>3, <2>1 DEF TypeOK, DraftsOK
  <1>5. EveryDraftCounted'
    BY <1>1, <1>3 DEF EveryDraftCounted, TypeOK
  <1>6. NoDraftsWhenHalted'
    BY <1>1, <1>3 DEF NoDraftsWhenHalted
  <1> QED BY <1>3, <1>4, <1>5, <1>6 DEF AutonomyInv, DraftsOK

(* ... when one is approved ... *)
LEMMA ApproveOrderInv ==
  ASSUME AutonomyInv, NEW i \in DOMAIN drafts, ApproveOrder(i)
  PROVE  AutonomyInv'
  <1>1. CASE ~Due(i)
    BY <1>1, DecisionKeeps DEF ApproveOrder, Approved
  <1>2. CASE Due(i)
    <2>1. TypeOK /\ EveryDraftCounted /\ NoDraftsWhenHalted
      BY DEF AutonomyInv
    <2>2. /\ drafts' = [drafts EXCEPT ![i].status = "expired"]
          /\ expired' = expired + 1 /\ late' = late + 1
          /\ UNCHANGED <<level, killSwitch, counter, approved, rejected,
                         autoExecuted, now>>
      BY <1>2 DEF ApproveOrder
    <2>3. DraftsOK' /\ DOMAIN drafts' = DOMAIN drafts
      BY <2>2, LateApprovalKeeps
    <2>4. Cardinality(DOMAIN drafts) \in Nat
      BY <2>1, FiniteDrafts, FS_CardinalityType
    <2>5. TypeOK'
      BY <2>1, <2>2, <2>3 DEF TypeOK, DraftsOK
    <2>6. EveryDraftCounted'
      BY <2>1, <2>2, <2>3, <2>4 DEF EveryDraftCounted, TypeOK
    <2>7. drafts # NoDrafts
      BY DEF NoDrafts
    <2>8. NoDraftsWhenHalted'
      BY <2>1, <2>2, <2>7 DEF NoDraftsWhenHalted
    <2> QED BY <2>3, <2>5, <2>6, <2>8 DEF AutonomyInv, DraftsOK
  <1> QED BY <1>1, <1>2

(* ... and when one is rejected. *)
LEMMA RejectOrderInv ==
  ASSUME AutonomyInv, NEW i \in DOMAIN drafts, RejectOrder(i)
  PROVE  AutonomyInv'
  BY DecisionKeeps DEF RejectOrder

(* Time only passes: an older draft is still no younger than now. *)
LEMMA ClockInv ==
  ASSUME AutonomyInv, ClockTicks
  PROVE  AutonomyInv'
  <1>1. \A i \in DOMAIN drafts : drafts[i].created \in Nat
    BY DEF AutonomyInv, TypeOK, Draft
  <1>2. InOrder'
    BY <1>1 DEF AutonomyInv, TypeOK, InOrder, ClockTicks
  <1>3. /\ UNCHANGED <<level, killSwitch, drafts, counter, approved, rejected,
                       expired, autoExecuted, late>>
        /\ now' = now + 1
    BY DEF ClockTicks, stats
  <1>4. TypeOK'
    BY <1>3 DEF AutonomyInv, TypeOK
  <1>5. NoDraftsWhenHalted' /\ EveryDraftCounted' /\ PendingBounded'
    BY <1>3 DEF AutonomyInv, NoDraftsWhenHalted, EveryDraftCounted, PendingBounded
  <1> QED BY <1>2, <1>4, <1>5 DEF AutonomyInv

(* Everything else leaves the drafts alone. *)
LEMMA DraftsUntouchedInv ==
  ASSUME AutonomyInv, DeactivateKillSwitch \/ AutoExecute \/ UNCHANGED vars
  PROVE  AutonomyInv'
  <1>1. /\ UNCHANGED <<level, drafts, counter, approved, rejected, expired, now,
                       late>>
        /\ killSwitch' \in {FALSE, killSwitch}
        /\ autoExecuted' \in {autoExecuted, autoExecuted + 1}
    BY DEF DeactivateKillSwitch, AutoExecute, vars, stats
  <1>2. killSwitch' \in BOOLEAN
    BY <1>1, Zenon DEF AutonomyInv, TypeOK
  <1>3. autoExecuted' \in Nat
    BY <1>1 DEF AutonomyInv, TypeOK
  <1>4. TypeOK'
    BY <1>1, <1>2, <1>3 DEF AutonomyInv, TypeOK
  <1>5. NoDraftsWhenHalted'
    BY <1>1, Zenon DEF AutonomyInv, NoDraftsWhenHalted
  <1>6. InOrder' /\ EveryDraftCounted' /\ PendingBounded'
    BY <1>1 DEF AutonomyInv, InOrder, EveryDraftCounted, PendingBounded
  <1> QED BY <1>4, <1>5, <1>6 DEF AutonomyInv

(* The invariant holds in every reachable state. *)
THEOREM AutonomyInvHolds == Spec => []AutonomyInv
  <1>1. AutonomyInv /\ [Next]_vars => AutonomyInv'
    <2> SUFFICES ASSUME AutonomyInv, [Next]_vars PROVE AutonomyInv'
      OBVIOUS
    <2>1. ASSUME NEW new \in Levels, SetLevel(new) PROVE AutonomyInv'
      BY <2>1, SetLevelInv
    <2>2. CASE ActivateKillSwitch
      BY <2>2, KillSwitchInv
    <2>3. CASE DeactivateKillSwitch \/ AutoExecute \/ UNCHANGED vars
      BY <2>3, DraftsUntouchedInv
    <2>4. CASE DraftOrder
      BY <2>4, DraftOrderInv
    <2>5. ASSUME NEW i \in DOMAIN drafts, ApproveOrder(i) PROVE AutonomyInv'
      BY <2>5, ApproveOrderInv
    <2>6. ASSUME NEW i \in DOMAIN drafts, RejectOrder(i) PROVE AutonomyInv'
      BY <2>6, RejectOrderInv
    <2>7. CASE Cleanup
      BY <2>7, CleanupInv
    <2>8. CASE ClockTicks
      BY <2>8, ClockInv
    <2> QED BY <2>1, <2>2, <2>3, <2>4, <2>5, <2>6, <2>7, <2>8 DEF Next
  <1> QED BY <1>1, InitInv, PTL DEF Spec

-----------------------------------------------------------------------------
(* The theorems. *)

(* The service's variables keep their types. *)
THEOREM AutonomyTypeCorrect == Spec => []TypeOK
  BY AutonomyInvHolds, PTL DEF AutonomyInv

(* Under the kill switch, and at level 1, no draft is waiting, whatever    *)
(* was set, drafted or decided before, and in which order.                 *)
THEOREM HaltedHasNoDrafts == Spec => []NoDraftsWhenHalted
  BY AutonomyInvHolds, PTL DEF AutonomyInv

(* The number of drafts never exceeds max_pending_orders.                  *)
THEOREM PendingStaysBounded == Spec => []PendingBounded
  BY AutonomyInvHolds, PTL DEF AutonomyInv

(* The statistics account for every draft exactly once, but for the        *)
(* expiries that an approval came too late for.                            *)
THEOREM DraftsAlwaysCounted == Spec => []EveryDraftCounted
  BY AutonomyInvHolds, PTL DEF AutonomyInv

(* No step approves or executes an order while the kill switch is on,      *)
(* although approve_order does not look at it.                             *)
THEOREM KillSwitchHolds == Spec => NothingLeavesWhenKilled
  <1>1. AutonomyInv /\ [Next]_vars =>
          [approved' # approved \/ autoExecuted' # autoExecuted => ~killSwitch]_vars
    <2> SUFFICES ASSUME AutonomyInv, [Next]_vars, killSwitch
                 PROVE  approved' = approved /\ autoExecuted' = autoExecuted
      OBVIOUS
    <2>1. DOMAIN drafts = {}
      BY DEF AutonomyInv, NoDraftsWhenHalted, NoDrafts
    <2>2. ~AutoExecute /\ ~DraftOrder
      BY DEF AutoExecute, DraftOrder
    <2>3. ~ \E i \in DOMAIN drafts : ApproveOrder(i) \/ RejectOrder(i)
      BY <2>1
    <2>4. \/ \E new \in Levels : SetLevel(new)
          \/ ActivateKillSwitch \/ DeactivateKillSwitch
          \/ Cleanup \/ ClockTicks \/ UNCHANGED vars
      BY <2>2, <2>3 DEF Next
    <2> QED BY <2>4 DEF SetLevel, ActivateKillSwitch, DeactivateKillSwitch,
               Cleanup, ClockTicks, vars, stats
  <1> QED BY <1>1, AutonomyInvHolds, PTL DEF Spec, NothingLeavesWhenKilled

(* The draft that makes room is one of those that expire first.            *)
THEOREM EvictionTakesTheOldest == Spec => EvictsNextToExpire
  <1>1. AutonomyInv /\ [Next]_vars =>
          [counter' # counter =>
             \A i \in DOMAIN drafts \ DOMAIN drafts', j \in DOMAIN drafts' :
               drafts[i].expires <= drafts'[j].expires]_vars
    <2> SUFFICES ASSUME AutonomyInv, [Next]_vars, counter' # counter
                 PROVE  \A i \in DOMAIN drafts \ DOMAIN drafts', j \in DOMAIN drafts' :
                          drafts[i].expires <= drafts'[j].expires
      OBVIOUS
    <2>1. DraftOrder
      BY DEF Next, SetLevel, ActivateKillSwitch, DeactivateKillSwitch, AutoExecute,
         ApproveOrder, RejectOrder, Cleanup, ClockTicks, vars
    <2> QED BY <2>1, DraftOrderKeeps
  <1> QED BY <1>1, AutonomyInvHolds, PTL DEF Spec, EvictsNextToExpire

(* The state of the drafts is right for every queue length, expiry and     *)
(* starting level.                                                         *)
THEOREM DraftsAlwaysSafe == Spec => []DraftsSafe
  BY AutonomyTypeCorrect, HaltedHasNoDrafts, PendingStaysBounded,
     DraftsAlwaysCounted, PTL DEF DraftsSafe

(* So is every step.                                                       *)
THEOREM DraftsAlwaysMoveSafely == Spec => DraftsMoveSafely
  BY KillSwitchHolds, EvictionTakesTheOldest DEF DraftsMoveSafely

-----------------------------------------------------------------------------
(* The kill switch. *)

(* Schedulers up to a request that run on without having been told to stop. *)
Untold(s) == ThreadAlive(s) /\ ~Signalled(s)

(* An activation under way: before it stops the scheduler it has found, that is the only one older than *)
(* its request and not told to stop; then there is none, and past the queue no older order is pending.  *)
Underway(w) ==
  /\ suspend[w].pc # "idle" => suspend[w].stamp > 0
  /\ suspend[w].stamp <= stamp
  /\ suspend[w].pc \in {"stop", "join"} => suspend[w].found # 0
  /\ suspend[w].pc = "stop" =>
       \A s \in Stamps : Untold(s) /\ s <= suspend[w].stamp => s = suspend[w].found
  /\ suspend[w].pc \in {"join", "orders", "done"} =>
       \A s \in Stamps : Untold(s) => s > suspend[w].stamp
  /\ suspend[w].pc = "done" => \A o \in queued : o > suspend[w].stamp

(* What clients were told holds while a handler is on the loop, too. *)
EventsTold == ~unpushed => pushed = control.active

(* The inductive invariant: what the last activation promised was gathered by its worker thread, step  *)
(* by step, while requests went on; only the scheduler the server holds may run without having been    *)
(* told to stop; and every order and run is known by a request already made.                           *)
KillInv ==
  /\ KillTypeOK /\ OldActivityStopped /\ EventsTold
  /\ \A w \in SuspendThreads : Underway(w)
  /\ (\A o \in queued : o <= stamp) /\ scheduler <= stamp /\ cleared <= stamp
  /\ \A s \in Stamps : Untold(s) => s = scheduler
  /\ loop = "push" => unpushed
  /\ loop = "join" => scheduler # 0 /\ Signalled(scheduler)
  /\ control.active <=> control.since # 0

(* The initial states satisfy it. *)
LEMMA KillInitInv == KillInit => KillInv
<1> SUFFICES ASSUME KillInit PROVE KillInv
  OBVIOUS
<1> USE KillAssumption DEF KillInit, NoSuspend
<1>1. \A w \in SuspendThreads : suspend[w] = NoSuspend
  OBVIOUS
<1>2. KillTypeOK
  <2>1. 0 \in 0 .. MaxStamp
    OBVIOUS
  <2>2. control \in [active : BOOLEAN, since : 0 .. MaxStamp]
    BY <2>1, Zenon
  <2>3. suspend \in [SuspendThreads -> [pc : {"idle", "scheduler", "stop", "join", "orders", "done"},
                                        stamp : 0 .. MaxStamp, found : 0 .. MaxStamp]]
    BY <2>1
  <2> QED
    BY <2>1, <2>2, <2>3 DEF KillTypeOK, Stamps
<1>3. OldActivityStopped /\ EventsTold
  BY DEF OldActivityStopped, EventsTold, ThreadAlive
<1>4. \A w \in SuspendThreads : Underway(w)
  BY <1>1 DEF Underway
<1>5. /\ (\A o \in queued : o <= stamp) /\ scheduler <= stamp /\ cleared <= stamp
      /\ \A s \in Stamps : Untold(s) => s = scheduler
      /\ loop = "push" => unpushed
      /\ loop = "join" => scheduler # 0 /\ Signalled(scheduler)
      /\ control.active <=> control.since # 0
  BY DEF Untold, ThreadAlive
<1> QED
  BY <1>2, <1>3, <1>4, <1>5 DEF KillInv

(* Every step of a handler, a worker thread or a scheduler keeps it. *)
LEMMA KillStepInv == KillInv /\ [KillNext]_killVars => KillInv'
<1> SUFFICES ASSUME KillInv, [KillNext]_killVars PROVE KillInv'
  OBVIOUS
<1> USE KillAssumption DEF KillInv, KillTypeOK, OldActivityStopped, EventsTold, Underway, LoopIdle,
        Stamps, NoSuspend, NewRequest, Untold, ThreadAlive, Signalled
<1>1. ASSUME NEW w \in SuspendThreads, Activate(w) PROVE KillInv'
  <2>1. KillTypeOK'
    BY <1>1 DEF Activate
  <2>2. OldActivityStopped' /\ EventsTold'
    BY <1>1 DEF Activate
  <2>3. ASSUME NEW v \in SuspendThreads PROVE Underway(v)'
    BY <1>1 DEF Activate
  <2>4. /\ (\A o \in queued' : o <= stamp') /\ scheduler' <= stamp' /\ cleared' <= stamp'
        /\ \A s \in Stamps : Untold(s)' => s = scheduler'
        /\ loop' = "push" => unpushed'
        /\ loop' = "join" => scheduler' # 0 /\ Signalled(scheduler)'
        /\ control'.active <=> control'.since # 0
    BY <1>1 DEF Activate
  <2> QED
    BY <2>1, <2>2, <2>3, <2>4
<1>2. ASSUME NEW w \in SuspendThreads, FindScheduler(w) PROVE KillInv'
  <2>1. KillTypeOK'
    <3>1. suspend' \in [SuspendThreads -> [pc : {"idle", "scheduler", "stop", "join", "orders", "done"},
                                           stamp : 0 .. MaxStamp, found : 0 .. MaxStamp]]
      <4> DEFINE pc == IF Runs(scheduler) THEN "stop" ELSE "orders"
      <4>1. pc \in {"idle", "scheduler", "stop", "join", "orders", "done"}
        OBVIOUS
      <4>2. suspend' = [suspend EXCEPT ![w].pc = pc, ![w].found = scheduler]
        BY <1>2, Zenon DEF FindScheduler
      <4> HIDE DEF pc
      <4> QED
        BY <4>1, <4>2
    <3> QED
      BY <1>2, <3>1 DEF FindScheduler
  <2>2. OldActivityStopped' /\ EventsTold'
    BY <1>2 DEF FindScheduler, Runs
  <2>3. ASSUME NEW v \in SuspendThreads PROVE Underway(v)'
    BY <1>2 DEF FindScheduler, Runs
  <2>4. /\ (\A o \in queued' : o <= stamp') /\ scheduler' <= stamp' /\ cleared' <= stamp'
        /\ \A s \in Stamps : Untold(s)' => s = scheduler'
        /\ loop' = "push" => unpushed'
        /\ loop' = "join" => scheduler' # 0 /\ Signalled(scheduler)'
        /\ control'.active <=> control'.since # 0
    BY <1>2 DEF FindScheduler, Runs
  <2> QED
    BY <2>1, <2>2, <2>3, <2>4
<1>3. ASSUME NEW w \in SuspendThreads, StopFound(w) PROVE KillInv'
  BY <1>3 DEF StopFound, TellToStop
<1>4. ASSUME NEW w \in SuspendThreads, GiveUpStop(w) PROVE KillInv'
  BY <1>4 DEF GiveUpStop
<1>5. ASSUME NEW w \in SuspendThreads, CancelQueued(w) PROVE KillInv'
  BY <1>5 DEF CancelQueued, Remaining
<1>6. ASSUME NEW w \in SuspendThreads, StoreActive(w) PROVE KillInv'
  <2>1. KillTypeOK'
    BY <1>6 DEF StoreActive, SinceAfter
  <2>2. OldActivityStopped' /\ EventsTold'
    BY <1>6 DEF StoreActive, SinceAfter
  <2>3. ASSUME NEW v \in SuspendThreads PROVE Underway(v)'
    BY <1>6 DEF StoreActive, SinceAfter
  <2>4. /\ (\A o \in queued' : o <= stamp') /\ scheduler' <= stamp' /\ cleared' <= stamp'
        /\ \A s \in Stamps : Untold(s)' => s = scheduler'
        /\ loop' = "push" => unpushed'
        /\ loop' = "join" => scheduler' # 0 /\ Signalled(scheduler)'
        /\ control'.active <=> control'.since # 0
    BY <1>6 DEF StoreActive, SinceAfter
  <2> QED
    BY <2>1, <2>2, <2>3, <2>4
<1>7. CASE Deactivate
  BY <1>7 DEF Deactivate
<1>8. CASE PushEvent
  BY <1>8 DEF PushEvent, EventFlag
<1>9. CASE SubmitOrder
  <2>1. KillTypeOK'
    BY <1>9 DEF SubmitOrder
  <2>2. OldActivityStopped' /\ EventsTold'
    <3>0. cleared <= stamp /\ cleared \in Nat /\ stamp \in Nat
      OBVIOUS
    <3>1. \A o \in queued' : o > cleared'
      <4>1. queued' = queued \cup {stamp + 1} /\ cleared' = cleared
        BY <1>9 DEF SubmitOrder
      <4> QED
        BY <3>0, <4>1
    <3>2. \A s \in Stamps : work'[s] # "none" /\ s <= cleared' => stop'[s] # "unset"
      BY <1>9 DEF SubmitOrder
    <3>3. EventsTold'
      BY <1>9, Zenon DEF SubmitOrder
    <3> QED
      BY <3>1, <3>2, <3>3
  <2>3. ASSUME NEW v \in SuspendThreads PROVE Underway(v)'
    BY <1>9 DEF SubmitOrder
  <2>4. /\ (\A o \in queued' : o <= stamp') /\ scheduler' <= stamp' /\ cleared' <= stamp'
        /\ \A s \in Stamps : Untold(s)' => s = scheduler'
        /\ loop' = "push" => unpushed'
        /\ loop' = "join" => scheduler' # 0 /\ Signalled(scheduler)'
        /\ control'.active <=> control'.since # 0
    BY <1>9 DEF SubmitOrder
  <2> QED
    BY <2>1, <2>2, <2>3, <2>4
<1>10. CASE FillQueued
  BY <1>10 DEF FillQueued
<1>11. CASE StartScheduler
  <2>1. KillTypeOK'
    BY <1>11 DEF StartScheduler, Runs
  <2>2. OldActivityStopped' /\ EventsTold'
    <3>0. cleared <= stamp /\ cleared \in Nat /\ stamp \in Nat
      OBVIOUS
    <3>1. \A o \in queued' : o > cleared'
      BY <1>11 DEF StartScheduler, Runs
    <3>2. \A s \in Stamps : work'[s] # "none" /\ s <= cleared' => stop'[s] # "unset"
      <4>1. \A s \in Stamps : s # stamp + 1 => work'[s] = work[s]
        BY <1>11 DEF StartScheduler
      <4>2. stop' = stop /\ cleared' = cleared
        BY <1>11 DEF StartScheduler
      <4> QED
        BY <3>0, <4>1, <4>2
    <3>3. EventsTold'
      BY <1>11, Zenon DEF StartScheduler, Runs
    <3> QED
      BY <3>1, <3>2, <3>3
  <2>3. ASSUME NEW v \in SuspendThreads PROVE Underway(v)'
    BY <1>11 DEF StartScheduler, Runs
  <2>4. /\ (\A o \in queued' : o <= stamp') /\ scheduler' <= stamp' /\ cleared' <= stamp'
        /\ \A s \in Stamps : Untold(s)' => s = scheduler'
        /\ loop' = "push" => unpushed'
        /\ loop' = "join" => scheduler' # 0 /\ Signalled(scheduler)'
        /\ control'.active <=> control'.since # 0
    BY <1>11 DEF StartScheduler, Runs
  <2> QED
    BY <2>1, <2>2, <2>3, <2>4
<1>12. CASE StopScheduler
  BY <1>12 DEF StopScheduler, TellToStop
<1>13. CASE SchedulerStopped
  <2>1. KillTypeOK'
    BY <1>13 DEF SchedulerStopped
  <2>2. OldActivityStopped' /\ EventsTold'
    <3>1. \A o \in queued' : o > cleared'
      BY <1>13 DEF SchedulerStopped
    <3>2. \A s \in Stamps : work'[s] # "none" /\ s <= cleared' => stop'[s] # "unset"
      BY <1>13 DEF SchedulerStopped
    <3>3. EventsTold'
      BY <1>13, Zenon DEF SchedulerStopped
    <3> QED
      BY <3>1, <3>2, <3>3
  <2>3. ASSUME NEW v \in SuspendThreads PROVE Underway(v)'
    BY <1>13 DEF SchedulerStopped
  <2>4. /\ (\A o \in queued' : o <= stamp') /\ scheduler' <= stamp' /\ cleared' <= stamp'
        /\ \A s \in Stamps : Untold(s)' => s = scheduler'
        /\ loop' = "push" => unpushed'
        /\ loop' = "join" => scheduler' # 0 /\ Signalled(scheduler)'
        /\ control'.active <=> control'.since # 0
    BY <1>13 DEF SchedulerStopped
  <2> QED
    BY <2>1, <2>2, <2>3, <2>4
<1>14. ASSUME NEW r \in Stamps, BeginPipeline(r) PROVE KillInv'
  <2>1. KillTypeOK'
    BY <1>14 DEF BeginPipeline
  <2>2. OldActivityStopped' /\ EventsTold'
    BY <1>14 DEF BeginPipeline
  <2>3. ASSUME NEW v \in SuspendThreads PROVE Underway(v)'
    BY <1>14 DEF BeginPipeline
  <2>4. /\ (\A o \in queued' : o <= stamp') /\ scheduler' <= stamp' /\ cleared' <= stamp'
        /\ \A s \in Stamps : Untold(s)' => s = scheduler'
        /\ loop' = "push" => unpushed'
        /\ loop' = "join" => scheduler' # 0 /\ Signalled(scheduler)'
        /\ control'.active <=> control'.since # 0
    BY <1>14 DEF BeginPipeline
  <2> QED
    BY <2>1, <2>2, <2>3, <2>4
<1>15. ASSUME NEW r \in Stamps, EndPipeline(r) PROVE KillInv'
  BY <1>15 DEF EndPipeline
<1>16. ASSUME NEW r \in Stamps, ThreadEnds(r) PROVE KillInv'
  BY <1>16 DEF ThreadEnds
<1>17. CASE KillRestart
  <2>1. KillTypeOK'
    BY <1>17 DEF KillRestart
  <2>2. OldActivityStopped' /\ EventsTold'
    <3>1. \A o \in queued' : o > cleared'
      BY <1>17 DEF KillRestart
    <3>2. \A s \in Stamps : work'[s] # "none" /\ s <= cleared' => stop'[s] # "unset"
      BY <1>17 DEF KillRestart
    <3>3. EventsTold'
      BY <1>17, Zenon DEF KillRestart
    <3> QED
      BY <3>1, <3>2, <3>3
  <2>3. ASSUME NEW v \in SuspendThreads PROVE Underway(v)'
    BY <1>17 DEF KillRestart
  <2>4. /\ (\A o \in queued' : o <= stamp') /\ scheduler' <= stamp' /\ cleared' <= stamp'
        /\ \A s \in Stamps : Untold(s)' => s = scheduler'
        /\ loop' = "push" => unpushed'
        /\ loop' = "join" => scheduler' # 0 /\ Signalled(scheduler)'
        /\ control'.active <=> control'.since # 0
    BY <1>17 DEF KillRestart
  <2> QED
    BY <2>1, <2>2, <2>3, <2>4
<1>18. CASE UNCHANGED killVars
  BY <1>18 DEF killVars
<1> HIDE DEF KillInv, Stamps
<1> QED
  BY <1>1, <1>2, <1>3, <1>4, <1>5, <1>6, <1>7, <1>8, <1>9, <1>10, <1>11, <1>12, <1>13, <1>14, <1>15,
     <1>16, <1>17, <1>18 DEF KillNext

(* A thread looks at its event before it begins a run; a new scheduler belongs to a later request. *)
LEMMA KillStepRuns ==
  KillInv /\ [KillNext]_killVars =>
    [\A s \in Stamps : s <= cleared /\ work'[s] = "run" => work[s] = "run"]_killVars
<1> SUFFICES ASSUME KillInv, KillNext, NEW s \in Stamps, s <= cleared, work'[s] = "run"
    PROVE work[s] = "run"
  OBVIOUS
<1>1. ASSUME NEW r \in Stamps, BeginPipeline(r) PROVE work[s] = "run"
  BY <1>1 DEF BeginPipeline, KillInv, KillTypeOK, OldActivityStopped, ThreadAlive
<1>2. ASSUME NEW r \in Stamps, EndPipeline(r) \/ ThreadEnds(r) PROVE work[s] = "run"
  BY <1>2 DEF EndPipeline, ThreadEnds, KillInv, KillTypeOK
<1>3. CASE StartScheduler
  BY <1>3 DEF StartScheduler, KillInv, KillTypeOK
<1>4. CASE KillRestart
  BY <1>4 DEF KillRestart
<1>5. CASE UNCHANGED work
  BY <1>5
<1> QED
  BY <1>1, <1>2, <1>3, <1>4, <1>5 DEF KillNext, Activate, FindScheduler, StopFound, GiveUpStop, CancelQueued,
     StoreActive, Deactivate, PushEvent, SubmitOrder, FillQueued, StopScheduler, SchedulerStopped

(* Only an activation's store and a deactivation touch the time, and both write it with the flag. *)
LEMMA KillStepTime ==
  KillInv /\ [KillNext]_killVars =>
    [/\ control.active /\ control'.active => control'.since = control.since
     /\ control'.active <=> control'.since # 0]_killVars
<1> SUFFICES ASSUME KillInv, KillNext
    PROVE /\ control.active /\ control'.active => control'.since = control.since
          /\ control'.active <=> control'.since # 0
  OBVIOUS
<1> USE DEF KillInv, KillTypeOK
<1>1. ASSUME NEW w \in SuspendThreads, StoreActive(w)
      PROVE /\ control.active /\ control'.active => control'.since = control.since
            /\ control'.active <=> control'.since # 0
  BY <1>1 DEF StoreActive, SinceAfter, Underway
<1>2. CASE Deactivate
  BY <1>2 DEF Deactivate
<1>3. CASE UNCHANGED control
  BY <1>3
<1> HIDE DEF KillInv, KillTypeOK
<1> QED
  BY <1>1, <1>2, <1>3 DEF KillNext, Activate, FindScheduler, StopFound, GiveUpStop, CancelQueued,
     PushEvent, SubmitOrder, FillQueued, StartScheduler, StopScheduler, SchedulerStopped, BeginPipeline, EndPipeline,
     ThreadEnds, KillRestart

(* For any number of worker threads and requests, in any interleaving and across restarts: an activation *)
(* that was answered left no pending order older than its request and no older scheduler that was not    *)
(* told to stop, and none of those begins another run of the pipeline, given up on or not; the time of   *)
(* the activation goes with the flag, and clients were last told what is stored unless an event was lost. *)
THEOREM KillSwitchAlwaysObeyed == KillSpec => KillSwitchObeyed
<1>1. KillInv => KillTypeOK /\ OldActivityStopped /\ EventsTellControl
  BY DEF KillInv, EventsTold, EventsTellControl
<1> QED
  BY <1>1, KillInitInv, KillStepInv, KillStepTime, KillStepRuns, PTL
     DEF KillSpec, KillSwitchObeyed, ActivationTimeKept, NoOldRunBegins

-----------------------------------------------------------------------------
(* The usage of quotas. *)

(* Sequences of times, for whatever the clock shows. *)
Queues == Seq(Times)

(* The places of a queue that hold a time not before x, and the requests of a client as late. *)
Places(queue, x) == {k \in DOMAIN queue : queue[k] >= x}
RecordedSince(c, x) == {f \in finished : f[1] = c /\ f[2] >= x}

Ordered(queue) == \A j, k \in DOMAIN queue : j <= k => queue[j] <= queue[k]
Ends(short, long) ==
  \E d \in Nat : Len(long) = Len(short) + d /\ \A k \in DOMAIN short : short[k] = long[k + d]

UsageTyped ==
  /\ usage \in [Clients -> [tier : Tiers, minute : Queues, hour : Queues]]
  /\ tierOf \in [Clients -> Tiers] /\ running \subseteq [client : Clients, tier : Tiers, n : 1 .. MaxCallsMade]
  /\ quotaTime \in Times /\ made \in 0 .. MaxCallsMade /\ setBack \in Nat
  /\ finished \subseteq Clients \X Times \X (1 .. MaxCallsMade) /\ IsFiniteSet(finished)

(* A request is finished once: its number is not among the finished ones as long as it runs. *)
NumbersFresh ==
  /\ \A r \in running : r.n <= made /\ \A f \in finished : f[3] # r.n
  /\ \A f \in finished : f[3] <= made
  /\ \A r, q \in running : r.n = q.n => r = q

(* A queue still counts every window that begins after what it has pruned. *)
Counts(c, queue, window) ==
  /\ Ordered(queue) /\ \A k \in DOMAIN queue : queue[k] <= quotaTime
  /\ \A x \in Nat : x + window >= quotaTime => Cardinality(Places(queue, x)) = Cardinality(RecordedSince(c, x))
AllCounted ==
  setBack = 0 => \A c \in Clients : Counts(c, usage[c].minute, Minute) /\ Counts(c, usage[c].hour, Hour)

(* The inductive invariant behind QuotaCounted. *)
QuotaInv ==
  UsageTyped /\ NumbersFresh /\ AllCounted /\ \A c \in Clients : Ends(usage[c].minute, usage[c].hour)

(* The windows and the bounds are naturals. *)
LEMMA QuotaNumbers ==
  /\ Minute \in Nat /\ Hour \in Nat /\ Minute <= Hour /\ MaxQuotaTime \in Nat /\ MaxCallsMade \in Nat /\ MaxSteps \in Nat
  /\ Times \subseteq Nat /\ 0 \in Times /\ Queues \subseteq Seq(Nat)
  BY QuotaAssumption DEF Times, Queues

(* Pruning drops the entries before the first that is young enough. *)
LEMMA PruneDrops ==
  ASSUME NEW queue \in Queues, NEW window \in Nat, quotaTime \in Nat
  PROVE  \E a \in 0 .. Len(queue) :
           /\ Prune(queue, window) \in Queues /\ Len(Prune(queue, window)) = Len(queue) - a
           /\ \A k \in 1 .. Len(queue) - a : Prune(queue, window)[k] = queue[k + a]
           /\ \A k \in 1 .. a : queue[k] + window < quotaTime
           /\ a < Len(queue) => queue[a + 1] + window >= quotaTime
  <1> DEFINE fresh == {k \in DOMAIN queue : queue[k] + window >= quotaTime}
             first == CHOOSE k \in fresh : \A j \in fresh : k <= j
  <1>1. queue \in Seq(Times) /\ Len(queue) \in Nat /\ DOMAIN queue = 1 .. Len(queue) /\ fresh \subseteq Nat
        /\ \A k \in 1 .. Len(queue) : queue[k] \in Nat
    BY QuotaNumbers DEF Queues
  <1>2. CASE fresh = {}
    <2>1. Prune(queue, window) = <<>>
      BY <1>2 DEF Prune
    <2>2. \A k \in 1 .. Len(queue) : queue[k] + window < quotaTime
      BY <1>1, <1>2
    <2>3. <<>> \in Queues /\ Len(<<>>) = 0
      BY DEF Queues
    <2>4. Len(queue) \in 0 .. Len(queue) /\ Len(queue) - Len(queue) = 0 /\ 1 .. 0 = {} /\ ~(Len(queue) < Len(queue))
      BY <1>1
    <2> HIDE DEF fresh, first
    <2> QED BY <2>1, <2>2, <2>3, <2>4
  <1>3. CASE fresh # {}
    <2>1. first \in fresh /\ \A j \in fresh : first <= j
      <3> HIDE DEF fresh
      <3>1. \E k \in fresh : \A j \in fresh : k <= j
        BY <1>1, <1>3, LeastNatural
      <3> QED BY <3>1
    <2>2. Prune(queue, window) = SubSeq(queue, first, Len(queue))
      BY <1>3 DEF Prune
    <2>3. first \in 1 .. Len(queue) /\ queue[first] + window >= quotaTime /\ \A k \in 1 .. Len(queue) : k < first => queue[k] + window < quotaTime
      BY <1>1, <2>1
    <2> HIDE DEF fresh, first
    <2> DEFINE a == first - 1
    <2>4. a \in 0 .. Len(queue) /\ first = a + 1
      BY <1>1, <2>3
    <2>5. Len(SubSeq(queue, first, Len(queue))) = Len(queue) - a /\ SubSeq(queue, first, Len(queue)) \in Queues
          /\ \A k \in 1 .. Len(queue) - a : SubSeq(queue, first, Len(queue))[k] = queue[k + a]
      BY <1>1, <2>3 DEF Queues
    <2> HIDE DEF a
    <2>6. \A k \in 1 .. a : queue[k] + window < quotaTime
      BY <1>1, <2>3, <2>4
    <2>7. queue[a + 1] + window >= quotaTime
      BY <2>3, <2>4
    <2> QED BY <2>2, <2>4, <2>5, <2>6, <2>7
  <1> QED BY <1>2, <1>3

(* The places of a queue from a time on are finitely many. *)
LEMMA PlacesFinite ==
  ASSUME NEW queue \in Queues, NEW x \in Nat
  PROVE  IsFiniteSet(Places(queue, x)) /\ Cardinality(Places(queue, x)) \in Nat /\ Places(queue, x) \subseteq 1 .. Len(queue)
  <1>1. DOMAIN queue = 1 .. Len(queue) /\ Len(queue) \in Nat
    BY DEF Queues
  <1>2. IsFiniteSet(1 .. Len(queue))
    BY <1>1, FS_Interval
  <1> QED BY <1>1, <1>2, FS_Subset, FS_CardinalityType DEF Places

(* What pruning drops is not counted in a window that is not longer. *)
LEMMA PruneCounts ==
  ASSUME NEW queue \in Queues, NEW window \in Nat, NEW x \in Nat, quotaTime \in Nat, x + window >= quotaTime
  PROVE  Cardinality(Places(Prune(queue, window), x)) = Cardinality(Places(queue, x))
  <1> DEFINE p == Prune(queue, window)
  <1>1. PICK a \in 0 .. Len(queue) :
           /\ p \in Queues /\ Len(p) = Len(queue) - a
           /\ \A k \in 1 .. Len(queue) - a : p[k] = queue[k + a]
           /\ \A k \in 1 .. a : queue[k] + window < quotaTime
    BY PruneDrops
  <1> HIDE DEF p
  <1>2. queue \in Seq(Times) /\ Len(queue) \in Nat /\ DOMAIN queue = 1 .. Len(queue) /\ a \in Nat /\ DOMAIN p = 1 .. Len(p)
        /\ \A k \in 1 .. Len(queue) : queue[k] \in Nat
    BY <1>1, QuotaNumbers DEF Queues
  <1> DEFINE f == [k \in Places(p, x) |-> k + a]
  <1>3. \A k \in Places(p, x) : k \in Nat /\ k + a \in Places(queue, x)
    <2> SUFFICES ASSUME NEW k \in Places(p, x) PROVE k \in Nat /\ k + a \in Places(queue, x)
      OBVIOUS
    <2>1. k \in 1 .. Len(p) /\ p[k] >= x
      BY <1>2 DEF Places
    <2>2. k + a \in 1 .. Len(queue) /\ k \in 1 .. Len(queue) - a
      BY <1>1, <1>2, <2>1
    <2>3. p[k] = queue[k + a]
      BY <1>1, <2>2
    <2> QED BY <1>2, <2>1, <2>2, <2>3 DEF Places
  <1>4. \A j \in Places(queue, x) : j \in Nat /\ j - a \in Places(p, x) /\ (j - a) + a = j
    <2> SUFFICES ASSUME NEW j \in Places(queue, x) PROVE j \in Nat /\ j - a \in Places(p, x) /\ (j - a) + a = j
      OBVIOUS
    <2>1. j \in 1 .. Len(queue) /\ queue[j] \in Nat /\ queue[j] >= x
      BY <1>2 DEF Places
    <2>2. ~(queue[j] + window < quotaTime)
      BY <2>1
    <2>3. ~(j <= a)
      BY <1>1, <1>2, <2>1, <2>2
    <2>4. j - a \in 1 .. Len(p) /\ (j - a) + a = j
      BY <1>1, <1>2, <2>1, <2>3
    <2>5. p[j - a] = queue[j]
      BY <1>1, <2>4
    <2> QED BY <1>2, <2>1, <2>4, <2>5 DEF Places
  <1>5. f \in Bijection(Places(p, x), Places(queue, x))
    <2>1. f \in [Places(p, x) -> Places(queue, x)]
      BY <1>3
    <2>2. \A k, l \in Places(p, x) : f[k] = f[l] => k = l
      BY <1>2, <1>3
    <2>3. \A j \in Places(queue, x) : \E k \in Places(p, x) : f[k] = j
      BY <1>4
    <2> HIDE DEF f
    <2>4. f \in Injection(Places(p, x), Places(queue, x)) /\ f \in Surjection(Places(p, x), Places(queue, x))
      BY <2>1, <2>2, <2>3 DEF Injection, Surjection, IsInjective
    <2> QED BY <2>4 DEF Bijection
  <1>6. IsFiniteSet(Places(p, x))
    BY <1>1, PlacesFinite
  <1> HIDE DEF f
  <1>7. ExistsBijection(Places(p, x), Places(queue, x))
    BY <1>5 DEF ExistsBijection
  <1> QED BY <1>6, <1>7, FS_Bijection DEF p

(* One more entry is counted in the windows it is in. *)
LEMMA AppendCounts ==
  ASSUME NEW queue \in Queues, NEW t \in Times, NEW x \in Nat
  PROVE  Cardinality(Places(Append(queue, t), x)) = Cardinality(Places(queue, x)) + (IF t >= x THEN 1 ELSE 0)
  <1>1. Len(queue) \in Nat /\ DOMAIN queue = 1 .. Len(queue) /\ DOMAIN Append(queue, t) = 1 .. Len(queue) + 1
        /\ (\A k \in 1 .. Len(queue) : Append(queue, t)[k] = queue[k]) /\ Append(queue, t)[Len(queue) + 1] = t
    BY DEF Queues
  <1>2. IsFiniteSet(Places(queue, x)) /\ Len(queue) + 1 \notin Places(queue, x) /\ Cardinality(Places(queue, x)) \in Nat
    BY <1>1, PlacesFinite
  <1>3. CASE t >= x
    <2>1. Places(Append(queue, t), x) = Places(queue, x) \cup {Len(queue) + 1}
      BY <1>1, <1>3 DEF Places
    <2>2. Cardinality(Places(queue, x) \cup {Len(queue) + 1}) = Cardinality(Places(queue, x)) + 1
      BY <1>2, FS_AddElement
    <2> QED BY <1>3, <2>1, <2>2
  <1>4. CASE ~(t >= x)
    <2>1. Places(Append(queue, t), x) = Places(queue, x)
      BY <1>1, <1>4 DEF Places
    <2> QED BY <1>2, <1>4, <2>1
  <1> QED BY <1>3, <1>4

(* A finished request too. *)
LEMMA FinishCounts ==
  ASSUME UsageTyped, NEW c \in Clients, NEW x \in Nat, NEW n, NEW d \in Clients,
         finished' = finished \cup {<<d, quotaTime, n>>}, \A f \in finished : f[3] # n
  PROVE  /\ IsFiniteSet(finished')
         /\ Cardinality(RecordedSince(c, x)') = Cardinality(RecordedSince(c, x)) + (IF c = d /\ quotaTime >= x THEN 1 ELSE 0)
  <1> DEFINE f == <<d, quotaTime, n>>
  <1>1. f[1] = d /\ f[2] = quotaTime /\ f[3] = n /\ finished' = finished \cup {f} /\ f \notin finished
    OBVIOUS
  <1> HIDE DEF f
  <1>2. IsFiniteSet(finished')
    BY <1>1, FS_AddElement DEF UsageTyped
  <1>3. IsFiniteSet(RecordedSince(c, x)) /\ Cardinality(RecordedSince(c, x)) \in Nat /\ f \notin RecordedSince(c, x)
    BY <1>1, FS_Subset, FS_CardinalityType DEF UsageTyped, RecordedSince
  <1>4. CASE c = d /\ quotaTime >= x
    <2>1. RecordedSince(c, x)' = RecordedSince(c, x) \cup {f}
      BY <1>1, <1>4 DEF RecordedSince
    <2>2. Cardinality(RecordedSince(c, x) \cup {f}) = Cardinality(RecordedSince(c, x)) + 1
      BY <1>3, FS_AddElement
    <2> QED BY <1>2, <1>4, <2>1, <2>2
  <1>5. CASE ~(c = d /\ quotaTime >= x)
    <2>1. RecordedSince(c, x)' = RecordedSince(c, x)
      BY <1>1, <1>5 DEF RecordedSince
    <2> QED BY <1>2, <1>3, <1>5, <2>1
  <1> QED BY <1>4, <1>5

(* A request is recorded: its queue is pruned and longer by one. *)
LEMMA RecordCounts ==
  ASSUME UsageTyped, NEW c \in Clients, NEW window \in Nat, NEW queue \in Queues, Counts(c, queue, window), NEW n,
         NEW d \in Clients, finished' = finished \cup {<<d, quotaTime, n>>}, \A f \in finished : f[3] # n,
         quotaTime' = quotaTime,
         NEW next \in Queues, next = IF c = d THEN Append(Prune(queue, window), quotaTime) ELSE queue
  PROVE  Counts(c, next, window)'
  <1>1. quotaTime \in Nat /\ quotaTime \in Times
    BY QuotaNumbers DEF UsageTyped
  <1>2. Prune(queue, window) \in Queues
    BY <1>1, PruneDrops
  <1>3. \A x \in Nat : x + window >= quotaTime' => Cardinality(Places(next, x)) = Cardinality(RecordedSince(c, x)')
    <2> SUFFICES ASSUME NEW x \in Nat, x + window >= quotaTime
                 PROVE  Cardinality(Places(next, x)) = Cardinality(RecordedSince(c, x)')
      OBVIOUS
    <2>1. /\ Cardinality(RecordedSince(c, x)') = Cardinality(RecordedSince(c, x)) + (IF c = d /\ quotaTime >= x THEN 1 ELSE 0)
          /\ Cardinality(Places(queue, x)) = Cardinality(RecordedSince(c, x)) /\ Cardinality(Places(queue, x)) \in Nat
      BY FinishCounts, PlacesFinite DEF Counts
    <2>2. CASE c = d
      <3>1. /\ Cardinality(Places(next, x)) = Cardinality(Places(Prune(queue, window), x)) + (IF quotaTime >= x THEN 1 ELSE 0)
            /\ Cardinality(Places(Prune(queue, window), x)) = Cardinality(Places(queue, x))
        BY <1>1, <1>2, <2>2, AppendCounts, PruneCounts
      <3> QED BY <2>1, <2>2, <3>1
    <2>3. CASE c # d
      BY <2>1, <2>3
    <2> QED BY <2>2, <2>3
  <1>4. Ordered(next) /\ \A k \in DOMAIN next : next[k] <= quotaTime
    <2>1. CASE c # d
      BY <2>1 DEF Counts
    <2>2. CASE c = d
      <3> DEFINE p == Prune(queue, window)
      <3>1. PICK a \in 0 .. Len(queue) :
               p \in Queues /\ Len(p) = Len(queue) - a /\ \A k \in 1 .. Len(queue) - a : p[k] = queue[k + a]
        BY <1>1, PruneDrops
      <3> HIDE DEF p
      <3>2. queue \in Seq(Times) /\ Len(queue) \in Nat /\ DOMAIN queue = 1 .. Len(queue) /\ a \in Nat /\ DOMAIN p = 1 .. Len(p)
            /\ \A k \in 1 .. Len(queue) : queue[k] \in Nat
        BY <3>1, QuotaNumbers DEF Queues
      <3>3. /\ \A k \in DOMAIN p : p[k] \in Nat /\ p[k] <= quotaTime
            /\ \A j, k \in DOMAIN p : j <= k => p[j] <= p[k]
        <4>1. \A k \in 1 .. Len(p) : k \in Nat /\ k + a \in 1 .. Len(queue) /\ p[k] = queue[k + a]
          BY <3>1, <3>2
        <4>2. \A j, k \in 1 .. Len(p) : j <= k => j + a <= k + a
          BY <3>2, <4>1
        <4>3. /\ \A k \in 1 .. Len(queue) : queue[k] <= quotaTime
              /\ \A j, k \in 1 .. Len(queue) : j <= k => queue[j] <= queue[k]
          BY <3>2 DEF Counts, Ordered
        <4>4. \A k \in 1 .. Len(p) : p[k] \in Nat /\ p[k] <= quotaTime
          BY <3>2, <4>1, <4>3
        <4>5. ASSUME NEW j \in 1 .. Len(p), NEW k \in 1 .. Len(p), j <= k PROVE p[j] <= p[k]
          BY <4>1, <4>2, <4>3, <4>5
        <4> QED BY <3>2, <4>4, <4>5
      <3>4. /\ next = Append(p, quotaTime) /\ Len(p) \in Nat /\ DOMAIN next = 1 .. Len(p) + 1
            /\ (\A k \in 1 .. Len(p) : next[k] = p[k]) /\ next[Len(p) + 1] = quotaTime
        BY <2>2, <3>1 DEF p, Queues
      <3>5. ASSUME NEW j \in DOMAIN next, NEW k \in DOMAIN next, j <= k PROVE next[j] <= next[k]
        BY <1>1, <3>2, <3>3, <3>4, <3>5
      <3>6. \A k \in DOMAIN next : next[k] <= quotaTime
        BY <1>1, <3>2, <3>3, <3>4
      <3> QED BY <3>5, <3>6 DEF Ordered
    <2> QED BY <2>1, <2>2
  <1> QED BY <1>3, <1>4 DEF Counts, Places, RecordedSince

(* The queue of the minute stays the end of that of the hour: what is too old for the hour is too old for the
   minute.                                                                                                  *)
LEMMA PruneEnds ==
  ASSUME NEW short \in Queues, NEW long \in Queues, Ends(short, long), quotaTime \in Times
  PROVE  Ends(Append(Prune(short, Minute), quotaTime), Append(Prune(long, Hour), quotaTime))
  <1> DEFINE p == Prune(short, Minute)
             q == Prune(long, Hour)
  <1>1. quotaTime \in Nat
    BY QuotaNumbers
  <1>2. PICK a \in 0 .. Len(short) :
           /\ p \in Queues /\ Len(p) = Len(short) - a
           /\ \A k \in 1 .. Len(short) - a : p[k] = short[k + a]
           /\ a < Len(short) => short[a + 1] + Minute >= quotaTime
    BY <1>1, QuotaNumbers, PruneDrops
  <1>3. PICK b \in 0 .. Len(long) :
           /\ q \in Queues /\ Len(q) = Len(long) - b
           /\ \A k \in 1 .. Len(long) - b : q[k] = long[k + b]
           /\ \A k \in 1 .. b : long[k] + Hour < quotaTime
    BY <1>1, QuotaNumbers, PruneDrops
  <1> HIDE DEF p, q
  <1>4. PICK d \in Nat : Len(long) = Len(short) + d /\ \A k \in DOMAIN short : short[k] = long[k + d]
    BY DEF Ends
  <1>5. Len(short) \in Nat /\ Len(long) \in Nat /\ DOMAIN short = 1 .. Len(short) /\ DOMAIN p = 1 .. Len(p) /\ a \in Nat /\ b \in Nat
        /\ (\A k \in 1 .. Len(short) : short[k] \in Nat) /\ (\A k \in 1 .. Len(long) : long[k] \in Nat)
    BY <1>2, <1>3, QuotaNumbers DEF Queues
  <1>6. b <= a + d
    <2>1. CASE a = Len(short)
      BY <1>3, <1>4, <1>5, <2>1
    <2>2. CASE a < Len(short)
      <3>1. a + 1 \in DOMAIN short /\ short[a + 1] = long[(a + 1) + d] /\ short[a + 1] + Minute >= quotaTime /\ (a + 1) + d \in 1 .. Len(long)
        <4>1. a + 1 \in 1 .. Len(short) /\ (a + 1) + d \in 1 .. Len(long)
          BY <1>4, <1>5, <2>2
        <4> QED BY <1>2, <1>4, <1>5, <2>2, <4>1
      <3>2. long[(a + 1) + d] + Hour >= quotaTime
        BY <1>1, <1>5, <3>1, QuotaNumbers
      <3>3. ~((a + 1) + d <= b)
        <4>1. ~(long[(a + 1) + d] + Hour < quotaTime)
          <5>1. long[(a + 1) + d] \in Nat /\ Hour \in Nat
            BY <1>5, <3>1, QuotaNumbers
          <5> QED BY <1>1, <3>2, <5>1
        <4>2. (a + 1) + d \notin 1 .. b
          BY <1>3, <4>1
        <4> QED BY <1>5, <4>2
      <3> QED BY <1>5, <3>3
    <2> QED BY <1>2, <1>5, <2>1, <2>2
  <1> DEFINE e == (a + d) - b
  <1>7. e \in Nat /\ Len(q) = Len(p) + e
    BY <1>2, <1>3, <1>4, <1>5, <1>6
  <1>8. \A k \in 1 .. Len(p) : k + e \in 1 .. Len(q) /\ p[k] = q[k + e]
    <2> SUFFICES ASSUME NEW k \in 1 .. Len(p) PROVE k + e \in 1 .. Len(q) /\ p[k] = q[k + e]
      OBVIOUS
    <2>1. p[k] = short[k + a] /\ k + a \in 1 .. Len(short) /\ short[k + a] = long[(k + a) + d]
      <3>1. k + a \in 1 .. Len(short) /\ k \in 1 .. Len(short) - a
        BY <1>2, <1>5
      <3> QED BY <1>2, <1>4, <1>5, <3>1
    <2>2. k + e \in 1 .. Len(q) /\ q[k + e] = long[(k + e) + b] /\ (k + e) + b = (k + a) + d
      BY <1>2, <1>3, <1>4, <1>5, <1>6
    <2> QED BY <2>1, <2>2
  <1> HIDE DEF e
  <1> DEFINE s == Append(p, quotaTime)
             l == Append(q, quotaTime)
  <1>9. Len(p) \in Nat /\ Len(q) \in Nat
    BY <1>2, <1>3 DEF Queues
  <1>10. /\ Len(s) = Len(p) + 1 /\ DOMAIN s = 1 .. Len(p) + 1 /\ (\A k \in 1 .. Len(p) : s[k] = p[k]) /\ s[Len(p) + 1] = quotaTime
         /\ Len(l) = Len(q) + 1 /\ (\A k \in 1 .. Len(q) : l[k] = q[k]) /\ l[Len(q) + 1] = quotaTime
    <2>1. p \in Seq(Times) /\ q \in Seq(Times)
      BY <1>2, <1>3 DEF Queues
    <2>2. Len(s) = Len(p) + 1 /\ DOMAIN s = 1 .. Len(p) + 1 /\ (\A k \in 1 .. Len(p) : s[k] = p[k]) /\ s[Len(p) + 1] = quotaTime
      BY <1>9, <2>1
    <2>3. Len(l) = Len(q) + 1 /\ (\A k \in 1 .. Len(q) : l[k] = q[k]) /\ l[Len(q) + 1] = quotaTime
      BY <1>9, <2>1
    <2> QED BY <2>2, <2>3
  <1> HIDE DEF s, l
  <1>11. Len(l) = Len(s) + e /\ \A k \in DOMAIN s : s[k] = l[k + e]
    <2>1. Len(l) = Len(s) + e
      BY <1>7, <1>9, <1>10
    <2>2. ASSUME NEW k \in 1 .. Len(p) PROVE s[k] = l[k + e]
      BY <1>8, <1>10
    <2>3. s[Len(p) + 1] = l[(Len(p) + 1) + e]
      BY <1>7, <1>9, <1>10
    <2>4. \A k \in DOMAIN s : k \in 1 .. Len(p) \/ k = Len(p) + 1
      BY <1>9, <1>10
    <2> QED BY <2>1, <2>2, <2>3, <2>4
  <1>12. Ends(s, l)
    BY <1>7, <1>11 DEF Ends
  <1> QED BY <1>12 DEF s, l, p, q

(* A request is counted: once in each window of its client, after the older ones have been pruned. *)
LEMMA FinishStep ==
  ASSUME QuotaInv, NEW r \in running, FinishRequest(r)
  PROVE  QuotaInv'
  <1> DEFINE d == r.client
             m == Append(Prune(usage[d].minute, Minute), quotaTime)
             h == Append(Prune(usage[d].hour, Hour), quotaTime)
  <1>1. /\ running' = running \ {r} /\ usage' = [usage EXCEPT ![d] = [tier |-> r.tier, minute |-> m, hour |-> h]]
        /\ finished' = finished \cup {<<d, quotaTime, r.n>>} /\ UNCHANGED <<tierOf, quotaTime, made, setBack>>
    BY DEF FinishRequest, RecordedRequest
  <1>2. /\ UsageTyped /\ d \in Clients /\ r.tier \in Tiers /\ r.n \in 1 .. MaxCallsMade /\ quotaTime \in Times /\ quotaTime \in Nat
        /\ r.n <= made /\ (\A f \in finished : f[3] # r.n)
    BY QuotaNumbers DEF QuotaInv, UsageTyped, NumbersFresh
  <1>3. \A c \in Clients : usage[c].minute \in Queues /\ usage[c].hour \in Queues
    BY <1>2 DEF UsageTyped
  <1>4. m \in Queues /\ h \in Queues
    <2>1. Prune(usage[d].minute, Minute) \in Queues /\ Prune(usage[d].hour, Hour) \in Queues
      BY <1>2, <1>3, QuotaNumbers, PruneDrops
    <2> QED BY <1>2, <2>1 DEF Queues
  <1>5. \A c \in Clients : /\ usage'[c].minute = IF c = d THEN m ELSE usage[c].minute
                           /\ usage'[c].hour = IF c = d THEN h ELSE usage[c].hour
    BY <1>1, <1>2 DEF UsageTyped
  <1>6. usage' \in [Clients -> [tier : Tiers, minute : Queues, hour : Queues]]
    <2> HIDE DEF m, h
    <2> QED BY <1>1, <1>2, <1>4 DEF UsageTyped
  <1>7. UsageTyped'
    <2>1. IsFiniteSet(finished')
      BY <1>1, <1>2, FS_AddElement DEF UsageTyped
    <2>2. <<d, quotaTime, r.n>> \in Clients \X Times \X (1 .. MaxCallsMade)
      BY <1>2
    <2> QED BY <1>1, <1>2, <1>6, <2>1, <2>2 DEF UsageTyped
  <1>8. NumbersFresh'
    <2> DEFINE f == <<d, quotaTime, r.n>>
    <2>1. f[3] = r.n /\ finished' = finished \cup {f}
      BY <1>1
    <2> HIDE DEF f
    <2>2. \A q \in running' : q \in running /\ q.n # r.n
      BY <1>1 DEF QuotaInv, NumbersFresh
    <2> QED BY <1>1, <1>2, <2>1, <2>2 DEF QuotaInv, NumbersFresh
  <1>9. AllCounted'
    <2> SUFFICES ASSUME setBack = 0, NEW c \in Clients, NEW nm \in Queues, nm = usage'[c].minute,
                        NEW nh \in Queues, nh = usage'[c].hour
                 PROVE  Counts(c, nm, Minute)' /\ Counts(c, nh, Hour)'
      <3>1. \A c \in Clients : usage'[c].minute \in Queues /\ usage'[c].hour \in Queues
        BY <1>6
      <3> QED BY <1>1, <3>1 DEF AllCounted, Counts, Places, RecordedSince, Ordered
    <2>1. Counts(c, usage[c].minute, Minute) /\ Counts(c, usage[c].hour, Hour)
      BY DEF QuotaInv, AllCounted
    <2>4. Counts(c, nm, Minute)'
      <3>1. nm = IF c = d THEN Append(Prune(usage[c].minute, Minute), quotaTime) ELSE usage[c].minute
        BY <1>5
      <3>2. Minute \in Nat /\ usage[c].minute \in Queues
        BY <1>3, QuotaNumbers
      <3> HIDE DEF m, h
      <3> QED BY <1>1, <1>2, <2>1, <3>1, <3>2, RecordCounts
    <2>5. Counts(c, nh, Hour)'
      <3>1. nh = IF c = d THEN Append(Prune(usage[c].hour, Hour), quotaTime) ELSE usage[c].hour
        BY <1>5
      <3>2. Hour \in Nat /\ usage[c].hour \in Queues
        BY <1>3, QuotaNumbers
      <3> HIDE DEF m, h
      <3> QED BY <1>1, <1>2, <2>1, <3>1, <3>2, RecordCounts
    <2> QED BY <2>4, <2>5
  <1>10. \A c \in Clients : Ends(usage'[c].minute, usage'[c].hour)
    <2> SUFFICES ASSUME NEW c \in Clients PROVE Ends(usage'[c].minute, usage'[c].hour)
      OBVIOUS
    <2>1. Ends(usage[c].minute, usage[c].hour)
      BY DEF QuotaInv
    <2>2. CASE c = d
      <3>1. Ends(m, h)
        BY <1>2, <1>3, <2>1, <2>2, PruneEnds
      <3> HIDE DEF m, h
      <3> QED BY <1>5, <2>2, <3>1
    <2>3. CASE c # d
      BY <1>5, <2>1, <2>3
    <2> QED BY <2>2, <2>3
  <1> QED BY <1>7, <1>8, <1>9, <1>10 DEF QuotaInv, Ends

(* Time goes on: no window gets longer. *)
LEMMA TimeStep == ASSUME QuotaInv, QuotaTick \/ ClockSetBack PROVE QuotaInv'
  <1>1. /\ UNCHANGED <<tierOf, running, usage, made, finished>>
        /\ \/ quotaTime' = quotaTime + 1 /\ quotaTime < MaxQuotaTime /\ setBack' = setBack
           \/ quotaTime' = quotaTime - 1 /\ quotaTime > 0 /\ setBack' = setBack + 1
    BY DEF QuotaTick, ClockSetBack
  <1>2. quotaTime \in 0 .. MaxQuotaTime /\ setBack \in Nat /\ MaxQuotaTime \in Nat
    BY QuotaNumbers DEF QuotaInv, UsageTyped, Times
  <1>3. quotaTime' \in 0 .. MaxQuotaTime /\ setBack' \in Nat /\ (setBack' = 0 => setBack = 0 /\ quotaTime' = quotaTime + 1)
    BY <1>1, <1>2
  <1>4. UsageTyped' /\ NumbersFresh' /\ \A c \in Clients : Ends(usage'[c].minute, usage'[c].hour)
    BY <1>1, <1>3 DEF QuotaInv, UsageTyped, NumbersFresh, Times
  <1>5. AllCounted'
    <2> SUFFICES ASSUME setBack = 0, quotaTime' = quotaTime + 1, NEW c \in Clients, NEW queue \in Queues, NEW window \in Nat,
                        Counts(c, queue, window)
                 PROVE  Counts(c, queue, window)'
      <3>1. \A c \in Clients : usage'[c] = usage[c] /\ usage[c].minute \in Queues /\ usage[c].hour \in Queues
        BY <1>1 DEF QuotaInv, UsageTyped
      <3> QED BY <1>1, <1>3, <3>1, QuotaNumbers DEF QuotaInv, AllCounted
    <2>1. \A k \in DOMAIN queue : queue[k] \in Nat
      BY QuotaNumbers DEF Queues
    <2>2. \A x \in Nat : x + window >= quotaTime' => x + window >= quotaTime
      BY <1>2
    <2>3. \A k \in DOMAIN queue : queue[k] <= quotaTime => queue[k] <= quotaTime'
      BY <1>2, <2>1
    <2> QED BY <1>1, <2>2, <2>3 DEF Counts, RecordedSince, Places
  <1> QED BY <1>4, <1>5 DEF QuotaInv, Ends

(* RecordedSince arrive and logins change: nothing is recorded. *)
LEMMA ArriveStep == ASSUME QuotaInv, NEW c \in Clients, Arrive(c) \/ Relogin(c) PROVE QuotaInv'
  <1>1. /\ UNCHANGED <<usage, quotaTime, finished, setBack>>
        /\ \/ /\ made < MaxCallsMade /\ made' = made + 1 /\ tierOf' = tierOf
              /\ running' = running \cup {[client |-> c, tier |-> tierOf[c], n |-> made + 1]}
           \/ /\ running' = running /\ made' = made /\ \E t \in Tiers : tierOf' = [tierOf EXCEPT ![c] = t]
    BY DEF Arrive, Relogin
  <1>2. made \in 0 .. MaxCallsMade /\ MaxCallsMade \in Nat /\ tierOf \in [Clients -> Tiers] /\ UsageTyped /\ NumbersFresh
    BY QuotaNumbers DEF QuotaInv, UsageTyped
  <1>3. UsageTyped' /\ NumbersFresh'
    <2>1. CASE /\ made < MaxCallsMade /\ made' = made + 1 /\ tierOf' = tierOf
               /\ running' = running \cup {[client |-> c, tier |-> tierOf[c], n |-> made + 1]}
      <3> DEFINE r == [client |-> c, tier |-> tierOf[c], n |-> made + 1]
      <3>1. r \in [client : Clients, tier : Tiers, n : 1 .. MaxCallsMade] /\ r.n = made + 1
        BY <1>2, <2>1
      <3>2. running' = running \cup {r}
        BY <2>1
      <3> HIDE DEF r
      <3>3. UsageTyped'
        BY <1>1, <1>2, <2>1, <3>1, <3>2 DEF UsageTyped
      <3>4. /\ \A q \in running : q.n \in 1 .. MaxCallsMade /\ q.n <= made
            /\ \A f \in finished : f[3] \in Nat /\ f[3] <= made
        <4>1. \A f \in finished : f[3] \in 1 .. MaxCallsMade
          BY <1>2 DEF UsageTyped
        <4> QED BY <1>2, <4>1 DEF UsageTyped, NumbersFresh
      <3>5. NumbersFresh'
        <4>1. \A q \in running : q.n <= made' /\ q.n # r.n
          BY <1>2, <2>1, <3>1, <3>4
        <4>2. \A f \in finished : f[3] <= made' /\ f[3] # r.n
          BY <1>2, <2>1, <3>1, <3>4
        <4> QED BY <1>1, <1>2, <2>1, <3>1, <3>2, <4>1, <4>2 DEF NumbersFresh
      <3> QED BY <3>3, <3>5
    <2>2. CASE running' = running /\ made' = made /\ \E t \in Tiers : tierOf' = [tierOf EXCEPT ![c] = t]
      BY <1>1, <1>2, <2>2 DEF UsageTyped, NumbersFresh
    <2> QED BY <1>1, <2>1, <2>2
  <1>4. AllCounted'
    <2>1. ASSUME NEW k \in Clients, NEW queue, NEW window, Counts(k, queue, window) PROVE Counts(k, queue, window)'
      BY <1>1, <2>1 DEF Counts, RecordedSince, Places
    <2> QED BY <1>1, <2>1 DEF QuotaInv, AllCounted
  <1> QED BY <1>1, <1>3, <1>4 DEF QuotaInv, Ends

(* What a snapshot counts, by the entries that are young enough. *)
LEMMA SnapshotCounts ==
  ASSUME UsageTyped, NEW c \in Clients, NEW queue \in Queues, NEW window \in Nat, Counts(c, queue, window)
  PROVE  CountIn(queue, window) = Cardinality(Within(c, window))
  <1> DEFINE p == Prune(queue, window)
             x == IF quotaTime >= window THEN quotaTime - window ELSE 0
  <1>1. quotaTime \in Nat
    BY QuotaNumbers DEF UsageTyped
  <1>2. x \in Nat /\ x + window >= quotaTime /\ \A t \in Nat : t + window >= quotaTime <=> t >= x
    BY <1>1
  <1>3. PICK a \in 0 .. Len(queue) :
           /\ p \in Queues /\ Len(p) = Len(queue) - a
           /\ \A k \in 1 .. Len(queue) - a : p[k] = queue[k + a]
           /\ a < Len(queue) => queue[a + 1] + window >= quotaTime
    BY <1>1, PruneDrops
  <1> HIDE DEF p, x
  <1>4. queue \in Seq(Times) /\ Len(queue) \in Nat /\ DOMAIN queue = 1 .. Len(queue) /\ a \in Nat /\ DOMAIN p = 1 .. Len(p)
        /\ Len(p) \in Nat /\ \A k \in 1 .. Len(queue) : queue[k] \in Nat
    BY <1>3, QuotaNumbers DEF Queues
  <1>5. \A k \in 1 .. Len(p) : p[k] >= x
    <2> SUFFICES ASSUME NEW k \in 1 .. Len(p) PROVE p[k] >= x
      OBVIOUS
    <2>1. p[k] = queue[k + a] /\ k + a \in 1 .. Len(queue) /\ a + 1 \in 1 .. Len(queue) /\ a + 1 <= k + a /\ a < Len(queue)
      BY <1>3, <1>4
    <2>2. queue[a + 1] <= queue[k + a] /\ queue[a + 1] >= x
      BY <1>2, <1>3, <1>4, <2>1 DEF Counts, Ordered
    <2> QED BY <1>2, <1>4, <2>1, <2>2
  <1>6. Places(p, x) = 1 .. Len(p)
    BY <1>4, <1>5 DEF Places
  <1>7. Cardinality(1 .. Len(p)) = Len(p)
    <2>1. \A n \in Nat : Cardinality(1 .. n) = n
      <3> SUFFICES ASSUME NEW n \in Nat PROVE Cardinality(1 .. n) = n
        OBVIOUS
      <3>1. Cardinality(1 .. n) = IF 1 > n THEN 0 ELSE n - 1 + 1
        BY FS_Interval
      <3> QED BY <3>1
    <2> QED BY <1>4, <2>1
  <1>8. Cardinality(Places(p, x)) = Cardinality(Places(queue, x)) /\ Cardinality(Places(queue, x)) = Cardinality(RecordedSince(c, x))
    BY <1>1, <1>2, PruneCounts DEF Counts, p
  <1>9. RecordedSince(c, x) = Within(c, window)
    <2>1. \A f \in finished : f[2] \in Nat
      BY QuotaNumbers DEF UsageTyped
    <2> QED BY <1>2, <2>1 DEF RecordedSince, Within
  <1> QED BY <1>6, <1>7, <1>8, <1>9 DEF CountIn, p

(* The end of a sequence, by its places. *)
LEMMA EndsIsSuffix ==
  ASSUME NEW s \in Queues, NEW l \in Queues, Ends(s, l)
  PROVE  IsSuffix(s, l)
  <1>1. PICK d \in Nat : Len(l) = Len(s) + d /\ \A k \in DOMAIN s : s[k] = l[k + d]
    BY DEF Ends
  <1>2. Len(s) \in Nat /\ Len(l) \in Nat /\ DOMAIN s = 1 .. Len(s) /\ s \in Seq(Times) /\ l \in Seq(Times)
        /\ (\A k \in 1 .. Len(s) : s[k] \in Times) /\ \A k \in 1 .. Len(l) : l[k] \in Times
    BY DEF Queues
  <1> DEFINE r == Reverse(s)
             q == Reverse(l)
  <1>3. /\ r \in Seq(Times) /\ Len(r) = Len(s) /\ (\A k \in 1 .. Len(s) : r[k] = s[(Len(s) - k) + 1])
        /\ q \in Seq(Times) /\ Len(q) = Len(l) /\ (\A k \in 1 .. Len(l) : q[k] = l[(Len(l) - k) + 1])
    BY <1>2 DEF Reverse
  <1> HIDE DEF r, q
  <1>4. \A k \in 1 .. Len(s) : r[k] = q[k]
    <2> SUFFICES ASSUME NEW k \in 1 .. Len(s) PROVE r[k] = q[k]
      OBVIOUS
    <2>1. (Len(s) - k) + 1 \in DOMAIN s /\ ((Len(s) - k) + 1) + d = (Len(l) - k) + 1 /\ k \in 1 .. Len(l)
      BY <1>1, <1>2
    <2> QED BY <1>1, <1>3, <2>1
  <1>5. SubSeq(r, 1, Len(r)) = SubSeq(q, 1, Len(r))
    BY <1>1, <1>2, <1>3, <1>4
  <1> QED BY <1>1, <1>2, <1>3, <1>5 DEF IsSuffix, IsPrefix, r, q

(* QuotaCounted: a snapshot counts exactly the requests of the minute and of the hour, for any clients, windows
   and number of requests, as long as the clock is not set back; the two counts agree even then.               *)
THEOREM QuotaIsCounted == QuotaSpec => []QuotaCounted
  <1>1. QuotaInit => QuotaInv
    <2> SUFFICES ASSUME QuotaInit PROVE QuotaInv
      OBVIOUS
    <2>1. /\ tierOf \in [Clients -> Tiers] /\ running = {} /\ usage = [c \in Clients |-> NoUsage]
          /\ quotaTime = 0 /\ made = 0 /\ finished = {} /\ setBack = 0
      BY DEF QuotaInit
    <2>2. NoUsage \in [tier : Tiers, minute : Queues, hour : Queues] /\ NoUsage.minute = <<>> /\ NoUsage.hour = <<>>
      BY QuotaAssumption DEF NoUsage, Queues
    <2>3. \A c \in Clients : usage[c].minute = <<>> /\ usage[c].hour = <<>>
      BY <2>1, <2>2
    <2>4. UsageTyped
      BY <2>1, <2>2, QuotaNumbers, FS_EmptySet DEF UsageTyped
    <2>5. \A c \in Clients, window \in Nat : Counts(c, <<>>, window)
      <3>1. \A x \in Nat : Places(<<>>, x) = {} /\ \A c \in Clients : RecordedSince(c, x) = {}
        BY <2>1 DEF Places, RecordedSince
      <3> QED BY <3>1 DEF Counts, Ordered
    <2>6. Ends(<<>>, <<>>)
      <3>1. Len(<<>>) = Len(<<>>) + 0 /\ DOMAIN <<>> = {} /\ 0 \in Nat
        OBVIOUS
      <3> QED BY <3>1 DEF Ends
    <2> QED BY <2>1, <2>3, <2>4, <2>5, <2>6, QuotaNumbers DEF QuotaInv, NumbersFresh, AllCounted
  <1>2. QuotaInv /\ [QuotaNext]_quotaVars => QuotaInv'
    <2> SUFFICES ASSUME QuotaInv, [QuotaNext]_quotaVars PROVE QuotaInv'
      OBVIOUS
    <2>1. CASE UNCHANGED quotaVars
      <3>1. UNCHANGED <<tierOf, running, usage, quotaTime, made, finished, setBack>>
        BY <2>1 DEF quotaVars
      <3>2. UsageTyped' /\ NumbersFresh' /\ \A c \in Clients : Ends(usage[c].minute, usage[c].hour)'
        BY <3>1 DEF QuotaInv, UsageTyped, NumbersFresh, Ends
      <3>3. AllCounted'
        BY <3>1 DEF QuotaInv, AllCounted, Counts, RecordedSince, Places, Ordered
      <3> QED BY <3>2, <3>3 DEF QuotaInv, Ends
    <2>2. ASSUME NEW c \in Clients, Arrive(c) \/ Relogin(c) PROVE QuotaInv'
      BY <2>2, ArriveStep
    <2>3. ASSUME NEW r \in running, FinishRequest(r) PROVE QuotaInv'
      BY <2>3, FinishStep
    <2>4. CASE QuotaTick \/ ClockSetBack
      BY <2>4, TimeStep
    <2> QED BY <2>1, <2>2, <2>3, <2>4 DEF QuotaNext
  <1>3. QuotaInv => QuotaCounted
    <2> SUFFICES ASSUME QuotaInv PROVE QuotaCounted
      OBVIOUS
    <2>1. UsageTyped /\ \A c \in Clients : usage[c].minute \in Queues /\ usage[c].hour \in Queues /\ usage[c].tier \in Tiers
      BY DEF QuotaInv, UsageTyped
    <2>2. QuotaTypeOK
      BY <2>1 DEF UsageTyped, QuotaTypeOK, Queues
    <2>3. CountsAreExact
      BY <2>1, SnapshotCounts, QuotaNumbers DEF QuotaInv, AllCounted, CountsAreExact
    <2>4. MinuteWithinHour
      BY <2>1, EndsIsSuffix DEF QuotaInv, MinuteWithinHour
    <2> QED BY <2>2, <2>3, <2>4 DEF QuotaCounted
  <1> QED BY <1>1, <1>2, <1>3, PTL DEF QuotaSpec

-----------------------------------------------------------------------------
(* The lifespan: what was told to stop stays told, unless the executor starts *)
(* the trainer after that.                                                  *)
LifespanInv ==
  /\ remembered \subseteq {"market", "trainer"} /\ toldStop \in [Services -> BOOLEAN]
  /\ pending \in BOOLEAN /\ startedLate \in BOOLEAN /\ (pending => ~startedLate)
  /\ phase \in {"market", "trainer"} => ~pending /\ ~startedLate
  /\ phase \in {"stop trainer", "over"} => ("market" \in remembered => toldStop["market"])
  /\ phase = "over" => ("trainer" \in remembered => toldStop["trainer"] \/ startedLate)

(* The trainings: two that run know of each other, and one that knows of no *)
(* other finds its own dataset.                                             *)
TrainingRecord == [pc : {"none", "begun", "built", "fitted"}, data : Trainings \cup {"none"}, beside : BOOLEAN]
TrainingInv ==
  /\ job \in [Trainings -> TrainingRecord] /\ dataset \in Trainings \cup {"none"}
  /\ \A v, w \in Trainings : v # w /\ job[v].pc # "none" /\ job[w].pc # "none" => job[v].beside
  /\ \A w \in Trainings : ~job[w].beside => /\ job[w].pc = "built" => dataset = w
                                            /\ job[w].pc = "fitted" => job[w].data = w
  /\ TrainedOnItsOwn

(* The trainer's loop trains, or has nothing in training; nothing trains    *)
(* while another study is made.                                             *)
LoopInv ==
  /\ thread \in [Services -> {"none", "listen", "top", "train", "sleep", "wait", "standby", "loop", "ended"}]
  /\ study # "training" => \A w \in Trainings : job[w].pc = "none"
  /\ thread["trainer"] # "train" => job["trainer"].pc = "none"

LEMMA LifespanSays == ASSUME LifespanInv PROVE ToldToStop
  <1> QED BY DEF LifespanInv, ToldToStop

LEMMA LifespanKeeps ==
  ASSUME LifespanInv, LifespanStep PROVE LifespanInv'
  <1> USE DEF LifespanInv, Services
  <1>1. ASSUME NEW fails \in BOOLEAN, StartMarket(fails) PROVE LifespanInv'
    BY <1>1 DEF StartMarket
  <1>2. ASSUME NEW fails \in BOOLEAN, StartTrainer(fails) PROVE LifespanInv'
    <2>1. CASE fails BY <1>2, <2>1 DEF StartTrainer
    <2>2. CASE ~fails BY <1>2, <2>2 DEF StartTrainer
    <2> QED BY <2>1, <2>2
  <1>3. ASSUME NEW fails \in BOOLEAN, StartMachines(fails) PROVE LifespanInv'
    BY <1>3 DEF StartMachines
  <1>4. ASSUME ExecutorStartsTrainer PROVE LifespanInv'
    BY <1>4 DEF ExecutorStartsTrainer
  <1>5. ASSUME GhostRoute PROVE LifespanInv'
    BY <1>5 DEF GhostRoute
  <1>6. ASSUME ProcessEnds PROVE LifespanInv'
    BY <1>6 DEF ProcessEnds
  <1>7. ASSUME BeginShutdown PROVE LifespanInv'
    BY <1>7 DEF BeginShutdown
  <1>8. ASSUME StopMarket PROVE LifespanInv'
    BY <1>8 DEF StopMarket, StopService, Stopped
  <1>9. ASSUME StopTrainer PROVE LifespanInv'
    BY <1>9 DEF StopTrainer, StopService, Stopped
  <1>10. ASSUME NEW s \in Services, ServiceEnds(s) PROVE LifespanInv'
    BY <1>10 DEF ServiceEnds
  <1> HIDE DEF LifespanInv, Services
  <1> QED BY <1>1, <1>2, <1>3, <1>4, <1>5, <1>6, <1>7, <1>8, <1>9, <1>10 DEF LifespanStep

(* A training begins: it and those that run know of each other.             *)
LEMMA TrainingBegins ==
  ASSUME TrainingInv, NEW w \in Trainings, job[w].pc = "none", job' = WithTraining(w), UNCHANGED <<dataset, model>>
  PROVE  TrainingInv'
  <1>b. PICK b \in BOOLEAN : b = (Training # {}) OBVIOUS
  <1>n. PICK n \in TrainingRecord : n = [pc |-> "begun", data |-> "none", beside |-> b]
    BY DEF TrainingRecord
  <1>0. n.pc = "begun" /\ n.beside = b /\ n.data = "none" BY <1>n
  <1>j. job' = [v \in Trainings |-> IF v = w THEN n
                                  ELSE IF v \in Training THEN [pc |-> job[v].pc, data |-> job[v].data, beside |-> TRUE]
                                  ELSE job[v]]
    BY <1>b, <1>n DEF WithTraining
  <1>1. job' \in [Trainings -> TrainingRecord]
    BY <1>j DEF TrainingInv, TrainingRecord
  <1>2. /\ job'[w].pc = "begun" /\ job'[w].beside = (Training # {})
        /\ \A v \in Trainings \ {w} : /\ job'[v].pc = job[v].pc /\ job'[v].data = job[v].data
                                      /\ job[v].pc # "none" => job'[v].beside
                                      /\ job[v].pc = "none" => job'[v] = job[v]
    BY <1>0, <1>b, <1>j DEF Training
  <1>3. TrainedOnItsOwn' BY DEF TrainingInv, TrainedOnItsOwn
  <1>4. \A v \in Trainings : job[v].pc # "none" => Training # {} BY DEF Training
  <1> QED BY <1>1, <1>2, <1>3, <1>4 DEF TrainingInv

(* A training moves on, or is over.                                         *)
LEMMA TrainingMoves ==
  ASSUME TrainingInv, NEW w \in Trainings, NEW r \in TrainingRecord, job' = [job EXCEPT ![w] = r],
         r.pc # "none" => job[w].pc # "none" /\ r.beside = job[w].beside,
         dataset' \in {dataset, w}, dataset' # dataset => job[w].pc # "none",
         ~r.beside => /\ r.pc = "built" => dataset' = w
                      /\ r.pc = "fitted" => r.data = w,
         TrainedOnItsOwn'
  PROVE  TrainingInv'
  <1>1. job' \in [Trainings -> TrainingRecord] /\ dataset' \in Trainings \cup {"none"} BY DEF TrainingInv
  <1>2. job'[w] = r /\ \A v \in Trainings \ {w} : job'[v] = job[v] BY DEF TrainingInv
  <1>3. ASSUME NEW v \in Trainings, NEW u \in Trainings, v # u, job'[v].pc # "none", job'[u].pc # "none" PROVE job'[v].beside
    BY <1>2, <1>3 DEF TrainingInv
  <1>4. ASSUME NEW v \in Trainings, ~job'[v].beside
        PROVE  /\ job'[v].pc = "built" => dataset' = v
               /\ job'[v].pc = "fitted" => job'[v].data = v
    <2>1. CASE v = w BY <1>2, <1>4, <2>1
    <2>2. CASE v # w BY <1>2, <1>4, <2>2 DEF TrainingInv
    <2> QED BY <2>1, <2>2
  <1> QED BY <1>1, <1>3, <1>4 DEF TrainingInv

LEMMA LoopKeeps ==
  ASSUME LoopInv, TrainingInv, UNCHANGED study,
         \/ study = "lifespan" /\ LifespanStep /\ UNCHANGED job
         \/ study = "training" /\ TrainingStep
  PROVE  LoopInv'
  <1>0. "trainer" \in Services /\ "trainer" \in Trainings /\ \A r \in TrainRequests : r # "trainer"
    BY ServerAssumption DEF Services, Trainings
  <1>1. ASSUME study = "lifespan", LifespanStep, UNCHANGED job PROVE LoopInv'
    <2>1. \A w \in Trainings : job'[w].pc = "none" BY <1>1 DEF LoopInv
    <2>2. thread' \in [Services -> {"none", "listen", "top", "train", "sleep", "wait", "standby", "loop", "ended"}]
      BY <1>1 DEF LoopInv, LifespanStep, StartMarket, StartTrainer, StartMachines, ExecutorStartsTrainer, GhostRoute,
                  ProcessEnds, BeginShutdown, StopMarket, StopTrainer, StopService, ServiceEnds
    <2> QED BY <1>0, <2>1, <2>2 DEF LoopInv
  <1>2. ASSUME study = "training", TrainingStep PROVE LoopInv'
    <2>1. CASE LoopTrains BY <1>0, <1>2, <2>1 DEF LoopTrains, LoopInv
    <2>2. CASE LoopTurns BY <1>0, <1>2, <2>2 DEF LoopTurns, LoopInv, trainingVars
    <2>3. ASSUME UNCHANGED thread, job'["trainer"].pc # "none" => job["trainer"].pc # "none" PROVE LoopInv'
      BY <1>0, <1>2, <2>3 DEF LoopInv
    <2>4. ASSUME NEW r \in TrainRequests, TriggerTraining(r) PROVE LoopInv'
      <3>1. job'["trainer"].pc # "none" => job["trainer"].pc # "none"
        <4>1. CASE UNCHANGED job BY <4>1
        <4>2. CASE job' = WithTraining(r)
          <5>1. job'["trainer"].pc = job["trainer"].pc
            BY <1>0, <4>2 DEF WithTraining
          <5> QED BY <5>1
        <4> QED BY <2>4, <4>1, <4>2 DEF TriggerTraining
      <3> QED BY <2>3, <2>4, <3>1 DEF TriggerTraining, lifespanVars
    <2>5. ASSUME NEW w \in Trainings, BuildDataset(w) \/ FitModel(w) \/ SaveModel(w) \/ TrainingFails(w) PROVE LoopInv'
      <3>1. job \in [Trainings -> TrainingRecord] BY DEF TrainingInv
      <3>2. job'["trainer"].pc # "none" => job["trainer"].pc # "none"
        BY <1>0, <2>5, <3>1 DEF BuildDataset, FitModel, SaveModel, TrainingFails, NoTraining, Training, TrainingRecord
      <3> QED BY <2>3, <2>5, <3>2 DEF BuildDataset, FitModel, SaveModel, TrainingFails, lifespanVars
    <2> QED BY <1>2, <2>1, <2>2, <2>4, <2>5 DEF TrainingStep
  <1> QED BY <1>1, <1>2

LEMMA TrainingKeeps ==
  ASSUME TrainingInv, LoopInv, TrainingStep PROVE TrainingInv'
  <1>t. job \in [Trainings -> TrainingRecord] BY DEF TrainingInv
  <1>o. TrainedOnItsOwn BY DEF TrainingInv
  <1>1. ASSUME LoopTrains PROVE TrainingInv'
    <2>1. job["trainer"].pc = "none" BY <1>1 DEF LoopTrains, LoopInv
    <2>2. "trainer" \in Trainings BY DEF Trainings
    <2> QED BY <1>1, <2>1, <2>2, TrainingBegins DEF LoopTrains
  <1>s. ASSUME UNCHANGED trainingVars PROVE TrainingInv' BY <1>s DEF trainingVars, TrainingInv, TrainedOnItsOwn
  <1>2. ASSUME LoopTurns PROVE TrainingInv' BY <1>2, <1>s DEF LoopTurns
  <1>3. ASSUME NEW r \in TrainRequests, TriggerTraining(r) PROVE TrainingInv'
    <2>1. CASE UNCHANGED job BY <1>3, <1>s, <2>1 DEF TriggerTraining, trainingVars
    <2>2. CASE job' = WithTraining(r)
      <3>1. r \in Trainings BY DEF Trainings
      <3> QED BY <1>3, <2>2, <3>1, TrainingBegins DEF TriggerTraining
    <2> QED BY <1>3, <2>1, <2>2 DEF TriggerTraining
  <1>u. ASSUME UNCHANGED model PROVE TrainedOnItsOwn' BY <1>o, <1>u DEF TrainedOnItsOwn
  <1>4. ASSUME NEW w \in Trainings, BuildDataset(w) PROVE TrainingInv'
    <2>r. PICK r \in TrainingRecord : r = [pc |-> "built", data |-> job[w].data, beside |-> job[w].beside]
      BY <1>t DEF TrainingRecord
    <2>0. job[w] \in TrainingRecord BY <1>t
    <2>1. job' = [job EXCEPT ![w] = r]
      <3>1. [job[w] EXCEPT !.pc = "built"] = r BY <2>0, <2>r DEF TrainingRecord
      <3> QED BY <1>4, <3>1 DEF BuildDataset
    <2>2. job[w].pc = "begun" /\ dataset' = w /\ UNCHANGED model BY <1>4 DEF BuildDataset, DatasetOf
    <2>3. TrainedOnItsOwn' BY <1>u, <2>2
    <2>4. dataset' \in {dataset, w} /\ job[w].pc # "none" BY <2>2
    <2>5. r.pc = "built" /\ r.beside = job[w].beside BY <2>r
    <2> QED BY <2>1, <2>2, <2>3, <2>4, <2>5, TrainingMoves
  <1>5. ASSUME NEW w \in Trainings, FitModel(w) PROVE TrainingInv'
    <2>0. job[w] \in TrainingRecord /\ dataset \in Trainings \cup {"none"} BY <1>t DEF TrainingInv
    <2>r. PICK r \in TrainingRecord : r = [pc |-> "fitted", data |-> dataset, beside |-> job[w].beside]
      BY <2>0 DEF TrainingRecord
    <2>1. job' = [job EXCEPT ![w] = r]
      <3> QED BY <1>5, <2>r DEF FitModel
    <2>2. job[w].pc = "built" /\ dataset' = dataset /\ UNCHANGED model BY <1>5 DEF FitModel
    <2>3. TrainedOnItsOwn' BY <1>u, <2>2
    <2>4. dataset' \in {dataset, w} /\ job[w].pc # "none" BY <2>2
    <2>5. r.pc = "fitted" /\ r.beside = job[w].beside /\ r.data = dataset BY <2>r
    <2>6. ~r.beside => r.data = w BY <2>2, <2>5 DEF TrainingInv
    <2> QED BY <2>1, <2>2, <2>3, <2>4, <2>5, <2>6, TrainingMoves
  <1>n. /\ NoTraining \in TrainingRecord /\ NoTraining.pc = "none"
    BY DEF NoTraining, TrainingRecord
  <1>6. ASSUME NEW w \in Trainings, SaveModel(w) PROVE TrainingInv'
    <2>0. job[w] \in TrainingRecord /\ dataset \in Trainings \cup {"none"} BY <1>t DEF TrainingInv
    <2>1. /\ job[w].pc = "fitted" /\ job' = [job EXCEPT ![w] = NoTraining] /\ dataset' = dataset
          /\ model' = [job[w] EXCEPT !.pc = w]
      BY <1>6 DEF SaveModel
    <2>2. model' = [pc |-> w, data |-> job[w].data, beside |-> job[w].beside] BY <2>0, <2>1 DEF TrainingRecord
    <2>3. ~job[w].beside => job[w].data = w BY <2>1 DEF TrainingInv
    <2>4. TrainedOnItsOwn' BY <2>2, <2>3 DEF TrainedOnItsOwn
    <2>5. dataset' \in {dataset, w} BY <2>1
    <2> QED BY <1>n, <2>1, <2>4, <2>5, TrainingMoves
  <1>7. ASSUME NEW w \in Trainings, TrainingFails(w) PROVE TrainingInv'
    <2>1. job' = [job EXCEPT ![w] = NoTraining] /\ dataset' = dataset /\ UNCHANGED model
      BY <1>7 DEF TrainingFails
    <2>2. TrainedOnItsOwn' BY <1>u, <2>1
    <2>5. dataset' \in {dataset, w} BY <2>1
    <2> QED BY <1>n, <2>1, <2>2, <2>5, TrainingMoves
  <1> QED BY <1>1, <1>2, <1>3, <1>4, <1>5, <1>6, <1>7 DEF TrainingStep

(* The backtests. A run's file is one it may read, its position was not left *)
(* too deep, and its number is the next of the history.                     *)
Trade == [in : Int, out : Int, pnl : Int]
BookRecord ==
  [pc : {"idle", "rows", "done"}, cash : Int, qty : Int, entry : Int, curve : Seq(Int), trades : Seq(Trade),
   wins : Int, losses : Int, pnl : Int, rows : Nat, last : Int, priced : BOOLEAN,
   have : SUBSET Files, source : SUBSET Files]
BookInv ==
  /\ book \in BookRecord /\ runs \in Nat
  /\ LossIsCut /\ AskedIsRead

LEMMA BoughtTyped ==
  ASSUME book \in BookRecord, NEW close \in Int, close > 0
  PROVE  BoughtAt(close) \in BookRecord /\ BoughtAt(close).entry = close
         /\ BoughtAt(close).have = book.have /\ BoughtAt(close).source = book.source /\ BoughtAt(close).pc = book.pc
  <1>1. (book.cash * 95) \div (100 * close) \in Int /\ book.cash \div 20 \in Int BY DEF BookRecord
  <1>2. PICK q \in Int : q = (book.cash * 95) \div (100 * close) BY <1>1
  <1>3. PICK c \in Int : c = book.cash \div 20 BY <1>1
  <1>4. PICK t \in Trade : t = [NoTrade EXCEPT !.in = close]
    <2>0. NoTrade \in Trade BY DEF NoTrade, Trade
    <2>1. PICK z \in Trade : z = NoTrade BY <2>0
    <2>2. [z EXCEPT !.in = close] \in Trade BY DEF Trade
    <2> QED BY <2>1, <2>2
  <1>5. PICK ts \in Seq(Trade) : ts = Append(book.trades, t)
    <2>1. book.trades \in Seq(Trade) BY DEF BookRecord
    <2> QED BY <2>1, AppendProperties
  <1>6. BoughtAt(close) = [book EXCEPT !.qty = q, !.entry = close, !.cash = c, !.trades = ts]
    BY <1>2, <1>3, <1>4, <1>5 DEF BoughtAt, BookRecord
  <1> QED BY <1>6 DEF BookRecord

LEMMA SoldTyped ==
  ASSUME NEW b \in BookRecord, NEW close \in Int
  PROVE  SoldAt(b, close) \in BookRecord /\ SoldAt(b, close).qty = 0
         /\ SoldAt(b, close).have = b.have /\ SoldAt(b, close).source = b.source /\ SoldAt(b, close).pc = b.pc
  <1>1. PICK gain \in Int : gain = (close - b.entry) * b.qty BY DEF BookRecord
  <1>2. PICK cash \in Int : cash = b.cash + b.qty * close BY DEF BookRecord
  <1>3. PICK wins \in Int : wins = IF gain > 0 THEN b.wins + 1 ELSE b.wins BY DEF BookRecord
  <1>4. PICK losses \in Int : losses = IF gain > 0 THEN b.losses ELSE b.losses + 1 BY DEF BookRecord
  <1>5. PICK pnl \in Int : pnl = b.pnl + gain BY DEF BookRecord
  <1>6. b.trades \in Seq(Trade) BY DEF BookRecord
  <1>7. PICK ts \in Seq(Trade) : ts = [b.trades EXCEPT ![Len(b.trades)] = [@ EXCEPT !.out = close, !.pnl = gain]]
    <2>1. CASE b.trades = <<>>
      <3>1. [b.trades EXCEPT ![Len(b.trades)] = [@ EXCEPT !.out = close, !.pnl = gain]] = b.trades BY <2>1
      <3> QED BY <1>6, <3>1
    <2>2. CASE b.trades # <<>>
      <3>1. PICK n \in DOMAIN b.trades : n = Len(b.trades) BY <1>6, <2>2
      <3>2. PICK t \in Trade : t = b.trades[n] BY <1>6, <3>1
      <3>3. PICK u \in Trade : u = [t EXCEPT !.out = close, !.pnl = gain] BY DEF Trade
      <3>4. [b.trades EXCEPT ![n] = u] \in Seq(Trade) BY <1>6, <3>1
      <3>5. [b.trades EXCEPT ![Len(b.trades)] = [@ EXCEPT !.out = close, !.pnl = gain]] = [b.trades EXCEPT ![n] = u]
        BY <3>1, <3>2, <3>3
      <3> QED BY <3>4, <3>5
    <2> QED BY <2>1, <2>2
  <1>8. SoldAt(b, close) = [b EXCEPT !.cash = cash, !.qty = 0, !.entry = 0, !.wins = wins, !.losses = losses,
                                     !.pnl = pnl, !.trades = ts]
    BY <1>1, <1>2, <1>3, <1>4, <1>5, <1>7 DEF SoldAt, BookRecord
  <1>z. PICK z \in Int : z = 0 OBVIOUS
  <1>9. PICK c \in BookRecord : c = [b EXCEPT !.cash = cash, !.qty = z, !.entry = z] BY DEF BookRecord
  <1>10. PICK d \in BookRecord : d = [c EXCEPT !.wins = wins, !.losses = losses, !.pnl = pnl] BY DEF BookRecord
  <1>11. PICK e \in BookRecord : e = [d EXCEPT !.trades = ts] BY DEF BookRecord
  <1>12. SoldAt(b, close) = e BY <1>z, <1>8, <1>9, <1>10, <1>11
  <1>13. c.qty = 0 /\ c.have = b.have /\ c.source = b.source /\ c.pc = b.pc BY <1>z, <1>9 DEF BookRecord
  <1>14. d.qty = 0 /\ d.have = b.have /\ d.source = b.source /\ d.pc = b.pc BY <1>10, <1>13 DEF BookRecord
  <1>15. e.qty = 0 /\ e.have = b.have /\ e.source = b.source /\ e.pc = b.pc BY <1>11, <1>14 DEF BookRecord
  <1> QED BY <1>12, <1>15

(* Which file is read: one there is, of the asked timeframe if there is one. *)
LEMMA ReadsTheAsked ==
  ASSUME NEW have \in SUBSET Files, NEW f \in Resolved(have)
  PROVE  f \in have /\ (f[1] # AskedFrame => \A g \in have : g[1] # AskedFrame)
  <1>s. PICK sets : sets = <<have \cap {<<AskedFrame, "features">>}, have \cap {<<AskedFrame, "plain">>},
                           {g \in have : g[2] = "features"}, have>>
    OBVIOUS
  <1>F. PICK found : found = {i \in DOMAIN sets : sets[i] # {}} OBVIOUS
  <1>1. DOMAIN sets = 1 .. 4 BY <1>s
  <1>2. Resolved(have) = IF found = {} THEN {} ELSE sets[Min(found)] BY <1>s, <1>F DEF Resolved, FirstFound
  <1>3. found # {} /\ f \in sets[Min(found)] BY <1>2
  <1>4. PICK m \in found : \A k \in found : m <= k
    <2>1. found \in SUBSET (1 .. 4) BY <1>F, <1>1
    <2>2. CASE 1 \in found BY <2>1, <2>2
    <2>3. CASE 1 \notin found /\ 2 \in found BY <2>1, <2>3
    <2>4. CASE 1 \notin found /\ 2 \notin found /\ 3 \in found BY <2>1, <2>4
    <2>5. CASE 1 \notin found /\ 2 \notin found /\ 3 \notin found
      <3>1. PICK k \in found : TRUE BY <1>3
      <3>2. \A j \in found : j = 4 BY <2>1, <2>5
      <3> QED BY <3>1, <3>2
    <2> QED BY <2>2, <2>3, <2>4, <2>5
  <1>5. PICK n \in found : n = Min(found) /\ \A k \in found : n <= k BY <1>4 DEF Min
  <1>6. n \in 1 .. 4 /\ f \in sets[n] BY <1>F, <1>1, <1>3, <1>5
  <1>7. \A i \in 1 .. 4 : sets[i] \subseteq have BY <1>s
  <1>8. ASSUME f[1] # AskedFrame, NEW g \in have, g[1] = AskedFrame PROVE FALSE
    <2>1. g = <<AskedFrame, "features">> \/ g = <<AskedFrame, "plain">> BY <1>8 DEF Files
    <2>2. 1 \in found \/ 2 \in found BY <1>F, <1>1, <1>s, <2>1
    <2>3. n \in {1, 2} BY <1>5, <1>6, <2>2
    <2> QED BY <1>6, <1>s, <1>8, <2>3
  <1> QED BY <1>6, <1>7, <1>8

LEMMA NewBookTyped == NewBook \in BookRecord /\ NewBook.qty = 0 /\ NewBook.source = {}
  <1>1. InitialBalance \in Int /\ <<InitialBalance>> \in Seq(Int) BY ServerAssumption
  <1> QED BY <1>1 DEF NewBook, BookRecord

LEMMA BacktestBegins ==
  ASSUME BookInv, NEW have \in FilesBound, BeginBacktest(have) PROVE BookInv'
  <1>1. have \in SUBSET Files
    <2>1. AskedFrame \in Frames BY ServerAssumption DEF AskedFrame
    <2> QED BY <2>1 DEF FilesBound, Files
  <1>2. ASSUME UNCHANGED <<book, runs>> PROVE BookInv' BY <1>2 DEF BookInv, LossIsCut, AskedIsRead
  <1>3. ASSUME NEW f \in Resolved(have), runs' = runs + 1,
               book' = [NewBook EXCEPT !.pc = "rows", !.have = have, !.source = {f}]
        PROVE  BookInv'
    <2>1. f \in have /\ (f[1] # AskedFrame => \A g \in have : g[1] # AskedFrame) BY <1>1, ReadsTheAsked
    <2>2. PICK b \in BookRecord : b = NewBook /\ b.qty = 0 BY NewBookTyped
    <2>3. PICK so \in SUBSET Files : so = {f} BY <1>1, <2>1
    <2>4. PICK pc \in {"idle", "rows", "done"} : pc = "rows" OBVIOUS
    <2>5. book' = [b EXCEPT !.pc = pc, !.have = have, !.source = so] BY <1>3, <2>2, <2>3, <2>4
    <2>6. book' \in BookRecord /\ book'.qty = 0 /\ book'.have = have /\ book'.source = so
      BY <1>1, <2>2, <2>5 DEF BookRecord
    <2>7. LossIsCut' BY <2>6 DEF LossIsCut
    <2>8. AskedIsRead' BY <2>1, <2>3, <2>6 DEF AskedIsRead
    <2> QED BY <1>3, <2>6, <2>7, <2>8 DEF BookInv
  <1> QED BY <1>2, <1>3 DEF BeginBacktest

LEMMA RowsAreRead ==
  ASSUME BookInv, NEW close \in Closes, NEW rsi \in Int, NEW macd \in Int, NEW readable \in BOOLEAN,
         ReadRow(close, rsi, macd, readable)
  PROVE  BookInv'
  <1>b. book \in BookRecord BY DEF BookInv
  <1>c. close \in Int /\ book.entry \in Int BY <1>b, ServerAssumption DEF BookRecord
  <1>p. PICK priced \in BOOLEAN : priced = (readable /\ close # NoNumber /\ close > 0) OBVIOUS
  <1>a. PICK after : after = IF priced THEN Traded(Signal(close, rsi, macd), close) ELSE book OBVIOUS
  <1>1. /\ after \in BookRecord /\ after.have = book.have /\ after.source = book.source /\ after.pc = book.pc
        /\ priced => (after.qty > 0 => close * 100 >= after.entry * 97)
    <2>1. CASE ~priced BY <1>a, <1>b, <2>1
    <2>2. CASE priced /\ Signal(close, rsi, macd) = "buy"
      <3>1. after = BoughtAt(close) /\ close > 0 BY <1>a, <1>p, <2>2 DEF Traded
      <3>2. after.entry = close BY <1>b, <1>c, <3>1, BoughtTyped
      <3>3. close * 100 >= close * 97 BY <1>c, <3>1
      <3> QED BY <1>b, <1>c, <3>1, <3>2, <3>3, BoughtTyped
    <2>3. CASE priced /\ Signal(close, rsi, macd) = "sell"
      <3>1. after = SoldAt(book, close) BY <1>a, <2>3 DEF Traded
      <3>2. PICK b \in BookRecord : b = book BY <1>b
      <3>3. /\ SoldAt(b, close) \in BookRecord /\ SoldAt(b, close).qty = 0 /\ SoldAt(b, close).have = b.have
            /\ SoldAt(b, close).source = b.source /\ SoldAt(b, close).pc = b.pc
        BY <1>c, SoldTyped
      <3> QED BY <3>1, <3>2, <3>3
    <2>4. CASE priced /\ Signal(close, rsi, macd) = "hold"
      <3>1. after = book BY <1>a, <2>4 DEF Traded
      <3>2. book.qty > 0 => ~(close * 100 < book.entry * 97) BY <1>b, <2>4 DEF Signal, BookRecord
      <3> QED BY <1>b, <1>c, <3>1, <3>2
    <2>5. Signal(close, rsi, macd) \in {"buy", "sell", "hold"} BY DEF Signal
    <2> QED BY <2>1, <2>2, <2>3, <2>4, <2>5
  <1>2. PICK r \in Nat : r = after.rows + 1 BY <1>1 DEF BookRecord
  <1>3. PICK cu \in Seq(Int) : cu = IF priced THEN Append(after.curve, after.cash + after.qty * close) ELSE after.curve
    <2>1. after.cash + after.qty * close \in Int /\ after.curve \in Seq(Int) BY <1>1, <1>c DEF BookRecord
    <2>2. Append(after.curve, after.cash + after.qty * close) \in Seq(Int) BY <2>1, AppendProperties
    <2> QED BY <2>1, <2>2
  <1>4. book' = [after EXCEPT !.rows = r, !.last = close, !.priced = priced, !.curve = cu]
    BY <1>p, <1>a, <1>2, <1>3 DEF ReadRow
  <1>5. /\ book' \in BookRecord /\ book'.have = after.have /\ book'.source = after.source /\ book'.qty = after.qty
        /\ book'.entry = after.entry /\ book'.priced = priced /\ book'.last = close /\ book'.pc = after.pc
    BY <1>1, <1>c, <1>4 DEF BookRecord
  <1>6. LossIsCut' BY <1>1, <1>5 DEF LossIsCut
  <1>7. AskedIsRead' BY <1>1, <1>5 DEF AskedIsRead, BookInv
  <1> QED BY <1>5, <1>6, <1>7 DEF BookInv, ReadRow

LEMMA ClosedOutTyped ==
  ASSUME book \in BookRecord
  PROVE  ClosedOut \in BookRecord /\ ClosedOut.qty = 0 /\ ClosedOut.have = book.have /\ ClosedOut.source = book.source
  <1>1. CASE book.qty = 0 BY <1>1 DEF ClosedOut
  <1>2. CASE book.qty # 0
    <2>0. book.last \in Int BY DEF BookRecord
    <2>1. PICK b \in BookRecord : /\ b = SoldAt(book, book.last) /\ b.qty = 0 /\ b.have = book.have
                                  /\ b.source = book.source
      BY <2>0, SoldTyped
    <2>2. PICK cu \in Seq(Int) : cu = Append(b.curve, b.cash)
      <3>1. b.curve \in Seq(Int) /\ b.cash \in Int BY DEF BookRecord
      <3> QED BY <3>1, AppendProperties
    <2>3. ClosedOut = [b EXCEPT !.curve = cu] BY <1>2, <2>1, <2>2 DEF ClosedOut
    <2> QED BY <2>1, <2>3 DEF BookRecord
  <1> QED BY <1>1, <1>2

LEMMA BacktestEnds ==
  ASSUME BookInv, NEW save \in {"kept", "refused", "torn", "crash"}, EndBacktest(save)
  PROVE  BookInv' /\ book'.pc # "rows"
  <1>b. book \in BookRecord /\ runs' = runs BY DEF BookInv, EndBacktest
  <1>1. CASE book' = NewBook
    <2>1. book' \in BookRecord /\ book'.qty = 0 /\ book'.source = {} BY <1>1, NewBookTyped
    <2>2. LossIsCut' /\ AskedIsRead' BY <2>1 DEF LossIsCut, AskedIsRead
    <2>3. book'.pc = "idle" BY <1>1 DEF NewBook
    <2> QED BY <1>b, <2>1, <2>2, <2>3 DEF BookInv
  <1>2. CASE book' = [ClosedOut EXCEPT !.pc = "done"]
    <2>1. PICK b \in BookRecord : b = ClosedOut /\ b.qty = 0 /\ b.have = book.have /\ b.source = book.source
      BY <1>b, ClosedOutTyped
    <2>2. PICK pc \in {"idle", "rows", "done"} : pc = "done" OBVIOUS
    <2>3. book' = [b EXCEPT !.pc = pc] BY <1>2, <2>1, <2>2
    <2>4. book' \in BookRecord /\ book'.qty = 0 /\ book'.have = book.have /\ book'.source = book.source /\ book'.pc = pc
      BY <2>1, <2>3 DEF BookRecord
    <2>5. LossIsCut' BY <2>4 DEF LossIsCut
    <2>6. AskedIsRead' BY <2>4 DEF AskedIsRead, BookInv
    <2> QED BY <1>b, <2>2, <2>4, <2>5, <2>6 DEF BookInv
  <1> QED BY <1>1, <1>2 DEF EndBacktest

(* The history: the runs it lists are older than one that is being made.    *)
HistoryInv ==
  /\ history \in [torn : BOOLEAN, runs : Seq(Nat), saved : Nat] /\ runs \in Nat
  /\ \A i \in DOMAIN history.runs : history.runs[i] <= runs /\ (book.pc = "rows" => history.runs[i] < runs)
  /\ NewestFirst

(* The stream of a chart: its timeframe is the one asked for last, of what  *)
(* was heard.                                                               *)
Candle == [frame : Frames, heard : Nat]
ViewerTyped ==
  viewer \in [pc : {"idle", "wait", "fetch"}, frame : Frames \cup {"none"}, asked : Seq(Frames \cup {"ping"}),
             heard : Nat, sent : Seq(Candle)]
ViewerInv ==
  /\ ViewerTyped
  /\ viewer.heard <= Len(viewer.asked)
  /\ viewer.pc # "idle" => viewer.frame \in Frames /\ AskedLast(viewer.asked, viewer.frame, viewer.heard)
  /\ \A i \in DOMAIN viewer.sent : viewer.sent[i].heard <= viewer.heard
  /\ FramesFollow

LEMMA HistoryBegins ==
  ASSUME HistoryInv, NEW have, BeginBacktest(have) PROVE HistoryInv'
  <1>1. history' = history /\ NewestFirst' BY DEF BeginBacktest, HistoryInv, NewestFirst
  <1>2. runs \in Nat /\ \A i \in DOMAIN history.runs : history.runs[i] \in Nat BY DEF HistoryInv
  <1>3. book.pc # "rows" BY DEF BeginBacktest
  <1>4. CASE UNCHANGED <<book, runs>> BY <1>1, <1>4 DEF HistoryInv
  <1>5. CASE runs' = runs + 1
    <2>1. \A i \in DOMAIN history.runs : history.runs[i] < runs + 1 BY <1>2 DEF HistoryInv
    <2> QED BY <1>1, <1>2, <1>5, <2>1 DEF HistoryInv
  <1> QED BY <1>4, <1>5 DEF BeginBacktest

(* A run saved comes before the ones that were listed.                      *)
LEMMA HistoryGrows ==
  ASSUME HistoryInv, book.pc = "rows", book'.pc # "rows", UNCHANGED runs,
         history' = [torn |-> FALSE, runs |-> WithRun(LoadedRuns), saved |-> runs]
  PROVE  HistoryInv'
  <1>h. history \in [torn : BOOLEAN, runs : Seq(Nat), saved : Nat] /\ runs \in Nat BY DEF HistoryInv
  <1>s. PICK s \in Seq(Nat) : s = LoadedRuns
    <2>1. history.runs \in Seq(Nat) /\ <<>> \in Seq(Nat) BY <1>h
    <2> QED BY <2>1 DEF LoadedRuns
  <1>1. /\ \A i \in DOMAIN s : s[i] < runs
        /\ \A i \in 2 .. Len(s) : s[i] < s[i - 1]
    BY <1>h, <1>s DEF HistoryInv, NewestFirst, LoadedRuns
  <1>t. PICK t \in Seq(Nat) : t = <<runs>> \o s
    <2>1. <<runs>> \in Seq(Nat) BY <1>h
    <2> QED BY <2>1, ConcatProperties
  <1>2. Len(t) = Len(s) + 1 /\ t[1] = runs /\ \A i \in 2 .. Len(t) : t[i] = s[i - 1]
    BY <1>h, <1>t
  <1>3. \A i \in 2 .. Len(t) : t[i] < t[i - 1]
    <2> TAKE i \in 2 .. Len(t)
    <2>1. CASE i = 2 BY <1>1, <1>2, <2>1
    <2>2. CASE i > 2
      <3>1. i - 1 \in 2 .. Len(s) /\ i - 1 \in 2 .. Len(t) BY <1>2, <2>2
      <3>2. t[i] = s[i - 1] /\ t[i - 1] = s[(i - 1) - 1] BY <1>2, <3>1
      <3> QED BY <1>1, <3>1, <3>2
    <2> QED BY <2>1, <2>2
  <1>4. \A i \in 1 .. Len(t) : t[i] <= runs
    <2> TAKE i \in 1 .. Len(t)
    <2>1. CASE i = 1 BY <1>h, <1>2, <2>1
    <2>2. CASE i > 1
      <3>1. i \in 2 .. Len(t) /\ i - 1 \in DOMAIN s BY <1>2, <2>2
      <3>2. t[i] = s[i - 1] /\ s[i - 1] < runs /\ s[i - 1] \in Nat BY <1>1, <1>2, <3>1
      <3> QED BY <1>h, <3>2
    <2> QED BY <2>1, <2>2
  <1>n. PICK n \in 1 .. Len(t) : n = (IF Len(t) < KeptRuns THEN Len(t) ELSE KeptRuns) /\ n <= KeptRuns
    <2>1. Len(t) \in Nat /\ Len(t) >= 1 BY <1>2
    <2> QED BY <2>1, ServerAssumption
  <1>5. WithRun(LoadedRuns) = SubSeq(t, 1, n) BY <1>s, <1>t, <1>n DEF WithRun, FirstOf
  <1>q. PICK q \in Seq(Nat) : q = SubSeq(t, 1, n) /\ Len(q) = n /\ \A i \in 1 .. n : q[i] = t[i]
    <2>1. \A i \in 1 .. n : t[i] \in Nat BY <1>2
    <2>2. SubSeq(t, 1, n) \in Seq(Nat) /\ Len(SubSeq(t, 1, n)) = n BY <2>1, SubSeqProperties
    <2>3. \A i \in 1 .. n : SubSeq(t, 1, n)[i] = t[i] BY <2>1, SubSeqProperties
    <2> QED BY <2>2, <2>3
  <1>6. n \in Nat /\ n <= Len(t) BY <1>n, <1>2
  <1>7. \A i \in 2 .. n : q[i] < q[i - 1]
    <2> TAKE i \in 2 .. n
    <2>1. i \in 2 .. Len(t) /\ i \in 1 .. n /\ i - 1 \in 1 .. n BY <1>6, <1>2
    <2> QED BY <1>3, <1>q, <2>1
  <1>8. history'.runs = q /\ history'.saved = runs /\ history' \in [torn : BOOLEAN, runs : Seq(Nat), saved : Nat]
    BY <1>h, <1>5, <1>q
  <1>9. NewestFirst'
    <2>1. q[1] = runs BY <1>2, <1>q
    <2>2. Len(q) <= KeptRuns /\ \A i \in 2 .. Len(q) : q[i] < q[i - 1] BY <1>n, <1>q, <1>7
    <2> QED BY <1>8, <2>1, <2>2 DEF NewestFirst
  <1>10. \A i \in DOMAIN q : q[i] <= runs BY <1>4, <1>6, <1>q, <1>2
  <1> QED BY <1>h, <1>8, <1>9, <1>10 DEF HistoryInv

LEMMA HistoryEnds ==
  ASSUME HistoryInv, NEW save, EndBacktest(save), book'.pc # "rows" PROVE HistoryInv'
  <1>h. history \in [torn : BOOLEAN, runs : Seq(Nat), saved : Nat] /\ runs \in Nat BY DEF HistoryInv
  <1>0. book.pc = "rows" /\ runs' = runs BY DEF EndBacktest
  <1>1. CASE history' = history BY <1>0, <1>1 DEF HistoryInv, NewestFirst
  <1>2. CASE history' = [torn |-> TRUE, runs |-> <<>>, saved |-> 0]
    BY <1>h, <1>0, <1>2, ServerAssumption DEF HistoryInv, NewestFirst
  <1>3. CASE history' = [torn |-> FALSE, runs |-> WithRun(LoadedRuns), saved |-> runs]
    BY <1>0, <1>3, HistoryGrows
  <1> QED BY <1>1, <1>2, <1>3 DEF EndBacktest

LEMMA AskedLastSame ==
  ASSUME NEW a, NEW b, NEW frame, NEW heard \in Nat, AskedLast(a, frame, heard), \A k \in 1 .. heard : b[k] = a[k]
  PROVE  AskedLast(b, frame, heard)
  <1>1. PICK k \in 1 .. heard : a[k] = frame /\ \A j \in k + 1 .. heard : a[j] = "ping" BY DEF AskedLast
  <1>2. \A j \in k + 1 .. heard : j \in 1 .. heard OBVIOUS
  <1> QED BY <1>1, <1>2 DEF AskedLast

(* A viewer whose questions grow, of whom the server may hear one more.     *)
LEMMA ViewerMoves ==
  ASSUME ViewerInv, ViewerTyped', viewer'.heard <= Len(viewer'.asked), viewer'.heard >= viewer.heard,
         \A k \in 1 .. Len(viewer.asked) : viewer'.asked[k] = viewer.asked[k],
         viewer'.frame \in Frames, AskedLast(viewer'.asked, viewer'.frame, viewer'.heard),
         \/ viewer'.sent = viewer.sent
         \/ viewer'.sent = Append(viewer.sent, [frame |-> viewer'.frame, heard |-> viewer'.heard])
  PROVE  ViewerInv'
  <1>s. PICK s \in Seq(Candle) : s = viewer.sent BY DEF ViewerInv, ViewerTyped
  <1>q. PICK q \in Seq(Candle) : q = viewer'.sent BY DEF ViewerTyped
  <1>h. PICK h \in Nat : h = viewer'.heard BY DEF ViewerTyped
  <1>t. viewer.heard \in Nat /\ Len(viewer.asked) \in Nat /\ viewer.heard <= h /\ viewer.heard <= Len(viewer.asked)
    BY <1>h DEF ViewerInv, ViewerTyped
  <1>1. ASSUME NEW i \in DOMAIN s
        PROVE  /\ AskedLast(viewer'.asked, s[i].frame, s[i].heard)
               /\ s[i].heard <= h
               /\ i > 1 => s[i].heard >= s[i - 1].heard
    <2>0. s[i] \in Candle /\ s[i].heard <= viewer.heard BY <1>s DEF ViewerInv
    <2>1. s[i].heard \in Nat /\ s[i].heard <= h BY <1>t, <2>0 DEF Candle
    <2>2. i \in 1 .. Len(viewer.sent) BY <1>s
    <2>3. AskedLast(viewer.asked, s[i].frame, s[i].heard) /\ (i > 1 => s[i].heard >= s[i - 1].heard)
      BY <1>s, <2>2 DEF ViewerInv, FramesFollow
    <2>4. \A k \in 1 .. s[i].heard : viewer'.asked[k] = viewer.asked[k] BY <1>t, <2>0, <2>1
    <2>5. AskedLast(viewer'.asked, s[i].frame, s[i].heard) BY <2>1, <2>3, <2>4, AskedLastSame
    <2> QED BY <2>1, <2>3, <2>5
  <1>2. ASSUME \A i \in DOMAIN q : /\ AskedLast(viewer'.asked, q[i].frame, q[i].heard) /\ q[i].heard <= h
                                   /\ i > 1 => q[i].heard >= q[i - 1].heard
        PROVE  ViewerInv'
    <2>0. \A i \in 1 .. Len(q) : i \in DOMAIN q OBVIOUS
    <2>1. \A i \in 1 .. Len(q) : /\ AskedLast(viewer'.asked, q[i].frame, q[i].heard)
                                 /\ i > 1 => q[i].heard >= q[i - 1].heard
      BY <1>2, <2>0
    <2>3. FramesFollow' BY <2>1, <1>q DEF FramesFollow
    <2>4. \A i \in DOMAIN q : q[i].heard <= h BY <1>2
    <2>2. \A i \in DOMAIN viewer'.sent : viewer'.sent[i].heard <= viewer'.heard BY <2>4, <1>q, <1>h
    <2> QED BY <2>2, <2>3 DEF ViewerInv
  <1>3. CASE q = s BY <1>1, <1>2, <1>3
  <1>4. CASE q = Append(s, [frame |-> viewer'.frame, heard |-> h])
    <2>f. PICK f \in Frames : f = viewer'.frame OBVIOUS
    <2>d. PICK c \in Candle : c = [frame |-> f, heard |-> h] BY DEF Candle
    <2>c. c = [frame |-> viewer'.frame, heard |-> h] /\ c.frame = viewer'.frame /\ c.heard = h BY <2>f, <2>d
    <2>1. Len(q) = Len(s) + 1 /\ q[Len(s) + 1] = c /\ \A i \in 1 .. Len(s) : q[i] = s[i] BY <1>4, <2>c, AppendProperties
    <2> SUFFICES ASSUME NEW i \in DOMAIN q
                 PROVE  /\ AskedLast(viewer'.asked, q[i].frame, q[i].heard) /\ q[i].heard <= h
                        /\ i > 1 => q[i].heard >= q[i - 1].heard
      BY <1>2
    <2>2. CASE i \in 1 .. Len(s)
      <3>1. q[i] = s[i] /\ (i > 1 => q[i - 1] = s[i - 1]) BY <2>1, <2>2
      <3> QED BY <1>1, <2>2, <3>1
    <2>3. CASE i = Len(s) + 1
      <3>1. q[i] = c BY <2>1, <2>3
      <3>2. AskedLast(viewer'.asked, q[i].frame, q[i].heard) BY <1>h, <2>c, <3>1
      <3>3. i > 1 => q[i].heard >= q[i - 1].heard
        <4>1. i > 1 => i - 1 \in DOMAIN s /\ q[i - 1] = s[i - 1] BY <2>1, <2>3
        <4> QED BY <1>1, <2>c, <3>1, <4>1
      <3> QED BY <1>h, <2>c, <3>1, <3>2, <3>3
    <2> QED BY <2>1, <2>2, <2>3
  <1> QED BY <1>s, <1>q, <1>h, <1>3, <1>4

LEMMA ViewerKeeps == ASSUME ViewerInv, ChartStep PROVE ViewerInv'
  <1>t. ViewerTyped /\ viewer.heard <= Len(viewer.asked) BY DEF ViewerInv
  <1>p. "ping" \notin Frames BY ServerAssumption
  <1>i. ASSUME viewer.pc # "idle" PROVE viewer.frame \in Frames /\ AskedLast(viewer.asked, viewer.frame, viewer.heard)
    BY <1>i DEF ViewerInv
  <1>1. ASSUME NEW frame \in Frames, OpenChart(frame) PROVE ViewerInv'
    <2>1. PICK c \in Candle : c = [frame |-> frame, heard |-> 1] BY DEF Candle
    <2>2. viewer' = [pc |-> "wait", frame |-> frame, asked |-> <<frame>>, heard |-> 1, sent |-> <<c>>]
      BY <1>1, <2>1 DEF OpenChart
    <2>3. ViewerTyped' BY <2>2 DEF ViewerTyped
    <2>4. AskedLast(<<frame>>, frame, 1)
      <3>1. 1 \in 1 .. 1 /\ <<frame>>[1] = frame /\ (1 + 1) .. 1 = {} /\ frame # "ping" BY <1>p
      <3> QED BY <3>1 DEF AskedLast
    <2>5. FramesFollow' BY <2>1, <2>2, <2>4 DEF FramesFollow
    <2> QED BY <2>1, <2>2, <2>3, <2>4, <2>5 DEF ViewerInv
  <1>2. ASSUME NEW message \in Frames \cup {"ping"}, AskViewer(message) PROVE ViewerInv'
    <2>1. PICK asked \in Seq(Frames \cup {"ping"}) :
            asked = Append(viewer.asked, message) /\ Len(asked) = Len(viewer.asked) + 1
            /\ \A k \in 1 .. Len(viewer.asked) : asked[k] = viewer.asked[k]
      <3>1. viewer.asked \in Seq(Frames \cup {"ping"}) BY <1>t DEF ViewerTyped
      <3>2. /\ Append(viewer.asked, message) \in Seq(Frames \cup {"ping"})
            /\ Len(Append(viewer.asked, message)) = Len(viewer.asked) + 1
            /\ \A k \in 1 .. Len(viewer.asked) : Append(viewer.asked, message)[k] = viewer.asked[k]
        BY <3>1, AppendProperties
      <3> QED BY <3>2
    <2>2. viewer' = [viewer EXCEPT !.asked = asked] BY <1>2, <2>1 DEF AskViewer
    <2>3. ViewerTyped' /\ viewer'.asked = asked /\ viewer'.heard = viewer.heard /\ viewer'.frame = viewer.frame
          /\ viewer'.sent = viewer.sent
      BY <1>t, <2>2 DEF ViewerTyped
    <2>4. viewer.heard \in Nat /\ Len(viewer.asked) \in Nat BY <1>t DEF ViewerTyped
    <2>5. viewer.frame \in Frames /\ AskedLast(viewer.asked, viewer.frame, viewer.heard) BY <1>2, <1>i DEF AskViewer
    <2>6. \A k \in 1 .. viewer.heard : asked[k] = viewer.asked[k] BY <1>t, <2>1, <2>4
    <2>7. AskedLast(asked, viewer.frame, viewer.heard) BY <2>4, <2>5, <2>6 DEF AskedLast
    <2>8. viewer'.heard <= Len(viewer'.asked) /\ viewer'.heard >= viewer.heard BY <1>t, <2>1, <2>3, <2>4
    <2> QED BY <2>1, <2>3, <2>5, <2>7, <2>8, ViewerMoves
  <1>3. ASSUME HearViewer PROVE ViewerInv'
    <2>h. PICK h \in Nat : h = viewer.heard + 1 /\ h <= Len(viewer.asked) /\ h > viewer.heard
      BY <1>3, <1>t DEF HearViewer, ViewerTyped
    <2>m. PICK message \in Frames \cup {"ping"} : message = viewer.asked[h] BY <1>t, <2>h DEF ViewerTyped
    <2>f. PICK frame \in Frames : frame = IF message = "ping" THEN viewer.frame ELSE message BY <1>3, <1>i DEF HearViewer
    <2>p. PICK pc \in {"idle", "wait", "fetch"} : pc = IF message = "ping" THEN "wait" ELSE "fetch" OBVIOUS
    <2>2. viewer' = [viewer EXCEPT !.heard = h, !.pc = pc, !.frame = frame]
      BY <1>3, <1>t, <2>h, <2>m, <2>f, <2>p DEF HearViewer, HeardMessage, ViewerTyped
    <2>3. ViewerTyped' /\ viewer'.asked = viewer.asked /\ viewer'.heard = h /\ viewer'.frame = frame
          /\ viewer'.sent = viewer.sent
      BY <1>t, <2>2 DEF ViewerTyped
    <2>4. AskedLast(viewer.asked, frame, h)
      <3>1. CASE message = "ping"
        <4>1. AskedLast(viewer.asked, viewer.frame, viewer.heard) BY <1>3, <1>i DEF HearViewer
        <4>2. PICK k \in 1 .. viewer.heard :
                viewer.asked[k] = frame /\ \A j \in k + 1 .. viewer.heard : viewer.asked[j] = "ping"
          BY <2>f, <3>1, <4>1 DEF AskedLast
        <4>3. viewer.heard \in Nat BY <1>t DEF ViewerTyped
        <4>5. k \in 1 .. h /\ viewer.asked[h] = "ping" BY <2>h, <2>m, <3>1, <4>3
        <4>6. \A j \in k + 1 .. h : j \in k + 1 .. viewer.heard \/ j = h BY <2>h, <4>3
        <4>4. k \in 1 .. h /\ \A j \in k + 1 .. h : viewer.asked[j] = "ping" BY <4>2, <4>5, <4>6
        <4> QED BY <1>p, <4>2, <4>4 DEF AskedLast
      <3>2. CASE message # "ping"
        <4>1. h \in 1 .. h /\ h + 1 .. h = {} /\ viewer.asked[h] = frame
          <5>1. viewer.heard \in Nat BY <1>t DEF ViewerTyped
          <5> QED BY <2>h, <2>m, <2>f, <3>2, <5>1
        <4> QED BY <1>p, <4>1 DEF AskedLast
      <3> QED BY <3>1, <3>2
    <2>5. viewer'.heard <= Len(viewer'.asked) /\ viewer'.heard >= viewer.heard
      <3>1. viewer.heard \in Nat BY <1>t DEF ViewerTyped
      <3> QED BY <2>h, <2>3, <3>1
    <2> QED BY <2>3, <2>4, <2>5, ViewerMoves
  <1>s. ASSUME viewer.pc # "idle", NEW pc \in {"idle", "wait", "fetch"}, NEW sent \in Seq(Candle),
               viewer' = [viewer EXCEPT !.pc = pc, !.sent = sent],
               sent = viewer.sent \/ sent = Append(viewer.sent, [frame |-> viewer.frame, heard |-> viewer.heard])
        PROVE  ViewerInv'
    <2>3. ViewerTyped' /\ viewer'.asked = viewer.asked /\ viewer'.heard = viewer.heard /\ viewer'.frame = viewer.frame
          /\ viewer'.sent = sent
      BY <1>t, <1>s DEF ViewerTyped
    <2>4. viewer.heard \in Nat BY <1>t DEF ViewerTyped
    <2>5. viewer'.heard <= Len(viewer'.asked) /\ viewer'.heard >= viewer.heard BY <1>t, <2>3, <2>4
    <2> QED BY <1>i, <1>s, <2>3, <2>5, ViewerMoves
  <1>4. ASSUME QuietViewer PROVE ViewerInv'
    <2>1. PICK pc \in {"idle", "wait", "fetch"} : pc = "fetch" OBVIOUS
    <2>2. PICK sent \in Seq(Candle) : sent = viewer.sent BY <1>t DEF ViewerTyped
    <2>3. viewer' = [viewer EXCEPT !.pc = pc, !.sent = sent] BY <1>4, <1>t, <2>1, <2>2 DEF QuietViewer, ViewerTyped
    <2> QED BY <1>4, <1>s, <2>2, <2>3 DEF QuietViewer
  <1>5. ASSUME NEW found \in BOOLEAN, SendCandle(found) PROVE ViewerInv'
    <2>0. viewer.pc # "idle" BY <1>5 DEF SendCandle
    <2>1. PICK pc \in {"idle", "wait", "fetch"} : pc = "wait" OBVIOUS
    <2>2. PICK c \in Candle : c = [frame |-> viewer.frame, heard |-> viewer.heard]
      BY <1>t, <1>i, <2>0 DEF ViewerTyped, Candle
    <2>3. PICK sent \in Seq(Candle) : sent = IF found THEN Append(viewer.sent, c) ELSE viewer.sent
      <3>1. viewer.sent \in Seq(Candle) BY <1>t DEF ViewerTyped
      <3> QED BY <3>1, AppendProperties
    <2>4. viewer' = [viewer EXCEPT !.pc = pc, !.sent = sent] BY <1>5, <2>1, <2>2, <2>3 DEF SendCandle
    <2> QED BY <1>s, <2>0, <2>2, <2>3, <2>4
  <1>6. ASSUME CloseChart PROVE ViewerInv'
    BY <1>6 DEF CloseChart, NoViewer, ViewerInv, ViewerTyped, FramesFollow
  <1> QED BY <1>1, <1>2, <1>3, <1>4, <1>5, <1>6 DEF ChartStep

ServerInv == LifespanInv /\ TrainingInv /\ LoopInv /\ BookInv /\ HistoryInv /\ ViewerInv

LEMMA ServerInitially == ASSUME ServerInit PROVE ServerInv
  <1>1. LifespanInv BY DEF ServerInit, LifespanInv, Services
  <1>2. NoTraining \in TrainingRecord /\ NoTraining.pc = "none" BY DEF NoTraining, TrainingRecord
  <1>3. \A w \in Trainings : job[w] = NoTraining BY DEF ServerInit
  <1>4. TrainingInv
    <2>1. job \in [Trainings -> TrainingRecord] /\ dataset \in Trainings \cup {"none"} BY <1>2 DEF ServerInit
    <2>2. TrainedOnItsOwn BY <1>2 DEF ServerInit, TrainedOnItsOwn
    <2> QED BY <1>2, <1>3, <2>1, <2>2 DEF TrainingInv
  <1>5. LoopInv
    <2>1. "trainer" \in Services /\ "trainer" \in Trainings BY DEF Services, Trainings
    <2>2. /\ thread \in [Services -> {"none", "listen", "top", "train", "sleep", "wait", "standby", "loop", "ended"}]
          /\ thread["trainer"] # "train"
      BY <2>1 DEF ServerInit
    <2> QED BY <1>2, <1>3, <2>1, <2>2 DEF LoopInv
  <1>6. BookInv
    <2>1. book \in BookRecord /\ book.qty = 0 /\ book.source = {} BY NewBookTyped DEF ServerInit
    <2>2. LossIsCut /\ AskedIsRead BY <2>1 DEF LossIsCut, AskedIsRead
    <2> QED BY <2>1, <2>2 DEF BookInv, ServerInit
  <1>7. HistoryInv
    <2>1. history = [torn |-> FALSE, runs |-> <<>>, saved |-> 0] /\ runs = 0 BY DEF ServerInit
    <2>2. <<>> \in Seq(Nat) /\ Len(<<>>) = 0 OBVIOUS
    <2> QED BY <2>1, <2>2, ServerAssumption DEF HistoryInv, NewestFirst
  <1>8. ViewerInv BY DEF ServerInit, NoViewer, ViewerInv, ViewerTyped, FramesFollow
  <1> QED BY <1>1, <1>4, <1>5, <1>6, <1>7, <1>8 DEF ServerInv

LEMMA BacktestKeeps == ASSUME BookInv, HistoryInv, BacktestStep PROVE BookInv' /\ HistoryInv'
  <1>1. ASSUME NEW have \in FilesBound, BeginBacktest(have) PROVE BookInv' /\ HistoryInv'
    BY <1>1, BacktestBegins, HistoryBegins
  <1>2. ASSUME NEW close \in Closes, NEW rsi \in {25, 50, 67}, NEW macd \in {-1, 1}, NEW readable \in BOOLEAN,
               ReadRow(close, rsi, macd, readable)
        PROVE  BookInv' /\ HistoryInv'
    <2>1. rsi \in Int /\ macd \in Int OBVIOUS
    <2>2. BookInv' BY <1>2, <2>1, RowsAreRead
    <2>3. book.pc = "rows" /\ UNCHANGED <<history, runs>> BY <1>2 DEF ReadRow
    <2>4. HistoryInv' BY <2>3 DEF HistoryInv, NewestFirst
    <2> QED BY <2>2, <2>4
  <1>3. ASSUME NEW save \in {"kept", "refused", "torn", "crash"}, EndBacktest(save) PROVE BookInv' /\ HistoryInv'
    <2>1. BookInv' /\ book'.pc # "rows" BY <1>3, BacktestEnds
    <2> QED BY <1>3, <2>1, HistoryEnds
  <1> QED BY <1>1, <1>2, <1>3 DEF BacktestStep

(* What each part of the invariant reads.                                   *)
LEMMA PartsKept ==
  /\ LifespanInv /\ UNCHANGED <<phase, toldStop, remembered, pending, startedLate>> => LifespanInv'
  /\ TrainingInv /\ UNCHANGED trainingVars => TrainingInv'
  /\ LoopInv /\ UNCHANGED <<study, thread, job>> => LoopInv'
  /\ BookInv /\ UNCHANGED <<book, runs>> => BookInv'
  /\ HistoryInv /\ UNCHANGED backtestVars => HistoryInv'
  /\ ViewerInv /\ UNCHANGED viewer => ViewerInv'
  <1>1. LifespanInv /\ UNCHANGED <<phase, toldStop, remembered, pending, startedLate>> => LifespanInv'
    <2> SUFFICES ASSUME LifespanInv, phase' = phase, toldStop' = toldStop, remembered' = remembered, pending' = pending,
                        startedLate' = startedLate
                 PROVE  LifespanInv'
      OBVIOUS
    <2> QED BY Zenon DEF LifespanInv
  <1>2. TrainingInv /\ UNCHANGED trainingVars => TrainingInv' BY DEF TrainingInv, TrainedOnItsOwn, trainingVars
  <1>3. LoopInv /\ UNCHANGED <<study, thread, job>> => LoopInv' BY DEF LoopInv
  <1>4. BookInv /\ UNCHANGED <<book, runs>> => BookInv' BY DEF BookInv, LossIsCut, AskedIsRead
  <1>5. HistoryInv /\ UNCHANGED backtestVars => HistoryInv' BY DEF HistoryInv, NewestFirst, backtestVars
  <1>6. ViewerInv /\ UNCHANGED viewer => ViewerInv' BY DEF ViewerInv, ViewerTyped, FramesFollow
  <1> QED BY <1>1, <1>2, <1>3, <1>4, <1>5, <1>6

LEMMA ServerKeeps == ASSUME ServerInv, [ServerNext]_serverVars PROVE ServerInv'
  <1> USE PartsKept
  <1>1. CASE UNCHANGED <<study, lifespanVars, trainingVars, backtestVars, viewer>>
    BY <1>1 DEF ServerInv, lifespanVars, trainingVars, backtestVars
  <1>2. CASE study = "lifespan" /\ LifespanStep /\ UNCHANGED <<study, trainingVars, backtestVars, viewer>>
    <2>1. LifespanInv' BY <1>2, LifespanKeeps DEF ServerInv
    <2>2. LoopInv' BY <1>2, LoopKeeps DEF ServerInv, trainingVars
    <2> QED BY <1>2, <2>1, <2>2 DEF ServerInv, trainingVars, backtestVars
  <1>3. CASE study = "training" /\ TrainingStep /\ UNCHANGED <<study, backtestVars, viewer>>
    <2>1. TrainingInv' BY <1>3, TrainingKeeps DEF ServerInv
    <2>2. LoopInv' BY <1>3, LoopKeeps DEF ServerInv
    <2>3. UNCHANGED <<phase, toldStop, remembered, pending, startedLate>>
      BY <1>3 DEF TrainingStep, LoopTrains, LoopTurns, TriggerTraining, BuildDataset, FitModel, SaveModel, TrainingFails,
                  lifespanVars
    <2> QED BY <1>3, <2>1, <2>2, <2>3 DEF ServerInv, backtestVars
  <1>4. CASE BacktestStep /\ UNCHANGED <<study, lifespanVars, trainingVars, viewer>>
    <2>1. BookInv' /\ HistoryInv' BY <1>4, BacktestKeeps DEF ServerInv
    <2> QED BY <1>4, <2>1 DEF ServerInv, lifespanVars, trainingVars
  <1>5. CASE ChartStep /\ UNCHANGED <<study, lifespanVars, trainingVars, backtestVars>>
    <2>1. ViewerInv' BY <1>5, ViewerKeeps DEF ServerInv
    <2> QED BY <1>5, <2>1 DEF ServerInv, lifespanVars, trainingVars, backtestVars
  <1> QED BY <1>1, <1>2, <1>3, <1>4, <1>5 DEF ServerNext, ToggleHalt, serverVars, lifespanVars, trainingVars, backtestVars

(* JobsSound: what is told to stop, what a training is fitted to, what a     *)
(* backtest reads and cuts, the order of the history and of the candles.    *)
THEOREM JobsAreSound == ServerSpec => []JobsSound
  <1>1. ServerInit => ServerInv BY ServerInitially
  <1>2. ServerInv /\ [ServerNext]_serverVars => ServerInv' BY ServerKeeps
  <1>3. ServerInv => JobsSound
    <2> SUFFICES ASSUME ServerInv PROVE JobsSound OBVIOUS
    <2>1. ToldToStop BY LifespanSays DEF ServerInv
    <2>2. TrainedOnItsOwn /\ LossIsCut /\ AskedIsRead /\ NewestFirst /\ FramesFollow
      BY DEF ServerInv, TrainingInv, BookInv, HistoryInv, ViewerInv
    <2> QED BY <2>1, <2>2 DEF JobsSound
  <1> QED BY <1>1, <1>2, <1>3, PTL DEF ServerSpec

(* Both hold of the drafts: between two calls, and in every step.          *)
THEOREM DraftsAreSound == Spec => DraftsSound
  BY DraftsAlwaysSafe, DraftsAlwaysMoveSafely DEF DraftsSound

-----------------------------------------------------------------------------
(* The models that keep themselves up to date: the pipeline that tunes. *)

(* The types of the pipeline that tunes the agents, all of them.            *)
Metrics == [calmar : Int, sharpe : Int, win : Int]
ModelVersions == Nat \X Nat
TunedModels == [version : ModelVersions, metrics : Metrics, production : BOOLEAN]
TunedRegistries == [models : Seq(TunedModels), production : ModelVersions]
TuneTyped ==
  /\ tuner \in [Tuners -> {"off", "waiting", "looking", "trials", "studied", "better", "registered", "demoted"}]
  /\ tuned \in [Tuners -> ModelVersions] /\ candidate \in [Tuners -> Metrics]
  /\ registry \in TunedRegistries /\ disk \in TunedRegistries /\ Len(registry.models) <= Kept
  /\ baseline \in Metrics /\ firstBaseline \in Metrics
  /\ tuneStop \in BOOLEAN /\ tuneRunning \in BOOLEAN /\ tuneClock \in Nat /\ tuneRuns \in Nat /\ tuneRuns <= MaxTuneRuns
  /\ deaths \in Nat /\ overlap \in BOOLEAN /\ worsened \in BOOLEAN

(* The file lists what the memory lists; they differ in the flags at most.  *)
SameModels ==
  /\ Len(disk.models) = Len(registry.models) /\ disk.production = registry.production
  /\ \A i \in 1 .. Len(registry.models) : /\ disk.models[i].version = registry.models[i].version
                                          /\ disk.models[i].metrics = registry.models[i].metrics

(* What is about to be listed has won.                                      *)
WinnersComing == \A t \in Tuners : tuner[t] = "better" => candidate[t].win >= 45

(* One run at a time, whose version is later than those listed until it is  *)
(* listed itself.                                                           *)
Alone == \A t, u \in Busy : t = u
Later(t) == tuner[t] \in {"studied", "better"}
VersionsGrow ==
  /\ \A i, j \in 1 .. Len(registry.models) : i < j => registry.models[i].version[2] < registry.models[j].version[2]
  /\ registry.production[2] <= tuneClock
  /\ \A i \in 1 .. Len(registry.models) : registry.models[i].version[2] <= tuneClock
  /\ (\E t \in Tuners : Later(t)) =>
       /\ registry.production[2] < tuneClock
       /\ \A i \in 1 .. Len(registry.models) : registry.models[i].version[2] < tuneClock

(* The model flagged is the one in production; between the two steps of a   *)
(* promotion nothing is flagged in memory.                                  *)
FlagsFit(r) ==
  \A i \in 1 .. Len(r.models) : /\ r.models[i].production => r.models[i].version = r.production
                                /\ r.models[i].version = r.production => r.models[i].production
FlagsInv ==
  /\ FlagsFit(disk)
  /\ IF \E t \in Tuners : tuner[t] = "demoted"
     THEN \A i \in 1 .. Len(registry.models) : ~registry.models[i].production
     ELSE FlagsFit(registry)

(* The model of a run under promotion is the last one listed.               *)
Promoting(t) == tuner[t] \in {"registered", "demoted"}
PromotedIsLast ==
  \A t \in Tuners : Promoting(t) =>
    /\ Len(registry.models) >= 1 /\ registry.models[Len(registry.models)].version = tuned[t]
    /\ registry.models[Len(registry.models)].metrics = candidate[t] /\ tuned[t] # registry.production

(* The baseline is the first one or what the model in production was        *)
(* validated with, which is the last one listed but for one under promotion.*)
BaselineHeld ==
  \/ baseline = firstBaseline
  \/ \E i \in 1 .. Len(registry.models) :
       /\ registry.models[i].version = registry.production /\ baseline = registry.models[i].metrics
       /\ i >= Len(registry.models) - (IF \E t \in Tuners : Promoting(t) THEN 1 ELSE 0)

(* While the process lives every run has to beat what is in production.     *)
Candidates == {t \in Tuners : tuner[t] \in {"better", "registered", "demoted"}}
NeverWorse ==
  deaths = 0 /\ firstBaseline.calmar >= 0 /\ firstBaseline.sharpe >= 0 =>
    /\ ~worsened /\ baseline.calmar >= 0 /\ baseline.sharpe >= 0
    /\ \A i \in 1 .. Len(registry.models) : registry.models[i].version = registry.production => registry.models[i].metrics = baseline
    /\ \A t \in Candidates : candidate[t].calmar >= baseline.calmar /\ candidate[t].sharpe >= baseline.sharpe

SoloInv == Alone /\ VersionsGrow /\ FlagsInv /\ PromotedIsLast /\ BaselineHeld /\ NeverWorse
TuneInv == TuneTyped /\ SameModels /\ WinnersOnly /\ WinnersComing /\ (~overlap => SoloInv)

LEMMA TuneNumbers ==
  EpisodeReturns \subseteq Int /\ Baselines \subseteq Metrics /\ Kept \in Nat /\ Kept >= 2 /\ MaxTuneRuns \in Nat
  BY TuneAssumption DEF Metrics

(* Every evaluation measures numbers. *)
LEMMA MeasuresWhole == WalkForwards \subseteq Metrics
  <1>1. ASSUME NEW r \in EpisodeReturns \X EpisodeReturns
        PROVE  [calmar |-> Calmar(r), sharpe |-> Sharpe(r), win |-> WinRate(r)] \in Metrics
    <2>1. PICK x \in Int, y \in Int : r[1] = x /\ r[2] = y
      <3>1. r[1] \in EpisodeReturns /\ r[2] \in EpisodeReturns OBVIOUS
      <3>2. r[1] \in Int /\ r[2] \in Int BY <3>1, TuneNumbers
      <3> QED BY <3>2
    <2>2. Calmar(r) \in Int
      <3>1. Least(r) \in Int BY <2>1 DEF Least
      <3>2. CASE Least(r) = 0 BY <3>2 DEF Calmar, Huge
      <3>3. CASE Least(r) # 0
        <4>1. PICK b \in Nat \ {0} : b = Magnitude(Least(r)) BY <3>1, <3>3 DEF Magnitude
        <4>2. PICK a \in Int : a = 50 * (r[1] + r[2]) BY <2>1
        <4>3. a \div b \in Int BY <4>1, <4>2
        <4> QED BY <3>3, <4>1, <4>2, <4>3 DEF Calmar
      <3> QED BY <3>2, <3>3
    <2>3. Sharpe(r) \in Int
      <3>1. CASE x = y BY <2>1, <3>1 DEF Sharpe, Huge
      <3>2. CASE x # y
        <4>1. PICK b \in Nat \ {0} : b = Magnitude(x - y)
          <5>1. PICK k \in Int : k = x - y /\ k # 0 BY <3>2
          <5>2. Magnitude(k) \in Nat \ {0} BY <5>1 DEF Magnitude
          <5> QED BY <5>1, <5>2
        <4>2. PICK a \in Int : a = 100 * (x + y) BY <2>1
        <4>3. a \div b \in Int BY <4>1, <4>2
        <4>4. Sharpe(r) = a \div b BY <2>1, <3>2, <4>1, <4>2 DEF Sharpe
        <4> QED BY <4>3, <4>4
      <3> QED BY <3>1, <3>2
    <2>4. WinRate(r) \in Int BY DEF WinRate
    <2> QED BY <2>2, <2>3, <2>4 DEF Metrics
  <1>2. SplitMetrics \subseteq Metrics
    <2>1. NoMetrics \in Metrics BY DEF NoMetrics, Metrics
    <2> QED BY <1>1, <2>1 DEF SplitMetrics
  <1>3. ASSUME NEW a \in SplitMetrics, NEW b \in SplitMetrics
        PROVE  [calmar |-> (a.calmar + b.calmar) \div 2, sharpe |-> (a.sharpe + b.sharpe) \div 2, win |-> (a.win + b.win) \div 2]
                 \in Metrics
    <2>1. a \in Metrics /\ b \in Metrics BY <1>2
    <2>2. \A x, y \in Int : (x + y) \div 2 \in Int OBVIOUS
    <2>3. /\ a.calmar \in Int /\ a.sharpe \in Int /\ a.win \in Int
          /\ b.calmar \in Int /\ b.sharpe \in Int /\ b.win \in Int BY <2>1 DEF Metrics
    <2>4. (a.calmar + b.calmar) \div 2 \in Int /\ (a.sharpe + b.sharpe) \div 2 \in Int /\ (a.win + b.win) \div 2 \in Int
      BY <2>2, <2>3
    <2> QED BY <2>4 DEF Metrics
  <1> QED BY <1>3 DEF WalkForwards

(* What beats a baseline that is not negative is no worse than it. *)
LEMMA BetterIsNoWorse ==
  ASSUME NEW m \in Metrics, baseline \in Metrics, BetterThanBaseline(m)
  PROVE  /\ m.win >= 45
         /\ baseline.calmar >= 0 => m.calmar >= baseline.calmar
         /\ baseline.sharpe >= 0 => m.sharpe >= baseline.sharpe
  BY DEF BetterThanBaseline, Metrics

(* The list is cut to its last ones: one of them is dropped at most. *)
LEMMA KeptModels ==
  ASSUME NEW s \in Seq(TunedModels), Len(s) <= Kept, NEW e \in TunedModels
  PROVE  \E d \in {0, 1} :
           LET r == NewestKept(Append(s, e)) IN
           /\ r \in Seq(TunedModels) /\ Len(r) = Len(s) + 1 - d /\ Len(r) <= Kept /\ Len(r) >= 1
           /\ d = 1 => Len(r) >= 2
           /\ r[Len(r)] = e /\ \A i \in 1 .. Len(r) - 1 : i + d \in 1 .. Len(s) /\ r[i] = s[i + d]
  <1>1. PICK n \in Nat : n = Len(s) BY LenProperties
  <1>2. PICK a \in Seq(TunedModels) : a = Append(s, e) /\ Len(a) = n + 1 /\ a[n + 1] = e /\ \A i \in 1 .. n : a[i] = s[i]
    <2>1. /\ Append(s, e) \in Seq(TunedModels) /\ Len(Append(s, e)) = n + 1 /\ Append(s, e)[n + 1] = e
          /\ \A i \in 1 .. n : Append(s, e)[i] = s[i]
      BY <1>1, AppendProperties
    <2> QED BY <2>1
  <1>3. CASE n + 1 <= Kept
    <2>1. NewestKept(a) = a BY <1>1, <1>2, <1>3, TuneNumbers DEF NewestKept
    <2>2. \A i \in 1 .. n : i + 0 \in 1 .. n /\ a[i] = s[i + 0] BY <1>2
    <2> QED BY <1>1, <1>2, <1>3, <2>1, <2>2
  <1>4. CASE n + 1 > Kept
    <2>1. n = Kept /\ n >= 2 BY <1>1, <1>4, TuneNumbers
    <2>2. n + 1 - Kept + 1 = 2 BY <2>1
    <2>3. PICK r \in Seq(TunedModels) : r = SubSeq(a, 2, n + 1) /\ Len(r) = n /\ \A i \in 1 .. n : r[i] = a[i + 1]
      <3>1. \A i \in 2 .. n + 1 : a[i] \in TunedModels BY <1>2, <2>1, ElementOfSeq
      <3>2. /\ SubSeq(a, 2, n + 1) \in Seq(TunedModels) /\ Len(SubSeq(a, 2, n + 1)) = n + 1 - 2 + 1
            /\ \A i \in 1 .. n + 1 - 2 + 1 : SubSeq(a, 2, n + 1)[i] = a[2 + i - 1]
        BY <2>1, <3>1, SubSeqProperties
      <3>3. n + 1 - 2 + 1 = n OBVIOUS
      <3>4. ASSUME NEW i \in 1 .. n PROVE SubSeq(a, 2, n + 1)[i] = a[i + 1]
        <4>1. 2 + i - 1 = i + 1 OBVIOUS
        <4> QED BY <3>2, <3>3, <4>1
      <3> QED BY <3>2, <3>3, <3>4
    <2>4. NewestKept(a) = r
      <3>1. NewestKept(a) = IF Len(a) > Kept THEN SubSeq(a, Len(a) - Kept + 1, Len(a)) ELSE a BY DEF NewestKept
      <3>2. Len(a) > Kept /\ Len(a) = n + 1 /\ Len(a) - Kept + 1 = 2 BY <1>2, <1>4, <2>2, TuneNumbers
      <3>3. NewestKept(a) = SubSeq(a, 2, n + 1) BY <3>1, <3>2, Zenon
      <3> QED BY <2>3, <3>3
    <2>5. r[n] = e BY <1>2, <2>1, <2>3
    <2>6. \A i \in 1 .. n - 1 : i + 1 \in 1 .. n /\ r[i] = s[i + 1] BY <1>2, <2>1, <2>3
    <2> QED BY <1>1, <1>2, <2>1, <2>3, <2>4, <2>5, <2>6
  <1> QED BY <1>1, <1>3, <1>4, TuneNumbers

LEMMA EndsQuiet == \A t \in Tuners : EndOf(t) \in {"off", "looking"} BY DEF EndOf

LEMMA TuneInitially == ASSUME TuneInit PROVE TuneInv
  <1> USE DEF TuneInit, NoModels
  <1>1. registry.models = <<>> /\ disk.models = <<>> /\ Len(registry.models) = 0 OBVIOUS
  <1>2. TuneTyped
    <2>1. NoModels \in TunedRegistries
      <3>1. <<>> \in Seq(TunedModels) BY EmptySeq
      <3>2. NoVersion \in ModelVersions BY DEF NoVersion, ModelVersions
      <3> QED BY <3>1, <3>2 DEF TunedRegistries
    <2>2. baseline \in Metrics /\ firstBaseline \in Metrics BY TuneNumbers
    <2>3. NoVersion \in ModelVersions /\ NoMetrics \in Metrics BY DEF NoVersion, ModelVersions, NoMetrics, Metrics
    <2>4. tuner \in [Tuners -> {"off", "waiting", "looking", "trials", "studied", "better", "registered", "demoted"}]
          /\ tuned \in [Tuners -> ModelVersions] /\ candidate \in [Tuners -> Metrics]
      BY <2>3
    <2>5. Len(registry.models) <= Kept /\ tuneRuns <= MaxTuneRuns BY <1>1, TuneNumbers
    <2> QED BY <2>1, <2>2, <2>4, <2>5 DEF TuneTyped
  <1>3. SameModels /\ WinnersOnly /\ WinnersComing BY <1>1 DEF SameModels, WinnersOnly, WinnersComing
  <1>4. SoloInv
    <2>1. Alone BY DEF Alone, Busy
    <2>2. VersionsGrow BY <1>1 DEF VersionsGrow, Later, NoVersion
    <2>3. FlagsInv BY <1>1 DEF FlagsInv, FlagsFit
    <2>4. PromotedIsLast BY DEF PromotedIsLast, Promoting
    <2>5. BaselineHeld BY DEF BaselineHeld
    <2>6. NeverWorse BY <1>1 DEF NeverWorse, Candidates
    <2> QED BY <2>1, <2>2, <2>3, <2>4, <2>5, <2>6 DEF SoloInv
  <1> QED BY <1>2, <1>3, <1>4 DEF TuneInv

(* A step of one thread that leaves the registry, the file, the baseline    *)
(* and what is under promotion alone.                                       *)
LEMMA RegistryUntouched ==
  ASSUME TuneInv, UNCHANGED <<registry, disk, baseline, firstBaseline, tuned, deaths, overlap, worsened>>,
         NEW t \in Tuners,
         tuner' \in [Tuners -> {"off", "waiting", "looking", "trials", "studied", "better", "registered", "demoted"}],
         candidate' \in [Tuners -> Metrics],
         \A u \in Tuners : u # t => tuner'[u] = tuner[u] /\ candidate'[u] = candidate[u],
         tuneStop' \in BOOLEAN, tuneRunning' \in BOOLEAN, tuneRuns' \in Nat, tuneRuns' <= MaxTuneRuns,
         tuneClock' \in Nat, tuneClock' >= tuneClock,
         ~Promoting(t), ~Promoting(t)', Later(t)' => Later(t) \/ tuneClock' > tuneClock,
         tuner'[t] = "better" => BetterThanBaseline(candidate'[t]),
         tuner'[t] \in {"off", "waiting"} \/ overlap \/ t \in Busy \/ Busy = {}
  PROVE  TuneInv'
  <1> USE DEF TuneInv
  <1>1. TuneTyped' BY DEF TuneTyped
  <1>2. SameModels' BY DEF SameModels
  <1>3. WinnersOnly' BY DEF WinnersOnly
  <1>4. tuner'[t] = "better" => /\ candidate'[t].win >= 45
                                /\ baseline.calmar >= 0 => candidate'[t].calmar >= baseline.calmar
                                /\ baseline.sharpe >= 0 => candidate'[t].sharpe >= baseline.sharpe
    <2>1. candidate'[t] \in Metrics /\ baseline \in Metrics BY DEF TuneTyped
    <2> QED BY <2>1, BetterIsNoWorse
  <1>5. WinnersComing' BY <1>4 DEF WinnersComing
  <1>6. ASSUME ~overlap PROVE SoloInv'
    <2> USE <1>6 DEF SoloInv
    <2>1. Alone'
      <3>1. \A u \in Busy' : u = t \/ u \in Busy BY DEF Busy
      <3>2. t \in Busy' => t \in Busy \/ Busy = {} BY DEF Busy
      <3>3. Alone BY DEF Alone
      <3> QED BY <3>1, <3>2, <3>3 DEF Alone
    <2>2. VersionsGrow'
      <3>1. PICK c \in Nat, d \in Nat : c = tuneClock /\ d = tuneClock' /\ d >= c BY DEF TuneTyped
      <3>2. PICK v : v = registry.production[2] /\ v \in Nat BY DEF TuneTyped, TunedRegistries, ModelVersions
      <3>3. \A i \in 1 .. Len(registry.models) : registry.models[i].version[2] \in Nat
        <4>1. registry.models \in Seq(TunedModels) BY DEF TuneTyped, TunedRegistries
        <4>2. \A i \in 1 .. Len(registry.models) : registry.models[i] \in TunedModels BY <4>1, ElementOfSeq
        <4> QED BY <4>2 DEF TunedModels, ModelVersions
      <3>4. v <= d /\ \A i \in 1 .. Len(registry.models) : registry.models[i].version[2] <= d
        BY <3>1, <3>2, <3>3 DEF VersionsGrow
      <3>5. ASSUME NEW u \in Tuners, Later(u)' PROVE v < d /\ \A i \in 1 .. Len(registry.models) : registry.models[i].version[2] < d
        <4>1. CASE u = t /\ d > c BY <4>1, <3>1, <3>2, <3>3 DEF VersionsGrow
        <4>2. CASE Later(u)
          <5>1. v < c /\ \A i \in 1 .. Len(registry.models) : registry.models[i].version[2] < c
            BY <3>1, <3>2, <4>2 DEF VersionsGrow
          <5> QED BY <3>1, <3>2, <3>3, <5>1
        <4>3. Later(u) \/ (u = t /\ d > c) BY <3>1, <3>5 DEF Later
        <4> QED BY <4>1, <4>2, <4>3
      <3> QED BY <3>1, <3>2, <3>4, <3>5 DEF VersionsGrow
    <2>3. \A u \in Tuners : Promoting(u)' <=> Promoting(u) BY DEF Promoting
    <2>4. \A u \in Tuners : tuner'[u] = "demoted" <=> tuner[u] = "demoted" BY DEF Promoting
    <2>5. FlagsInv' BY <2>4 DEF FlagsInv, FlagsFit
    <2>6. PromotedIsLast'
      <3>1. \A u \in Tuners : Promoting(u)' => Promoting(u) /\ candidate'[u] = candidate[u] BY <2>3
      <3> QED BY <3>1 DEF PromotedIsLast
    <2>7. BaselineHeld' BY <2>3 DEF BaselineHeld
    <2>8. NeverWorse'
      <3> SUFFICES ASSUME deaths = 0, firstBaseline.calmar >= 0, firstBaseline.sharpe >= 0
                   PROVE  /\ ~worsened /\ baseline.calmar >= 0 /\ baseline.sharpe >= 0
                          /\ \A i \in 1 .. Len(registry.models) :
                               registry.models[i].version = registry.production => registry.models[i].metrics = baseline
                          /\ \A u \in Candidates' : candidate'[u].calmar >= baseline.calmar /\ candidate'[u].sharpe >= baseline.sharpe
        BY DEF NeverWorse
      <3>1. /\ ~worsened /\ baseline.calmar >= 0 /\ baseline.sharpe >= 0
            /\ \A i \in 1 .. Len(registry.models) : registry.models[i].version = registry.production => registry.models[i].metrics = baseline
            /\ \A u \in Candidates : candidate[u].calmar >= baseline.calmar /\ candidate[u].sharpe >= baseline.sharpe
        BY DEF NeverWorse
      <3>2. ASSUME NEW u \in Candidates' PROVE candidate'[u].calmar >= baseline.calmar /\ candidate'[u].sharpe >= baseline.sharpe
        <4>1. CASE u = t BY <1>4, <3>1, <3>2, <4>1 DEF Candidates, Promoting
        <4>2. CASE u # t BY <3>1, <3>2, <4>2 DEF Candidates
        <4> QED BY <4>1, <4>2
      <3> QED BY <3>1, <3>2
    <2> QED BY <2>1, <2>2, <2>5, <2>6, <2>7, <2>8
  <1> QED BY <1>1, <1>2, <1>3, <1>5, <1>6

LEMMA BeginRunKeeps ==
  ASSUME TuneInv, NEW t \in Tuners, tuner[t] \in {"off", "waiting"}, BeginRun(t) PROVE TuneInv'
  <1> USE DEF TuneInv
  <1>1. tuner' = [tuner EXCEPT ![t] = "trials"] /\ tuneRuns' = tuneRuns + 1 /\ tuneRuns < MaxTuneRuns /\ (overlap \/ Busy = {})
    BY DEF BeginRun
  <1>2. UNCHANGED <<tuned, candidate, registry, disk, baseline, firstBaseline, tuneStop, tuneRunning,
                    tuneClock, deaths, overlap, worsened>> BY DEF BeginRun
  <1>3. tuneRuns' \in Nat /\ tuneRuns' <= MaxTuneRuns BY <1>1, TuneNumbers DEF TuneTyped
  <1>4. tuneClock' \in Nat /\ tuneClock' >= tuneClock BY <1>2 DEF TuneTyped
  <1>5. tuner'[t] = "trials" /\ \A u \in Tuners : u # t => tuner'[u] = tuner[u] BY <1>1 DEF TuneTyped
  <1>6. tuner' \in [Tuners -> {"off", "waiting", "looking", "trials", "studied", "better", "registered", "demoted"}]
    BY <1>1 DEF TuneTyped
  <1>7. ~Promoting(t) /\ ~Promoting(t)' /\ ~Later(t)' BY <1>5 DEF Promoting, Later
  <1>8. candidate' \in [Tuners -> Metrics] /\ tuneStop' \in BOOLEAN /\ tuneRunning' \in BOOLEAN BY <1>2 DEF TuneTyped
  <1> QED BY <1>1, <1>2, <1>3, <1>4, <1>5, <1>6, <1>7, <1>8, RegistryUntouched

LEMMA OptimizeKeeps ==
  ASSUME TuneInv, NEW t \in Tuners, NEW allPruned \in BOOLEAN, Optimize(t, allPruned) PROVE TuneInv'
  <1> USE DEF TuneInv
  <1>1. PICK p \in {"off", "looking", "studied"} : tuner' = [tuner EXCEPT ![t] = p]
    <2>1. tuner' = [tuner EXCEPT ![t] = IF allPruned THEN EndOf(t) ELSE "studied"] BY DEF Optimize
    <2> QED BY <2>1, EndsQuiet
  <1>2. tuner[t] = "trials" /\ tuneClock' = tuneClock + 1
        /\ UNCHANGED <<tuned, candidate, registry, disk, baseline, firstBaseline, tuneStop, tuneRunning,
                       tuneRuns, deaths, overlap, worsened>> BY DEF Optimize
  <1>3. tuneRuns' \in Nat /\ tuneRuns' <= MaxTuneRuns BY <1>2 DEF TuneTyped
  <1>4. tuneClock' \in Nat /\ tuneClock' > tuneClock /\ tuneClock' >= tuneClock BY <1>2 DEF TuneTyped
  <1>5. tuner'[t] = p /\ \A u \in Tuners : u # t => tuner'[u] = tuner[u] BY <1>1 DEF TuneTyped
  <1>6. tuner' \in [Tuners -> {"off", "waiting", "looking", "trials", "studied", "better", "registered", "demoted"}]
    BY <1>1 DEF TuneTyped
  <1>7. ~Promoting(t) /\ ~Promoting(t)' /\ t \in Busy /\ tuner'[t] # "better" BY <1>2, <1>5 DEF Promoting, Busy
  <1>8. candidate' \in [Tuners -> Metrics] /\ tuneStop' \in BOOLEAN /\ tuneRunning' \in BOOLEAN BY <1>2 DEF TuneTyped
  <1> QED BY <1>2, <1>3, <1>4, <1>5, <1>6, <1>7, <1>8, RegistryUntouched

LEMMA ValidateKeeps ==
  ASSUME TuneInv, NEW t \in Tuners, NEW m \in WalkForwards, Validate(t, m) PROVE TuneInv'
  <1> USE DEF TuneInv
  <1>1. PICK p \in {"off", "looking", "better"} :
          tuner' = [tuner EXCEPT ![t] = p] /\ (p = "better" => BetterThanBaseline(m))
          /\ candidate' = IF p = "better" THEN [candidate EXCEPT ![t] = m] ELSE candidate
    <2>1. tuner' = [tuner EXCEPT ![t] = IF BetterThanBaseline(m) THEN "better" ELSE EndOf(t)] BY DEF Validate
    <2>2. candidate' = [candidate EXCEPT ![t] = IF BetterThanBaseline(m) THEN m ELSE @] BY DEF Validate
    <2>3. CASE BetterThanBaseline(m)
      <3>1. tuner' = [tuner EXCEPT ![t] = "better"] BY <2>1, <2>3
      <3>2. candidate' = [candidate EXCEPT ![t] = m] BY <2>2, <2>3
      <3> QED BY <2>3, <3>1, <3>2
    <2>4. CASE ~BetterThanBaseline(m)
      <3>1. tuner' = [tuner EXCEPT ![t] = EndOf(t)] BY <2>1, <2>4
      <3>2. candidate' = candidate
        <4>1. candidate \in [Tuners -> Metrics] BY DEF TuneTyped
        <4> QED BY <2>2, <2>4, <4>1
      <3> QED BY <3>1, <3>2, EndsQuiet
    <2> QED BY <2>3, <2>4
  <1>2. tuner[t] = "studied"
        /\ UNCHANGED <<tuned, registry, disk, baseline, firstBaseline, tuneStop, tuneRunning, tuneClock,
                       tuneRuns, deaths, overlap, worsened>> BY DEF Validate
  <1>3. tuneRuns' \in Nat /\ tuneRuns' <= MaxTuneRuns BY <1>2 DEF TuneTyped
  <1>4. tuneClock' \in Nat /\ tuneClock' >= tuneClock BY <1>2 DEF TuneTyped
  <1>5. tuner'[t] = p /\ \A u \in Tuners : u # t => tuner'[u] = tuner[u] BY <1>1 DEF TuneTyped
  <1>6. tuner' \in [Tuners -> {"off", "waiting", "looking", "trials", "studied", "better", "registered", "demoted"}]
    BY <1>1 DEF TuneTyped
  <1>7. ~Promoting(t) /\ ~Promoting(t)' /\ Later(t) /\ t \in Busy BY <1>2, <1>5 DEF Promoting, Busy, Later
  <1>8. /\ candidate' \in [Tuners -> Metrics] /\ \A u \in Tuners : u # t => candidate'[u] = candidate[u]
        /\ p = "better" => candidate'[t] = m
    <2>1. m \in Metrics BY MeasuresWhole
    <2>2. candidate \in [Tuners -> Metrics] BY DEF TuneTyped
    <2> QED BY <1>1, <2>1, <2>2
  <1>9. tuner'[t] = "better" => BetterThanBaseline(candidate'[t]) BY <1>1, <1>5, <1>8
  <1>10. tuneStop' \in BOOLEAN /\ tuneRunning' \in BOOLEAN BY <1>2 DEF TuneTyped
  <1>11. \A u \in Tuners : u # t => tuner'[u] = tuner[u] /\ candidate'[u] = candidate[u] BY <1>5, <1>8
  <1> QED BY <1>2, <1>3, <1>4, <1>6, <1>7, <1>8, <1>9, <1>10, <1>11, RegistryUntouched

LEMMA StartTuningKeeps ==
  ASSUME TuneInv, NEW t \in Tuners, StartTuning(t) PROVE TuneInv'
  <1> USE DEF TuneInv
  <1>1. tuner[t] = "off" /\ tuner' = [tuner EXCEPT ![t] = "waiting"] /\ tuneStop' = FALSE /\ tuneRunning' = TRUE
        /\ UNCHANGED <<tuned, candidate, registry, disk, baseline, firstBaseline, tuneClock, tuneRuns, deaths, overlap, worsened>>
    BY DEF StartTuning, TuneRest
  <1>2. tuner'[t] = "waiting" /\ \A u \in Tuners : u # t => tuner'[u] = tuner[u] BY <1>1 DEF TuneTyped
  <1>3. tuner' \in [Tuners -> {"off", "waiting", "looking", "trials", "studied", "better", "registered", "demoted"}]
    BY <1>1 DEF TuneTyped
  <1>4. ~Promoting(t) /\ ~Promoting(t)' /\ ~Later(t)' BY <1>1, <1>2 DEF Promoting, Later
  <1>5. candidate' \in [Tuners -> Metrics] /\ tuneRuns' \in Nat /\ tuneRuns' <= MaxTuneRuns
        /\ tuneClock' \in Nat /\ tuneClock' >= tuneClock BY <1>1 DEF TuneTyped
  <1> QED BY <1>1, <1>2, <1>3, <1>4, <1>5, RegistryUntouched

LEMMA LoopLooksKeeps ==
  ASSUME TuneInv, NEW t \in Tuners, LoopLooks(t) PROVE TuneInv'
  <1> USE DEF TuneInv
  <1>1. PICK p \in {"off", "waiting"} : tuner' = [tuner EXCEPT ![t] = p] BY DEF LoopLooks
  <1>2. tuner[t] \in {"waiting", "looking"}
        /\ UNCHANGED <<tuneStop, tuneRunning, tuned, candidate, registry, disk, baseline, firstBaseline, tuneClock, tuneRuns,
                       deaths, overlap, worsened>>
    BY DEF LoopLooks, TuneRest
  <1>3. tuner'[t] = p /\ \A u \in Tuners : u # t => tuner'[u] = tuner[u] BY <1>1 DEF TuneTyped
  <1>4. tuner' \in [Tuners -> {"off", "waiting", "looking", "trials", "studied", "better", "registered", "demoted"}]
    BY <1>1 DEF TuneTyped
  <1>5. ~Promoting(t) /\ ~Promoting(t)' /\ ~Later(t)' BY <1>2, <1>3 DEF Promoting, Later
  <1>6. candidate' \in [Tuners -> Metrics] /\ tuneRuns' \in Nat /\ tuneRuns' <= MaxTuneRuns
        /\ tuneClock' \in Nat /\ tuneClock' >= tuneClock /\ tuneStop' \in BOOLEAN /\ tuneRunning' \in BOOLEAN
    BY <1>2 DEF TuneTyped
  <1> QED BY <1>2, <1>3, <1>4, <1>5, <1>6, RegistryUntouched

LEMMA OnlyTheScheduler ==
  ASSUME TuneInv, tuneStop' \in BOOLEAN, tuneRunning' \in BOOLEAN,
         UNCHANGED <<tuner, tuned, candidate, registry, disk, baseline, firstBaseline, tuneClock, tuneRuns, deaths, overlap, worsened>>
  PROVE  TuneInv'
  <1>1. TuneTyped' BY DEF TuneInv, TuneTyped
  <1>2. SameModels' /\ WinnersOnly' /\ WinnersComing' BY DEF TuneInv, SameModels, WinnersOnly, WinnersComing
  <1>3. ASSUME ~overlap PROVE SoloInv'
    <2> USE <1>3 DEF TuneInv, SoloInv
    <2>1. Alone' BY DEF Alone, Busy
    <2>2. VersionsGrow' BY DEF VersionsGrow, Later
    <2>3. FlagsInv' BY DEF FlagsInv, FlagsFit
    <2>4. PromotedIsLast' BY DEF PromotedIsLast, Promoting
    <2>5. BaselineHeld' BY DEF BaselineHeld, Promoting
    <2>6. NeverWorse' BY DEF NeverWorse, Candidates
    <2> QED BY <2>1, <2>2, <2>3, <2>4, <2>5, <2>6
  <1> QED BY <1>1, <1>2, <1>3 DEF TuneInv

(* The models listed. *)
LEMMA ListFields ==
  ASSUME NEW s \in Seq(TunedModels)
  PROVE  /\ Len(s) \in Nat /\ DOMAIN s = 1 .. Len(s)
         /\ \A i \in 1 .. Len(s) : /\ s[i] \in TunedModels /\ s[i].version \in ModelVersions /\ s[i].version[2] \in Nat
                                   /\ s[i].metrics \in Metrics /\ s[i].production \in BOOLEAN
  <1>1. Len(s) \in Nat /\ DOMAIN s = 1 .. Len(s) BY LenProperties
  <1>2. \A i \in 1 .. Len(s) : s[i] \in TunedModels BY ElementOfSeq
  <1> QED BY <1>1, <1>2 DEF TunedModels, ModelVersions

LEMMA RegistryList ==
  ASSUME TuneTyped
  PROVE  /\ registry.models \in Seq(TunedModels) /\ disk.models \in Seq(TunedModels)
         /\ registry.production \in ModelVersions /\ registry.production[2] \in Nat
  BY DEF TuneTyped, TunedRegistries, ModelVersions

(* Who is busy, with one run at a time. *)
LEMMA OnlyOne ==
  ASSUME Alone, NEW t \in Tuners, tuner[t] \notin {"off", "waiting"}
  PROVE  \A u \in Tuners : u # t => tuner[u] \in {"off", "waiting"}
  BY DEF Alone, Busy

LEMMA RegisterModelKeeps ==
  ASSUME TuneInv, NEW t \in Tuners, RegisterModel(t) PROVE TuneInv'
  <1> USE DEF TuneInv
  <1> DEFINE s == registry.models
             p == registry.production
  <1>1. /\ tuner[t] = "better" /\ tuner' = [tuner EXCEPT ![t] = "registered"]
        /\ UNCHANGED <<candidate, baseline, firstBaseline, tuneStop, tuneRunning, tuneClock, tuneRuns, deaths, overlap, worsened>>
    BY DEF RegisterModel
  <1>2. s \in Seq(TunedModels) /\ p \in ModelVersions /\ p[2] \in Nat /\ Len(s) <= Kept
    BY RegistryList DEF TuneTyped
  <1>3. PICK n \in Nat : n = Len(s) /\ DOMAIN s = 1 .. n
          /\ \A i \in 1 .. n : s[i] \in TunedModels /\ s[i].version[2] \in Nat
    BY <1>2, ListFields
  <1>4. PICK v \in ModelVersions : v = VersionNow /\ v[2] = tuneClock
    <2>1. tuneClock \in Nat BY DEF TuneTyped
    <2>2. VersionNow = <<n + 1, tuneClock>> BY <1>3 DEF VersionNow
    <2>3. <<n + 1, tuneClock>> \in ModelVersions /\ <<n + 1, tuneClock>>[2] = tuneClock BY <2>1 DEF ModelVersions
    <2> QED BY <2>2, <2>3
  <1>5. PICK e \in TunedModels : e = [version |-> v, metrics |-> candidate[t], production |-> FALSE]
          /\ e.version = v /\ e.metrics = candidate[t] /\ ~e.production
    <2>1. candidate[t] \in Metrics BY DEF TuneTyped
    <2>2. [version |-> v, metrics |-> candidate[t], production |-> FALSE] \in TunedModels BY <2>1 DEF TunedModels
    <2>3. ~[version |-> v, metrics |-> candidate[t], production |-> FALSE].production OBVIOUS
    <2> QED BY <2>2, <2>3
  <1>6. PICK d \in {0, 1}, r \in Seq(TunedModels) :
          /\ r = NewestKept(Append(s, e)) /\ Len(r) = n + 1 - d /\ Len(r) <= Kept /\ Len(r) >= 1
          /\ d = 1 => Len(r) >= 2
          /\ r[Len(r)] = e /\ \A i \in 1 .. Len(r) - 1 : i + d \in 1 .. n /\ r[i] = s[i + d]
    <2>1. PICK d \in {0, 1} :
           LET r == NewestKept(Append(s, e)) IN
           /\ r \in Seq(TunedModels) /\ Len(r) = Len(s) + 1 - d /\ Len(r) <= Kept /\ Len(r) >= 1
           /\ d = 1 => Len(r) >= 2
           /\ r[Len(r)] = e /\ \A i \in 1 .. Len(r) - 1 : i + d \in 1 .. Len(s) /\ r[i] = s[i + d]
      <3> HIDE DEF s
      <3> QED BY <1>2, KeptModels
    <2> QED BY <1>3, <2>1
  <1>7. PICK l \in Nat : l = Len(r) /\ l = n + 1 - d /\ l >= 1 /\ (d = 1 => l >= 2) /\ DOMAIN r = 1 .. l
    BY <1>6, ListFields
  <1>8. registry' = [models |-> r, production |-> p] /\ disk' = [models |-> r, production |-> p] /\ tuned' = [tuned EXCEPT ![t] = v]
    BY <1>4, <1>5, <1>6 DEF RegisterModel
  <1>9. registry'.models = r /\ disk'.models = r /\ registry'.production = p /\ disk'.production = p BY <1>8
  <1>10. tuner'[t] = "registered" /\ \A u \in Tuners : u # t => tuner'[u] = tuner[u] BY <1>1 DEF TuneTyped
  <1>11. r[l] = e /\ \A i \in 1 .. l - 1 : i + d \in 1 .. n /\ r[i] = s[i + d] BY <1>6, <1>7
  <1> HIDE DEF s, p
  <1>12. TuneTyped'
    <2>1. tuner' \in [Tuners -> {"off", "waiting", "looking", "trials", "studied", "better", "registered", "demoted"}]
      BY <1>1 DEF TuneTyped
    <2>2. tuned' \in [Tuners -> ModelVersions] BY <1>8 DEF TuneTyped
    <2>3. registry' \in TunedRegistries /\ disk' \in TunedRegistries /\ Len(registry'.models) <= Kept
      BY <1>2, <1>6, <1>8, <1>9 DEF TunedRegistries
    <2> QED BY <1>1, <2>1, <2>2, <2>3 DEF TuneTyped
  <1>13. SameModels' BY <1>9 DEF SameModels
  <1>14. WinnersOnly'
    <2>1. e.metrics.win >= 45 BY <1>1, <1>5 DEF WinnersComing
    <2>2. \A i \in 1 .. n : s[i].metrics.win >= 45 BY <1>3 DEF WinnersOnly, s
    <2>3. ASSUME NEW i \in 1 .. l PROVE r[i].metrics.win >= 45
      <3>1. CASE i = l BY <1>11, <2>1, <3>1
      <3>2. CASE i # l
        <4>1. i \in 1 .. l - 1 BY <3>2
        <4> QED BY <1>11, <2>2, <4>1
      <3> QED BY <3>1, <3>2
    <2> QED BY <1>7, <1>9, <2>3 DEF WinnersOnly
  <1>15. WinnersComing' BY <1>1, <1>10 DEF WinnersComing
  <1>16. ASSUME ~overlap PROVE SoloInv'
    <2> USE <1>16 DEF SoloInv
    <2>1. \A u \in Tuners : u # t => tuner[u] \in {"off", "waiting"} BY <1>1, OnlyOne
    <2>2. \A u \in Tuners : u # t => tuner'[u] \in {"off", "waiting"} BY <1>10, <2>1
    <2>3. Alone' BY <2>2 DEF Alone, Busy
    <2>4. p[2] < tuneClock /\ (\A i \in 1 .. n : s[i].version[2] < tuneClock)
          /\ \A i, j \in 1 .. n : i < j => s[i].version[2] < s[j].version[2]
      BY <1>1, <1>3 DEF VersionsGrow, Later, s, p
    <2>5. v # p BY <1>4, <1>2, <2>4
    <2>6. VersionsGrow'
      <3>1. tuneClock \in Nat BY DEF TuneTyped
      <3>2. \A i \in 1 .. l : r[i].version[2] <= tuneClock
        <4> SUFFICES ASSUME NEW i \in 1 .. l PROVE r[i].version[2] <= tuneClock OBVIOUS
        <4>1. CASE i = l BY <1>4, <1>5, <1>11, <3>1, <4>1
        <4>2. CASE i # l
          <5>1. i \in 1 .. l - 1 BY <4>2
          <5>2. i + d \in 1 .. n /\ r[i] = s[i + d] BY <1>11, <5>1
          <5> QED BY <1>3, <2>4, <3>1, <5>2
        <4> QED BY <4>1, <4>2
      <3>3. \A i, j \in 1 .. l : i < j => r[i].version[2] < r[j].version[2]
        <4> SUFFICES ASSUME NEW i \in 1 .. l, NEW j \in 1 .. l, i < j PROVE r[i].version[2] < r[j].version[2] OBVIOUS
        <4>1. i \in 1 .. l - 1 OBVIOUS
        <4>2. i + d \in 1 .. n /\ r[i] = s[i + d] BY <1>11, <4>1
        <4>3. CASE j = l BY <1>4, <1>5, <1>11, <2>4, <4>2, <4>3
        <4>4. CASE j # l
          <5>1. j \in 1 .. l - 1 BY <4>4
          <5>2. j + d \in 1 .. n /\ r[j] = s[j + d] /\ i + d < j + d BY <1>11, <5>1
          <5> QED BY <2>4, <4>2, <5>2
        <4> QED BY <4>3, <4>4
      <3>4. \A u \in Tuners : ~Later(u)' BY <1>10, <2>2 DEF Later
      <3>5. p[2] <= tuneClock BY <1>2, <2>4, <3>1
      <3> QED BY <1>1, <1>7, <1>9, <3>2, <3>3, <3>4, <3>5 DEF VersionsGrow
    <2>7. FlagsInv'
      <3>1. \A i \in 1 .. n : (s[i].production => s[i].version = p) /\ (s[i].version = p => s[i].production)
        <4>1. ~ \E u \in Tuners : tuner[u] = "demoted" BY <1>1, <2>1
        <4> QED BY <1>3, <4>1 DEF FlagsInv, FlagsFit, s, p
      <3>2. \A i \in 1 .. l : (r[i].production => r[i].version = p) /\ (r[i].version = p => r[i].production)
        <4> SUFFICES ASSUME NEW i \in 1 .. l
                     PROVE  (r[i].production => r[i].version = p) /\ (r[i].version = p => r[i].production) OBVIOUS
        <4>1. CASE i = l
          <5>1. r[i] = e BY <1>11, <4>1
          <5> QED BY <1>5, <2>5, <5>1
        <4>2. CASE i # l
          <5>1. i \in 1 .. l - 1 BY <4>2
          <5> QED BY <1>11, <3>1, <5>1
        <4> QED BY <4>1, <4>2
      <3>3. ~ \E u \in Tuners : tuner'[u] = "demoted" BY <1>10, <2>2
      <3> QED BY <1>7, <1>9, <3>2, <3>3 DEF FlagsInv, FlagsFit
    <2>8. PromotedIsLast'
      <3>1. \A u \in Tuners : Promoting(u)' => u = t BY <2>2 DEF Promoting
      <3>2. tuned'[t] = v BY <1>8 DEF TuneTyped
      <3>3. r[l].version = v /\ r[l].metrics = candidate[t] BY <1>5, <1>11
      <3> QED BY <1>1, <1>7, <1>9, <2>5, <3>1, <3>2, <3>3 DEF PromotedIsLast
    <2>9. BaselineHeld'
      <3>1. CASE baseline = firstBaseline BY <1>1, <3>1 DEF BaselineHeld
      <3>2. CASE baseline # firstBaseline
        <4>1. ~ \E u \in Tuners : Promoting(u) BY <1>1, <2>1 DEF Promoting
        <4>2. PICK i \in 1 .. n : s[i].version = p /\ baseline = s[i].metrics /\ i >= n - 0
          BY <1>3, <3>2, <4>1 DEF BaselineHeld, s, p
        <4>3. i = n BY <4>2
        <4>4. l - 1 \in 1 .. l - 1 /\ (l - 1) + d = n /\ l - 1 \in 1 .. l BY <1>7, <4>2
        <4>5. r[l - 1] = s[n] BY <1>11, <4>4
        <4>6. \E u \in Tuners : Promoting(u)' BY <1>10 DEF Promoting
        <4>7. r[l - 1].version = p /\ baseline = r[l - 1].metrics /\ l - 1 >= l - 1 BY <4>2, <4>3, <4>5
        <4> QED BY <1>1, <1>7, <1>9, <4>4, <4>6, <4>7 DEF BaselineHeld
      <3> QED BY <3>1, <3>2
    <2>10. NeverWorse'
      <3> SUFFICES ASSUME deaths = 0, firstBaseline.calmar >= 0, firstBaseline.sharpe >= 0
                   PROVE  /\ ~worsened /\ baseline.calmar >= 0 /\ baseline.sharpe >= 0
                          /\ \A i \in 1 .. l : r[i].version = p => r[i].metrics = baseline
                          /\ \A u \in Candidates' : candidate[u].calmar >= baseline.calmar /\ candidate[u].sharpe >= baseline.sharpe
        BY <1>1, <1>7, <1>9 DEF NeverWorse
      <3>1. /\ ~worsened /\ baseline.calmar >= 0 /\ baseline.sharpe >= 0
            /\ \A i \in 1 .. n : s[i].version = p => s[i].metrics = baseline
            /\ \A u \in Candidates : candidate[u].calmar >= baseline.calmar /\ candidate[u].sharpe >= baseline.sharpe
        BY <1>3 DEF NeverWorse, s, p
      <3>2. Candidates' = Candidates BY <1>1, <1>10 DEF Candidates
      <3>3. ASSUME NEW i \in 1 .. l, r[i].version = p PROVE r[i].metrics = baseline
        <4>1. i # l BY <1>5, <1>11, <2>5, <3>3
        <4>2. i \in 1 .. l - 1 BY <4>1
        <4> QED BY <1>11, <3>1, <3>3, <4>2
      <3> QED BY <3>1, <3>2, <3>3
    <2> QED BY <2>3, <2>6, <2>7, <2>8, <2>9, <2>10
  <1> QED BY <1>1, <1>12, <1>13, <1>14, <1>15, <1>16

(* A flag is set or cleared, and nothing else of a model. *)
LEMMA FlagSet ==
  ASSUME NEW x \in TunedModels, NEW c \in BOOLEAN
  PROVE  /\ [x EXCEPT !.production = c] \in TunedModels /\ [x EXCEPT !.production = c].version = x.version
         /\ [x EXCEPT !.production = c].metrics = x.metrics /\ [x EXCEPT !.production = c].production = c
  BY SMT DEF TunedModels

LEMMA DemoteKeeps ==
  ASSUME TuneInv, NEW t \in Tuners, Demote(t) PROVE TuneInv'
  <1> USE DEF TuneInv
  <1> DEFINE s == registry.models
             p == registry.production
             r == registry'.models
  <1>1. /\ tuner[t] = "registered" /\ tuner' = [tuner EXCEPT ![t] = "demoted"]
        /\ UNCHANGED <<tuned, candidate, disk, baseline, firstBaseline, tuneStop, tuneRunning,
                       tuneClock, tuneRuns, deaths, overlap, worsened>>
    BY DEF Demote
  <1>2. s \in Seq(TunedModels) /\ p \in ModelVersions BY RegistryList
  <1>3. PICK n \in Nat : n = Len(s) /\ DOMAIN s = 1 .. n /\ \A i \in 1 .. n : s[i] \in TunedModels
    BY <1>2, ListFields
  <1>4. /\ r \in Seq(TunedModels) /\ Len(r) = n /\ registry' = [models |-> r, production |-> p] /\ registry'.production = p
        /\ \A i \in 1 .. n : r[i].version = s[i].version /\ r[i].metrics = s[i].metrics
        /\ OfVersion(tuned[t]) # {} => \A i \in 1 .. n : ~r[i].production
    <2>1. CASE OfVersion(tuned[t]) = {}
      <3>1. registry' = registry BY <2>1 DEF Demote
      <3>2. registry = [models |-> s, production |-> p] BY DEF TuneTyped, TunedRegistries
      <3> QED BY <1>2, <1>3, <2>1, <3>1, <3>2
    <2>2. CASE OfVersion(tuned[t]) # {}
      <3> DEFINE f == [i \in 1 .. n |-> [s[i] EXCEPT !.production = FALSE]]
      <3>1. registry' = [models |-> f, production |-> p] BY <1>3, <2>2 DEF Demote
      <3>2. ASSUME NEW i \in 1 .. n
            PROVE  f[i] \in TunedModels /\ f[i].version = s[i].version /\ f[i].metrics = s[i].metrics /\ ~f[i].production
        <4>1. f[i] = [s[i] EXCEPT !.production = FALSE] OBVIOUS
        <4>2. FALSE \in BOOLEAN /\ s[i] \in TunedModels BY <1>3
        <4> HIDE DEF f, s
        <4>3. /\ [s[i] EXCEPT !.production = FALSE] \in TunedModels /\ [s[i] EXCEPT !.production = FALSE].version = s[i].version
              /\ [s[i] EXCEPT !.production = FALSE].metrics = s[i].metrics /\ [s[i] EXCEPT !.production = FALSE].production = FALSE
          BY <4>2, FlagSet
        <4> QED BY <4>1, <4>3
      <3>3. f \in Seq(TunedModels) /\ Len(f) = n
        <4>1. f \in [1 .. n -> TunedModels] BY <3>2
        <4> HIDE DEF f
        <4>2. f \in Seq(TunedModels) BY <4>1, IsASeq
        <4> QED BY <4>1, <4>2, LenProperties
      <3> QED BY <3>1, <3>2, <3>3
    <2> QED BY <2>1, <2>2
  <1>5. tuner'[t] = "demoted" /\ \A u \in Tuners : u # t => tuner'[u] = tuner[u] BY <1>1 DEF TuneTyped
  <1>6. DOMAIN r = 1 .. n BY <1>4, LenProperties
  <1> HIDE DEF r, s, p
  <1>7. TuneTyped'
    <2>1. tuner' \in [Tuners -> {"off", "waiting", "looking", "trials", "studied", "better", "registered", "demoted"}]
      BY <1>1 DEF TuneTyped
    <2>2. registry' \in TunedRegistries BY <1>2, <1>4 DEF TunedRegistries
    <2>3. Len(registry'.models) <= Kept BY <1>3, <1>4 DEF TuneTyped, s, r
    <2> QED BY <1>1, <2>1, <2>2, <2>3 DEF TuneTyped
  <1>8. SameModels' BY <1>1, <1>3, <1>4 DEF SameModels, s, p, r
  <1>9. WinnersOnly' BY <1>3, <1>4, <1>6 DEF WinnersOnly, s, r
  <1>10. WinnersComing' BY <1>1, <1>5 DEF WinnersComing
  <1>11. ASSUME ~overlap PROVE SoloInv'
    <2> USE <1>11 DEF SoloInv
    <2>1. \A u \in Tuners : u # t => tuner[u] \in {"off", "waiting"} BY <1>1, OnlyOne
    <2>2. \A u \in Tuners : u # t => tuner'[u] \in {"off", "waiting"} BY <1>5, <2>1
    <2>3. Alone' BY <2>2 DEF Alone, Busy
    <2>4. VersionsGrow'
      <3>1. \A u \in Tuners : ~Later(u)' BY <1>5, <2>2 DEF Later
      <3>2. /\ \A i, j \in 1 .. n : i < j => s[i].version[2] < s[j].version[2]
            /\ p[2] <= tuneClock /\ \A i \in 1 .. n : s[i].version[2] <= tuneClock
        BY <1>3 DEF VersionsGrow, s, p
      <3>3. \A i, j \in 1 .. n : i < j => r[i].version[2] < r[j].version[2] BY <1>4, <3>2
      <3>4. \A i \in 1 .. n : r[i].version[2] <= tuneClock BY <1>4, <3>2
      <3> QED BY <1>1, <1>4, <3>1, <3>2, <3>3, <3>4 DEF VersionsGrow, r
    <2>5. n >= 1 /\ s[n].version = tuned[t] /\ s[n].metrics = candidate[t] /\ tuned[t] # p
      BY <1>1, <1>3 DEF PromotedIsLast, Promoting, s, p
    <2>6. FlagsInv'
      <3>1. n \in OfVersion(tuned[t]) BY <1>3, <2>5 DEF OfVersion, s
      <3>2. \A i \in 1 .. n : ~r[i].production BY <1>4, <3>1
      <3>3. FlagsFit(disk)' BY <1>1 DEF FlagsInv, FlagsFit
      <3>4. \E u \in Tuners : tuner'[u] = "demoted" BY <1>5
      <3> QED BY <1>4, <3>2, <3>3, <3>4 DEF FlagsInv, r
    <2>7. PromotedIsLast'
      <3>1. \A u \in Tuners : Promoting(u)' => u = t BY <2>2 DEF Promoting
      <3>2. r[n].version = tuned[t] /\ r[n].metrics = candidate[t] BY <1>4, <2>5
      <3> QED BY <1>1, <1>4, <2>5, <3>1, <3>2 DEF PromotedIsLast, r
    <2>8. BaselineHeld'
      <3>1. CASE baseline = firstBaseline BY <1>1, <3>1 DEF BaselineHeld
      <3>2. CASE baseline # firstBaseline
        <4>1. (\E u \in Tuners : Promoting(u)) /\ (\E u \in Tuners : Promoting(u)') BY <1>1, <1>5 DEF Promoting
        <4>2. PICK i \in 1 .. n : s[i].version = p /\ baseline = s[i].metrics /\ i >= n - 1
          BY <1>3, <3>2, <4>1 DEF BaselineHeld, s, p
        <4>3. r[i].version = p /\ baseline = r[i].metrics BY <1>4, <4>2
        <4> QED BY <1>1, <1>4, <4>1, <4>2, <4>3 DEF BaselineHeld, r
      <3> QED BY <3>1, <3>2
    <2>9. NeverWorse'
      <3>1. Candidates' = Candidates BY <1>1, <1>5 DEF Candidates
      <3>2. ASSUME \A i \in 1 .. n : s[i].version = p => s[i].metrics = baseline
            PROVE  \A i \in 1 .. n : r[i].version = p => r[i].metrics = baseline
        BY <1>4, <3>2
      <3> QED BY <1>1, <1>3, <1>4, <3>1, <3>2 DEF NeverWorse, s, p, r
    <2> QED BY <2>3, <2>4, <2>6, <2>7, <2>8, <2>9
  <1> QED BY <1>1, <1>7, <1>8, <1>9, <1>10, <1>11

LEMMA PromoteKeeps ==
  ASSUME TuneInv, NEW t \in Tuners, Promote(t) PROVE TuneInv'
  <1> USE DEF TuneInv
  <1> DEFINE s == registry.models
             p == registry.production
             r == registry'.models
             of == OfVersion(tuned[t])
             worse == \E k \in InService : \/ candidate[t].calmar < registry.models[k].metrics.calmar
                                           \/ candidate[t].sharpe < registry.models[k].metrics.sharpe
  <1>1. /\ tuner[t] = "demoted" /\ tuner' = [tuner EXCEPT ![t] = EndOf(t)] /\ baseline' = candidate[t]
        /\ candidate' = [candidate EXCEPT ![t] = NoMetrics] /\ tuned' = [tuned EXCEPT ![t] = NoVersion]
        /\ worsened' = (worsened \/ worse)
        /\ UNCHANGED <<firstBaseline, tuneStop, tuneRunning, tuneClock, tuneRuns, deaths, overlap>>
    BY DEF Promote
  <1>2. s \in Seq(TunedModels) /\ p \in ModelVersions BY RegistryList
  <1>3. PICK n \in Nat : n = Len(s) /\ DOMAIN s = 1 .. n
          /\ \A i \in 1 .. n : s[i] \in TunedModels /\ s[i].version[2] \in Nat
    BY <1>2, ListFields
  <1>4. tuned[t] \in ModelVersions /\ candidate[t] \in Metrics BY DEF TuneTyped
  <1>5. of \subseteq 1 .. n /\ \A i \in 1 .. n : i \in of <=> s[i].version = tuned[t] BY <1>3 DEF OfVersion
  <1>6. PICK j : j = CHOOSE k \in of : \A l \in of : k <= l OBVIOUS
  <1>7. of # {} => j \in of /\ \A l \in of : j <= l
    <2> SUFFICES ASSUME of # {} PROVE j \in of /\ \A l \in of : j <= l OBVIOUS
    <2>1. of \subseteq Nat BY <1>5
    <2> HIDE DEF of
    <2>2. \E k \in of : \A l \in of : k <= l BY <2>1, LeastNatural
    <2> QED BY <1>6, <2>2
  <1>8. /\ registry' \in TunedRegistries /\ disk' \in TunedRegistries /\ Len(r) = n /\ SameModels'
        /\ \A i \in 1 .. n : r[i].version = s[i].version /\ r[i].metrics = s[i].metrics
        /\ of # {} => /\ registry'.production = tuned[t] /\ disk'.models = r /\ disk'.production = tuned[t]
                      /\ \A i \in 1 .. n : IF i = j THEN r[i].production ELSE r[i].production = s[i].production
    <2>1. CASE of = {}
      <3>1. registry' = registry /\ disk' = disk BY <2>1 DEF Promote
      <3>2. SameModels' BY <3>1 DEF SameModels
      <3>3. registry' \in TunedRegistries /\ disk' \in TunedRegistries BY <3>1 DEF TuneTyped
      <3> QED BY <1>3, <2>1, <3>1, <3>2, <3>3
    <2>2. CASE of # {}
      <3> DEFINE f == [s EXCEPT ![j].production = TRUE]
      <3>1. registry' = [models |-> f, production |-> tuned[t]] /\ disk' = [models |-> f, production |-> tuned[t]]
        BY <1>6, <2>2 DEF Promote
      <3>2. j \in 1 .. n BY <1>5, <1>7, <2>2
      <3>3. s[j] \in TunedModels BY <1>3, <3>2
      <3>4. PICK e \in TunedModels : e = [s[j] EXCEPT !.production = TRUE]
              /\ e.version = s[j].version /\ e.metrics = s[j].metrics /\ e.production
        <4> HIDE DEF s
        <4>1. TRUE \in BOOLEAN OBVIOUS
        <4>2. /\ [s[j] EXCEPT !.production = TRUE] \in TunedModels /\ [s[j] EXCEPT !.production = TRUE].version = s[j].version
              /\ [s[j] EXCEPT !.production = TRUE].metrics = s[j].metrics /\ [s[j] EXCEPT !.production = TRUE].production = TRUE
          BY <3>3, <4>1, FlagSet
        <4> QED BY <4>2
      <3>5. f = [i \in 1 .. n |-> IF i = j THEN e ELSE s[i]]
        <4>1. f = [i \in 1 .. n |-> IF i = j THEN [s[j] EXCEPT !.production = TRUE] ELSE s[i]] BY <1>3
        <4> QED BY <3>4, <4>1
      <3>6. f \in Seq(TunedModels) /\ Len(f) = n
        <4>1. f \in [1 .. n -> TunedModels] BY <1>3, <3>4, <3>5
        <4> HIDE DEF f
        <4>2. f \in Seq(TunedModels) BY <4>1, IsASeq
        <4> QED BY <4>1, <4>2, LenProperties
      <3>7. /\ \A i \in 1 .. n : f[i].version = s[i].version /\ f[i].metrics = s[i].metrics
            /\ \A i \in 1 .. n : IF i = j THEN f[i].production ELSE f[i].production = s[i].production
        BY <3>2, <3>3, <3>4, <3>5
      <3> HIDE DEF f
      <3>8. r = f /\ disk'.models = f /\ registry'.production = tuned[t] /\ disk'.production = tuned[t] BY <3>1
      <3>9. registry' \in TunedRegistries /\ disk' \in TunedRegistries BY <1>4, <3>1, <3>6 DEF TunedRegistries
      <3>10. SameModels' BY <3>8 DEF SameModels
      <3> QED BY <3>6, <3>7, <3>8, <3>9, <3>10
    <2> QED BY <2>1, <2>2
  <1>9. tuner'[t] = EndOf(t) /\ EndOf(t) \in {"off", "looking"} /\ \A u \in Tuners : u # t => tuner'[u] = tuner[u]
    BY <1>1, EndsQuiet DEF TuneTyped
  <1>10. DOMAIN r = 1 .. n BY <1>8, LenProperties DEF TunedRegistries
  <1> HIDE DEF r, s, p, of, worse
  <1>11. TuneTyped'
    <2>1. tuner' \in [Tuners -> {"off", "waiting", "looking", "trials", "studied", "better", "registered", "demoted"}]
      BY <1>1, EndsQuiet DEF TuneTyped
    <2>2. tuned' \in [Tuners -> ModelVersions] /\ candidate' \in [Tuners -> Metrics]
      <3>1. NoVersion \in ModelVersions /\ NoMetrics \in Metrics BY DEF NoVersion, ModelVersions, NoMetrics, Metrics
      <3> QED BY <1>1, <3>1 DEF TuneTyped
    <2>3. Len(registry'.models) <= Kept BY <1>3, <1>8 DEF TuneTyped, s, r
    <2>4. worsened' \in BOOLEAN BY <1>1, Zenon DEF worse
    <2>5. baseline' \in Metrics BY <1>1, <1>4
    <2> QED BY <1>1, <1>8, <2>1, <2>2, <2>3, <2>4, <2>5 DEF TuneTyped
  <1>12. WinnersOnly' BY <1>3, <1>8, <1>10 DEF WinnersOnly, s, r
  <1>13. WinnersComing'
    <2>1. \A u \in Tuners : u # t => candidate'[u] = candidate[u] BY <1>1 DEF TuneTyped
    <2> QED BY <1>9, <2>1 DEF WinnersComing
  <1>14. ASSUME ~overlap PROVE SoloInv'
    <2> USE <1>14 DEF SoloInv
    <2>1. \A u \in Tuners : u # t => tuner[u] \in {"off", "waiting"} BY <1>1, OnlyOne
    <2>2. \A u \in Tuners : tuner'[u] \in {"off", "waiting", "looking"} BY <1>9, <2>1
    <2>3. Alone'
      <3>1. \A u \in Tuners : u # t => tuner'[u] \in {"off", "waiting"} BY <1>9, <2>1
      <3> QED BY <3>1 DEF Alone, Busy
    <2>4. n >= 1 /\ s[n].version = tuned[t] /\ s[n].metrics = candidate[t] /\ tuned[t] # p
      BY <1>1, <1>3 DEF PromotedIsLast, Promoting, s, p
    <2>5. /\ \A i, k \in 1 .. n : i < k => s[i].version[2] < s[k].version[2]
          /\ \A i \in 1 .. n : s[i].version[2] <= tuneClock
      BY <1>3 DEF VersionsGrow, s
    <2>6. \A i \in 1 .. n : s[i].version = tuned[t] => i = n
      <3> SUFFICES ASSUME NEW i \in 1 .. n, i # n PROVE s[i].version # tuned[t] OBVIOUS
      <3>1. i < n OBVIOUS
      <3>2. s[i].version[2] < s[n].version[2] BY <2>4, <2>5, <3>1
      <3>3. s[i].version[2] \in Nat /\ s[n].version[2] \in Nat BY <1>3, <2>4
      <3> QED BY <2>4, <3>2, <3>3
    <2>7. of # {} /\ j = n
      <3>1. n \in of BY <1>5, <2>4
      <3>2. j \in of BY <1>7, <3>1
      <3>3. j \in 1 .. n /\ s[j].version = tuned[t] BY <1>5, <3>2
      <3> QED BY <2>6, <3>1, <3>3
    <2>8. VersionsGrow'
      <3>1. \A u \in Tuners : ~Later(u)' BY <2>2 DEF Later
      <3>2. \A i, k \in 1 .. n : i < k => r[i].version[2] < r[k].version[2] BY <1>8, <2>5
      <3>3. \A i \in 1 .. n : r[i].version[2] <= tuneClock BY <1>8, <2>5
      <3>4. tuned[t][2] <= tuneClock BY <2>4, <2>5
      <3> QED BY <1>1, <1>8, <2>7, <3>1, <3>2, <3>3, <3>4 DEF VersionsGrow, r
    <2>9. FlagsInv'
      <3>1. \A i \in 1 .. n : ~s[i].production BY <1>1, <1>3 DEF FlagsInv, s
      <3>2. \A i \in 1 .. n : (r[i].production => r[i].version = tuned[t]) /\ (r[i].version = tuned[t] => r[i].production)
        <4> SUFFICES ASSUME NEW i \in 1 .. n
                     PROVE  (r[i].production => r[i].version = tuned[t]) /\ (r[i].version = tuned[t] => r[i].production) OBVIOUS
        <4>1. CASE i = n BY <1>8, <2>4, <2>7, <4>1
        <4>2. CASE i # n
          <5>1. r[i].version # tuned[t] BY <1>8, <2>6, <4>2
          <5>2. r[i].production = s[i].production BY <1>8, <2>7, <4>2
          <5> QED BY <3>1, <5>1, <5>2
        <4> QED BY <4>1, <4>2
      <3>3. ~ \E u \in Tuners : tuner'[u] = "demoted" BY <2>2
      <3>4. disk'.models = r /\ disk'.production = tuned[t] /\ registry'.production = tuned[t] BY <1>8, <2>7
      <3>5. FlagsFit(registry') BY <1>8, <3>2, <3>4 DEF FlagsFit, r
      <3>6. FlagsFit(disk') BY <1>8, <3>2, <3>4 DEF FlagsFit
      <3> QED BY <3>3, <3>5, <3>6 DEF FlagsInv, FlagsFit
    <2>10. PromotedIsLast' BY <2>2 DEF PromotedIsLast, Promoting
    <2>11. r[n].version = registry'.production /\ baseline' = r[n].metrics /\ n \in 1 .. n
      BY <1>1, <1>8, <2>4, <2>7
    <2>12. BaselineHeld'
      <3>1. ~ \E u \in Tuners : Promoting(u)' BY <2>2 DEF Promoting
      <3>2. n >= n - 0 OBVIOUS
      <3> QED BY <1>8, <2>11, <3>1, <3>2 DEF BaselineHeld, r
    <2>13. NeverWorse'
      <3> SUFFICES ASSUME deaths = 0, firstBaseline.calmar >= 0, firstBaseline.sharpe >= 0
                   PROVE  /\ ~worsened' /\ baseline'.calmar >= 0 /\ baseline'.sharpe >= 0
                          /\ \A i \in 1 .. n : r[i].version = registry'.production => r[i].metrics = baseline'
                          /\ Candidates' = {}
        BY <1>1, <1>8 DEF NeverWorse, r
      <3>1. /\ ~worsened /\ baseline.calmar >= 0 /\ baseline.sharpe >= 0
            /\ \A i \in 1 .. n : s[i].version = p => s[i].metrics = baseline
            /\ candidate[t].calmar >= baseline.calmar /\ candidate[t].sharpe >= baseline.sharpe
        BY <1>1, <1>3 DEF NeverWorse, Candidates, s, p
      <3>2. candidate[t].calmar \in Int /\ candidate[t].sharpe \in Int /\ baseline.calmar \in Int /\ baseline.sharpe \in Int
        BY <1>4 DEF TuneTyped, Metrics
      <3>3. ~worse
        <4>1. ASSUME NEW k \in InService PROVE registry.models[k].metrics = baseline
          <5>1. k \in 1 .. n /\ s[k].version = p BY <1>3 DEF InService, s, p
          <5> QED BY <3>1, <5>1 DEF s
        <4> QED BY <3>1, <3>2, <4>1 DEF worse
      <3>4. ~worsened' BY <1>1, <3>1, <3>3
      <3>5. baseline'.calmar >= 0 /\ baseline'.sharpe >= 0 BY <1>1, <3>1, <3>2
      <3>6. ASSUME NEW i \in 1 .. n, r[i].version = registry'.production PROVE r[i].metrics = baseline'
        <4>1. i = n BY <1>8, <2>6, <2>7, <3>6
        <4> QED BY <2>11, <4>1
      <3>7. Candidates' = {} BY <2>2 DEF Candidates
      <3> QED BY <3>4, <3>5, <3>6, <3>7
    <2> QED BY <2>3, <2>8, <2>9, <2>10, <2>12, <2>13
  <1> QED BY <1>1, <1>8, <1>11, <1>12, <1>13, <1>14

LEMMA DieKeeps == ASSUME TuneInv, Die PROVE TuneInv'
  <1> USE DEF TuneInv
  <1>1. /\ deaths' = deaths + 1 /\ disk' = registry' /\ baseline' = firstBaseline
        /\ tuner' = [t \in Tuners |-> "off"] /\ candidate' = [t \in Tuners |-> NoMetrics] /\ tuned' = [t \in Tuners |-> NoVersion]
        /\ tuneStop' = FALSE /\ tuneRunning' = FALSE
        /\ UNCHANGED <<firstBaseline, tuneClock, tuneRuns, overlap, worsened>>
    BY DEF Die
  <1>2. registry' = NoModels \/ registry' = disk BY DEF Die
  <1>3. NoModels \in TunedRegistries /\ NoModels.models = <<>> /\ Len(NoModels.models) = 0 /\ NoModels.production = NoVersion
    <2>1. <<>> \in Seq(TunedModels) BY EmptySeq
    <2>2. NoVersion \in ModelVersions BY DEF NoVersion, ModelVersions
    <2> QED BY <2>1, <2>2 DEF TunedRegistries, NoModels
  <1>4. registry' \in TunedRegistries /\ Len(registry'.models) <= Kept
    <2>1. CASE registry' = NoModels BY <1>3, <2>1, TuneNumbers
    <2>2. CASE registry' = disk BY <2>2 DEF TuneTyped, SameModels
    <2> QED BY <1>2, <2>1, <2>2
  <1>5. \A u \in Tuners : tuner'[u] = "off" BY <1>1
  <1>6. TuneTyped'
    <2>1. NoVersion \in ModelVersions /\ NoMetrics \in Metrics BY DEF NoVersion, ModelVersions, NoMetrics, Metrics
    <2>2. tuner' \in [Tuners -> {"off", "waiting", "looking", "trials", "studied", "better", "registered", "demoted"}]
          /\ tuned' \in [Tuners -> ModelVersions] /\ candidate' \in [Tuners -> Metrics]
      BY <1>1, <2>1
    <2>3. deaths' \in Nat BY <1>1 DEF TuneTyped
    <2> QED BY <1>1, <1>4, <2>2, <2>3 DEF TuneTyped
  <1>7. SameModels' BY <1>1 DEF SameModels
  <1>8. WinnersOnly'
    <2>1. CASE registry' = NoModels BY <1>3, <2>1 DEF WinnersOnly
    <2>2. CASE registry' = disk
      <3>1. registry.models \in Seq(TunedModels) /\ disk.models \in Seq(TunedModels) BY RegistryList
      <3>2. DOMAIN registry.models = 1 .. Len(registry.models) /\ DOMAIN disk.models = 1 .. Len(disk.models) BY <3>1, ListFields
      <3> QED BY <2>2, <3>2 DEF WinnersOnly, SameModels
    <2> QED BY <1>2, <2>1, <2>2
  <1>9. WinnersComing' BY <1>5 DEF WinnersComing
  <1>10. ASSUME ~overlap PROVE SoloInv'
    <2> USE <1>10 DEF SoloInv
    <2>1. Alone' BY <1>5 DEF Alone, Busy
    <2>2. VersionsGrow'
      <3>1. \A u \in Tuners : ~Later(u)' BY <1>5 DEF Later
      <3>2. CASE registry' = NoModels
        <4>1. NoVersion[2] <= tuneClock BY DEF NoVersion, TuneTyped
        <4> QED BY <1>1, <1>3, <3>1, <3>2, <4>1 DEF VersionsGrow
      <3>3. CASE registry' = disk BY <1>1, <3>1, <3>3 DEF VersionsGrow, SameModels
      <3> QED BY <1>2, <3>2, <3>3
    <2>3. FlagsInv'
      <3>1. FlagsFit(NoModels) BY <1>3 DEF FlagsFit
      <3>2. FlagsFit(registry') BY <1>2, <3>1 DEF FlagsInv
      <3>3. ~ \E u \in Tuners : tuner'[u] = "demoted" BY <1>5
      <3> QED BY <1>1, <3>2, <3>3 DEF FlagsInv, FlagsFit
    <2>4. PromotedIsLast' BY <1>5 DEF PromotedIsLast, Promoting
    <2>5. BaselineHeld' BY <1>1 DEF BaselineHeld
    <2>6. NeverWorse'
      <3>1. deaths' # 0 BY <1>1 DEF TuneTyped
      <3> QED BY <3>1 DEF NeverWorse
    <2> QED BY <2>1, <2>2, <2>3, <2>4, <2>5, <2>6
  <1> QED BY <1>1, <1>6, <1>7, <1>8, <1>9, <1>10

LEMMA TuneStep == ASSUME TuneInv, [TuneNext]_tuneVars PROVE TuneInv'
  <1>1. CASE UNCHANGED tuneVars
    <2>1. UNCHANGED <<tuner, tuned, candidate, registry, disk, baseline, firstBaseline, tuneClock, tuneRuns, deaths, overlap, worsened>>
          /\ tuneStop' = tuneStop /\ tuneRunning' = tuneRunning BY <1>1 DEF tuneVars
    <2>2. tuneStop' \in BOOLEAN /\ tuneRunning' \in BOOLEAN BY <2>1 DEF TuneInv, TuneTyped
    <2> QED BY <2>1, <2>2, OnlyTheScheduler
  <1>2. Caller \in Tuners /\ TuneLoops \subseteq Tuners BY DEF Tuners
  <1>3. CASE tuner[Caller] = "off" /\ BeginRun(Caller) BY <1>2, <1>3, BeginRunKeeps
  <1>4. CASE \E t \in TuneLoops : tuner[t] = "waiting" /\ ~tuneStop /\ BeginRun(t) BY <1>2, <1>4, BeginRunKeeps
  <1>5. CASE \E t \in Tuners, allPruned \in BOOLEAN : Optimize(t, allPruned) BY <1>5, OptimizeKeeps
  <1>6. CASE \E t \in Tuners, m \in WalkForwards : Validate(t, m) BY <1>6, ValidateKeeps
  <1>7. CASE \E t \in Tuners : RegisterModel(t) \/ Demote(t) \/ Promote(t)
    BY <1>7, RegisterModelKeeps, DemoteKeeps, PromoteKeeps
  <1>8. CASE \E t \in TuneLoops : StartTuning(t) \/ LoopLooks(t) BY <1>2, <1>8, StartTuningKeeps, LoopLooksKeeps
  <1>9. CASE StopTuning
    <2>1. UNCHANGED <<tuner, tuned, candidate, registry, disk, baseline, firstBaseline, tuneClock, tuneRuns, deaths, overlap, worsened>>
          /\ tuneStop' \in BOOLEAN /\ tuneRunning' \in BOOLEAN BY <1>9 DEF StopTuning, TuneRest
    <2> QED BY <2>1, OnlyTheScheduler
  <1>10. CASE Die BY <1>10, DieKeeps
  <1> QED BY <1>1, <1>3, <1>4, <1>5, <1>6, <1>7, <1>8, <1>9, <1>10 DEF TuneNext

(* What the invariant says of the tuned models. *)
LEMMA TuneImplies == ASSUME TuneInv PROVE AutoMLSound
  <1> USE DEF TuneInv
  <1> DEFINE s == registry.models
             p == registry.production
  <1>1. PICK n \in Nat : n = Len(s) /\ DOMAIN s = 1 .. n
          /\ \A i \in 1 .. n : s[i].version[2] \in Nat
    BY RegistryList, ListFields
  <1>2. TuneTypeOK BY DEF TuneTyped, TuneTypeOK
  <1>3. ASSUME ~overlap PROVE \A i \in 1 .. n, j \in 1 .. n : i # j => s[i].version # s[j].version
    <2>1. \A i, j \in 1 .. n : i < j => s[i].version[2] < s[j].version[2] BY <1>1, <1>3 DEF SoloInv, VersionsGrow
    <2> SUFFICES ASSUME NEW i \in 1 .. n, NEW j \in 1 .. n, i # j PROVE s[i].version # s[j].version OBVIOUS
    <2>2. i < j \/ j < i OBVIOUS
    <2>3. s[i].version[2] \in Nat /\ s[j].version[2] \in Nat BY <1>1
    <2>4. s[i].version[2] # s[j].version[2] BY <2>1, <2>2, <2>3
    <2> QED BY <2>4
  <1>4. OneInProduction
    <2> SUFFICES ASSUME ~overlap, \A t \in Tuners : tuner[t] # "demoted"
                 PROVE  Flagged = InService /\ Cardinality(Flagged) <= 1
      BY DEF OneInProduction
    <2>1. \A i \in 1 .. n : (s[i].production => s[i].version = p) /\ (s[i].version = p => s[i].production)
      BY <1>1 DEF SoloInv, FlagsInv, FlagsFit
    <2>2. Flagged = InService BY <1>1, <2>1 DEF Flagged, InService
    <2>3. \A i, j \in InService : i = j BY <1>1, <1>3 DEF InService
    <2>4. Cardinality(InService) <= 1
      <3>1. CASE InService = {}
        <4>1. Cardinality(InService) = 0 BY <3>1, FS_EmptySet
        <4> QED BY <4>1
      <3>2. CASE InService # {}
        <4>1. PICK i : InService = {i}
          <5>1. PICK i : i \in InService BY <3>2
          <5>2. InService = {i} BY <2>3, <5>1
          <5> QED BY <5>2
        <4>2. Cardinality(InService) = 1 BY <4>1, FS_Singleton
        <4> QED BY <4>2
      <3> QED BY <3>1, <3>2
    <2> QED BY <2>2, <2>4
  <1>5. BaselineIsProduction
    <2> SUFFICES ASSUME ~overlap PROVE baseline = firstBaseline \/ \E i \in InService : baseline = registry.models[i].metrics
      BY DEF BaselineIsProduction
    <2>1. CASE baseline = firstBaseline BY <2>1
    <2>2. CASE baseline # firstBaseline
      <3>1. PICK i \in 1 .. n : s[i].version = p /\ baseline = s[i].metrics BY <1>1, <2>2 DEF SoloInv, BaselineHeld
      <3>2. i \in InService BY <1>1, <3>1 DEF InService
      <3> QED BY <3>1, <3>2
    <2> QED BY <2>1, <2>2
  <1>6. VersionsDiffer BY <1>1, <1>3 DEF VersionsDiffer
  <1>7. OnlyBetterReplaces BY DEF OnlyBetterReplaces, SoloInv, NeverWorse
  <1>8. WinnersOnly OBVIOUS
  <1> QED BY <1>2, <1>4, <1>5, <1>6, <1>7, <1>8 DEF AutoMLSound

(* For any threads, evaluations, baselines and size of the registry: only what won its validation is *)
(* listed, and of one run at a time the model flagged is the one in production, the baseline is what *)
(* that one was validated with, and while the process lives it is replaced by no worse               *)
(* (continuous_automl.py, run_optimization).                                                         *)
THEOREM AutoMLIsSound == TuneSpec => []AutoMLSound
  <1>1. TuneInit => TuneInv BY TuneInitially
  <1>2. TuneInv /\ [TuneNext]_tuneVars => TuneInv' BY TuneStep
  <1>3. TuneInv => AutoMLSound BY TuneImplies
  <1> QED BY <1>1, <1>2, <1>3, PTL DEF TuneSpec

-----------------------------------------------------------------------------
(* ... and the learner that takes sample by sample. *)

(* A factor that is not positive turns an order round. *)
LEMMA TurnsRound ==
  ASSUME NEW c \in Int, NEW x \in Int, NEW y \in Int, c <= 0, x <= y PROVE c * x >= c * y
  <1>1. PICK k \in Nat : k = -c OBVIOUS
  <1>2. PICK d \in Nat : y = x + d
    <2>1. y - x \in Nat /\ y = x + (y - x) OBVIOUS
    <2> QED BY <2>1
  <1>3. k * d >= 0 BY <1>1, <1>2
  <1>4. c * y = c * x - k * d BY <1>1, <1>2
  <1> QED BY <1>3, <1>4

(* The weights of the first j of m values add up to j * (j - m), which is not positive. *)
LEMMA WeightsAdd ==
  ASSUME NEW m \in Nat, NEW j \in 1 .. m, NEW x \in Int
  PROVE  /\ j * (j - m) \in Int /\ j * (j - m) <= 0 /\ 2 * j - m - 1 \in Int
         /\ j > 1 => ((j - 1) * (j - 1 - m)) * x + (2 * j - m - 1) * x = (j * (j - m)) * x
  <1>1. PICK d \in Nat : d = m - j OBVIOUS
  <1>2. j * d >= 0 BY <1>1
  <1>3. j * (j - m) = -(j * d) BY <1>1
  <1>4. (j - 1) * (j - 1 - m) + (2 * j - m - 1) = j * (j - m) OBVIOUS
  <1>5. PICK u \in Int, v \in Int, w \in Int : u = (j - 1) * (j - 1 - m) /\ v = 2 * j - m - 1 /\ w = j * (j - m)
    OBVIOUS
  <1>6. u * x + v * x = (u + v) * x OBVIOUS
  <1> QED BY <1>2, <1>3, <1>4, <1>5, <1>6

(* The slope through values that never fall is not negative: the sum over the first ones is no less *)
(* than if all of them were as high as the last of them.                                            *)
LEMMA SlopeOfRise ==
  ASSUME NEW m \in Nat \ {0}, NEW a, \A i \in 1 .. m : a[i] \in Int, \A i \in 2 .. m : a[i] >= a[i - 1],
         NEW w, \A i \in 1 .. m : w[i] = (2 * i - m - 1) * a[i]
  PROVE  Total(w, 1 .. m) >= 0
  <1> DEFINE High(j) == Total(w, 1 .. j) >= (j * (j - m)) * a[j]
             Bad == {j \in 1 .. m : ~High(j)}
  <1>1. \A i \in 1 .. m : w[i] \in Int BY WeightsAdd
  <1>2. ASSUME NEW j \in Nat, j + 1 \in 1 .. m PROVE Total(w, 1 .. j + 1) = Total(w, 1 .. j) + w[j + 1] /\ Total(w, 1 .. j) \in Int
    <2>1. \A k \in 1 .. j : w[k] \in Int /\ w[k] = w[k] BY <1>1, <1>2
    <2> QED BY <1>1, <1>2, <2>1, TotalAppends
  <1>3. ASSUME Bad # {} PROVE FALSE
    <2>1. PICK j \in Bad : \A k \in Bad : j <= k
      <3>1. Bad \subseteq Nat OBVIOUS
      <3> HIDE DEF Bad
      <3> QED BY <1>3, <3>1, LeastNatural
    <2>2. j \in 1 .. m /\ ~High(j) BY <2>1
    <2>3. CASE j = 1
      <3>1. 1 .. 0 = {} /\ Total(w, 1 .. 0) = 0 BY TotalEmpty
      <3>2. Total(w, 1 .. 1) = Total(w, 1 .. 0) + w[1]
        <4>1. 0 \in Nat /\ 0 + 1 = 1 /\ 0 + 1 \in 1 .. m BY <2>2, <2>3
        <4>2. Total(w, 1 .. 0 + 1) = Total(w, 1 .. 0) + w[0 + 1] BY <1>2, <4>1
        <4> QED BY <4>1, <4>2
      <3>3. w[1] = (1 - m) * a[1] /\ a[1] \in Int BY <2>2, <2>3
      <3>4. PICK z \in Int : z = (1 - m) * a[1] BY <3>3
      <3>5. Total(w, 1 .. 1) = z BY <3>1, <3>2, <3>3, <3>4
      <3>6. 1 * (1 - m) = 1 - m OBVIOUS
      <3>7. High(1) BY <3>4, <3>5, <3>6
      <3> QED BY <2>2, <2>3, <3>7
    <2>4. CASE j > 1
      <3>1. j - 1 \in 1 .. m /\ High(j - 1)
        <4>1. j - 1 \in 1 .. m /\ ~(j <= j - 1) BY <2>2, <2>4
        <4> QED BY <2>1, <4>1
      <3>2. a[j] \in Int /\ a[j - 1] \in Int /\ a[j - 1] <= a[j] BY <2>2, <2>4, <3>1
      <3>3. ((j - 1) * (j - 1 - m)) * a[j - 1] >= ((j - 1) * (j - 1 - m)) * a[j]
        <4>1. (j - 1) * (j - 1 - m) \in Int /\ (j - 1) * (j - 1 - m) <= 0 BY <3>1, <3>2, WeightsAdd
        <4> QED BY <3>2, <4>1, TurnsRound
      <3>4. Total(w, 1 .. j) = Total(w, 1 .. j - 1) + w[j] /\ Total(w, 1 .. j - 1) \in Int
        <4>1. j - 1 \in Nat /\ (j - 1) + 1 = j BY <2>2, <2>4
        <4> QED BY <1>2, <2>2, <4>1
      <3>5. w[j] = (2 * j - m - 1) * a[j] BY <2>2
      <3>6. ((j - 1) * (j - 1 - m)) * a[j] + (2 * j - m - 1) * a[j] = (j * (j - m)) * a[j] BY <2>2, <2>4, <3>2, WeightsAdd
      <3>7. PICK p \in Int, q \in Int, r \in Int, s \in Int :
              p = ((j - 1) * (j - 1 - m)) * a[j - 1] /\ q = ((j - 1) * (j - 1 - m)) * a[j]
              /\ r = (2 * j - m - 1) * a[j] /\ s = (j * (j - m)) * a[j]
        <4>1. /\ (j - 1) * (j - 1 - m) \in Int /\ 2 * j - m - 1 \in Int /\ j * (j - m) \in Int
          BY <2>2, <3>1, <3>2, WeightsAdd
        <4> QED BY <3>2, <4>1
      <3>8. Total(w, 1 .. j - 1) >= p BY <3>1, <3>7
      <3>9. Total(w, 1 .. j) >= s BY <3>3, <3>4, <3>5, <3>6, <3>7, <3>8
      <3> QED BY <2>2, <3>7, <3>9
    <2> QED BY <2>2, <2>3, <2>4
  <1>4. High(m) BY <1>3
  <1>5. (m * (m - m)) * a[m] = 0
    <2>1. m - m = 0 /\ m * 0 = 0 /\ a[m] \in Int OBVIOUS
    <2> QED BY <2>1
  <1> QED BY <1>4, <1>5

(* ... and the slope through values that never rise is not positive. *)
LEMMA SlopeOfFall ==
  ASSUME NEW m \in Nat \ {0}, NEW a, \A i \in 1 .. m : a[i] \in Int, \A i \in 2 .. m : a[i] <= a[i - 1],
         NEW w, \A i \in 1 .. m : w[i] = (2 * i - m - 1) * a[i]
  PROVE  Total(w, 1 .. m) <= 0
  <1> DEFINE b == [i \in 1 .. m |-> -a[i]]
             v == [i \in 1 .. m |-> (2 * i - m - 1) * b[i]]
             Off(j) == Total(v, 1 .. j) # -Total(w, 1 .. j)
             Bad == {j \in 0 .. m : Off(j)}
  <1>1. /\ \A i \in 1 .. m : b[i] \in Int
        /\ \A i \in 2 .. m : b[i] >= b[i - 1]
        /\ \A i \in 1 .. m : v[i] = (2 * i - m - 1) * b[i]
    OBVIOUS
  <1>2. Total(v, 1 .. m) >= 0
    <2> HIDE DEF b, v
    <2> QED BY <1>1, SlopeOfRise
  <1>3. \A i \in 1 .. m : w[i] \in Int /\ v[i] = -w[i]
    <2> SUFFICES ASSUME NEW i \in 1 .. m PROVE w[i] \in Int /\ v[i] = -w[i] OBVIOUS
    <2>1. PICK n \in Int : n = 2 * i - m - 1 OBVIOUS
    <2>2. a[i] \in Int /\ w[i] = n * a[i] /\ v[i] = n * (-a[i]) BY <2>1
    <2> QED BY <2>2
  <1>4. ASSUME NEW g, \A i \in 1 .. m : g[i] \in Int, NEW j \in Nat, j + 1 \in 1 .. m
        PROVE  Total(g, 1 .. j + 1) = Total(g, 1 .. j) + g[j + 1] /\ Total(g, 1 .. j) \in Int
    <2>1. \A k \in 1 .. j : g[k] \in Int /\ g[k] = g[k] BY <1>4
    <2> QED BY <1>4, <2>1, TotalAppends
  <1> HIDE DEF b, v
  <1>5. ASSUME Bad # {} PROVE FALSE
    <2>1. PICK j \in Bad : \A k \in Bad : j <= k
      <3>1. Bad \subseteq Nat OBVIOUS
      <3> HIDE DEF Bad
      <3> QED BY <1>5, <3>1, LeastNatural
    <2>2. CASE j = 0
      <3>1. 1 .. 0 = {} /\ Total(v, 1 .. 0) = 0 /\ Total(w, 1 .. 0) = 0 BY TotalEmpty
      <3> QED BY <2>1, <2>2, <3>1
    <2>3. CASE j # 0
      <3>1. j \in 1 .. m /\ j - 1 \in Nat /\ (j - 1) + 1 = j /\ j - 1 \in 0 .. m /\ ~(j <= j - 1) BY <2>1, <2>3
      <3>2. ~Off(j - 1) BY <2>1, <3>1
      <3>3. Total(v, 1 .. j) = Total(v, 1 .. j - 1) + v[j]
        <4>1. \A i \in 1 .. m : v[i] \in Int BY <1>3
        <4> QED BY <1>4, <3>1, <4>1
      <3>4. Total(w, 1 .. j) = Total(w, 1 .. j - 1) + w[j] /\ Total(w, 1 .. j - 1) \in Int BY <1>3, <1>4, <3>1
      <3>5. Total(v, 1 .. j) = -Total(w, 1 .. j) BY <1>3, <3>1, <3>2, <3>3, <3>4
      <3> QED BY <2>1, <3>5
    <2> QED BY <2>2, <2>3
  <1>6. Total(v, 1 .. m) = -Total(w, 1 .. m) BY <1>5
  <1>7. Total(w, 1 .. m) \in Int
    <2>1. IsFiniteSet(1 .. m) /\ Whole(w, 1 .. m) BY <1>3, FS_Interval DEF Whole
    <2> QED BY <2>1, TotalInt
  <1> QED BY <1>2, <1>6, <1>7

(* The types of the online learner, all of them.                            *)
Entries == [correct : {"unknown", "yes", "no"}, accuracy : Int]
OnTyped ==
  /\ learner \in [n : 0 .. MaxSamples, right : Nat, judged : Nat, marks : Seq(Int)] /\ learner.right <= learner.judged
  /\ detector \in [total : Nat, since : Nat, points : Seq(Nat)] /\ detector.since <= detector.total
  /\ step \in [pc : {"idle", "saving", "answered"}, right : BOOLEAN, drift : BOOLEAN,
               retrain : {"no", "performance", "drift"}]
  /\ files \in [1 .. MaxSamples -> [at : {"none", "torn", "whole"}, marks : Seq(Int)]]
  /\ dash \in [open : BOOLEAN, synced : BOOLEAN, total : Nat, recent : Seq(Entries), drifts : Seq(Nat),
               last : {"none", "drift", "performance"}]
  /\ lastSaved \in 0 .. MaxSamples /\ lives \in 1 .. MaxLives /\ lostSaves \in Nat

(* The last checkpoint of this process is whole: nothing is written again   *)
(* before the count has passed it.  While the count is not behind it, the   *)
(* distance to a whole one, or to the beginning, grows by a sample a failed *)
(* save at most.                                                            *)
Spare == IF step.pc = "saving" THEN 0 ELSE 1
NearInv ==
  /\ lastSaved > 0 => files[lastSaved].at = "whole"
  /\ step.pc = "saving" => learner.n >= 1 /\ learner.n - lastSaved >= Interval
  /\ lastSaved <= learner.n =>
       \E w \in Wholes \cup {0} : w <= learner.n /\ learner.n - w <= Interval + lostSaves - Spare

(* The detector counts from the last drift.                                 *)
DriftInv ==
  LET p == detector.points IN
  /\ detector.since = detector.total - (IF p = <<>> THEN 0 ELSE p[Len(p)])
  /\ step.retrain = "drift" => step.drift
  /\ step.drift => p # <<>> /\ p[Len(p)] = detector.total

(* Until a save fails the dashboard's drifts are the last ones of the       *)
(* detector, counted from another sample; the one of an answer under way is *)
(* still missing.                                                           *)
Under == IF step.pc = "idle" THEN 0 ELSE 1
Owed == IF step.pc # "idle" /\ step.drift THEN 1 ELSE 0
SameDrifts(k, d) ==
  /\ detector.total = dash.total + d + Under
  /\ Len(dash.drifts) = Len(detector.points) - k - Owed
  /\ \A i \in 1 .. Len(dash.drifts) : detector.points[k + i] = dash.drifts[i] + d
DistInv ==
  lostSaves = 0 /\ dash.open => \E k \in 0 .. Len(detector.points), d \in Int : SameDrifts(k, d)

OnlineInv == OnTyped /\ NearInv /\ DriftInv /\ DistInv

LEMMA OnNumbers ==
  Interval \in Nat \ {0} /\ MarkEvery \in Nat \ {0} /\ MaxLives \in Nat \ {0} /\ Grace \in Nat /\ RecentWindow \in Nat
  /\ MaxSamples \in Nat /\ MaxOnlineSteps \in Nat /\ Threshold \in Int
  BY OnlineAssumption

(* The accuracy is a number. *)
LEMMA AccuracyWhole ==
  ASSUME NEW l, l.right \in Nat, l.judged \in Nat PROVE Accuracy(l) \in Int
  <1>1. CASE l.judged = 0 BY <1>1 DEF Accuracy
  <1>2. CASE l.judged # 0
    <2>1. PICK a \in Nat, b \in Nat \ {0} : a = 100 * l.right /\ b = l.judged BY <1>2
    <2>2. a \div b \in Int BY <2>1
    <2> QED BY <1>2, <2>1, <2>2 DEF Accuracy
  <1> QED BY <1>1, <1>2

LEMMA OnlineInitially == ASSUME OnlineInit PROVE OnlineInv
  <1> USE DEF OnlineInit, NewLearner, NewDetector, NoAnswer, NoDashboard, NoFile
  <1>1. OnTyped
    <2>1. <<>> \in Seq(Int) /\ <<>> \in Seq(Nat) /\ <<>> \in Seq(Entries) BY EmptySeq
    <2> QED BY <2>1, OnNumbers DEF OnTyped
  <1>2. NearInv BY OnNumbers DEF NearInv, Spare
  <1>3. DriftInv BY DEF DriftInv
  <1>4. DistInv BY DEF DistInv
  <1> QED BY <1>1, <1>2, <1>3, <1>4 DEF OnlineInv

(* A sample is learnt. *)
LEMMA LearntTyped ==
  ASSUME OnTyped, learner.n < MaxSamples, NEW right \in BOOLEAN
  PROVE  /\ Learnt(learner, right) \in [n : 0 .. MaxSamples, right : Nat, judged : Nat, marks : Seq(Int)]
         /\ Learnt(learner, right).right <= Learnt(learner, right).judged
         /\ Learnt(learner, right).n = learner.n + 1
  <1>1. PICK n \in 0 .. MaxSamples, r \in Nat, j \in Nat, s \in Seq(Int) :
          learner = [n |-> n, right |-> r, judged |-> j, marks |-> s] /\ r <= j /\ n < MaxSamples
    BY DEF OnTyped
  <1>2. PICK l \in [n : 0 .. MaxSamples, right : Nat, judged : Nat, marks : Seq(Int)] :
          /\ l = [n |-> learner.n + 1, right |-> IF learner.n > 0 /\ right THEN learner.right + 1 ELSE learner.right,
                  judged |-> IF learner.n = 0 THEN learner.judged ELSE learner.judged + 1, marks |-> learner.marks]
          /\ l.right <= l.judged /\ l.n = learner.n + 1
    <2>1. PICK n1 \in 0 .. MaxSamples : n1 = learner.n + 1 BY <1>1, OnNumbers
    <2>2. PICK r1 \in Nat : r1 = IF learner.n > 0 /\ right THEN learner.right + 1 ELSE learner.right BY <1>1
    <2>3. PICK j1 \in Nat : j1 = IF learner.n = 0 THEN learner.judged ELSE learner.judged + 1 BY <1>1
    <2>4. r1 <= j1 BY <1>1, <2>2, <2>3
    <2>5. [n |-> n1, right |-> r1, judged |-> j1, marks |-> learner.marks]
            \in [n : 0 .. MaxSamples, right : Nat, judged : Nat, marks : Seq(Int)] BY <1>1
    <2> QED BY <2>1, <2>2, <2>3, <2>4, <2>5
  <1>3. PICK s1 \in Seq(Int) : s1 = Append(l.marks, Accuracy(l))
    <2>1. Accuracy(l) \in Int BY <1>2, AccuracyWhole
    <2>2. Append(l.marks, Accuracy(l)) \in Seq(Int) BY <2>1, AppendProperties
    <2> QED BY <2>2
  <1>4. Learnt(learner, right) = IF l.n % MarkEvery = 0 THEN [l EXCEPT !.marks = s1] ELSE l
    BY <1>2, <1>3 DEF Learnt
  <1> QED BY <1>2, <1>4

LEMMA DetectedIs ==
  ASSUME OnTyped, NEW drift \in BOOLEAN
  PROVE  /\ Detected(drift) \in [total : Nat, since : Nat, points : Seq(Nat)] /\ Detected(drift).since <= Detected(drift).total
         /\ Detected(drift).total = detector.total + 1
         /\ Detected(drift).since = IF drift THEN 0 ELSE detector.since + 1
         /\ Detected(drift).points = IF drift THEN Append(detector.points, detector.total + 1) ELSE detector.points
  <1>1. detector.total \in Nat /\ detector.total + 1 \in Nat /\ detector.since \in Nat /\ detector.points \in Seq(Nat) /\ detector.since <= detector.total BY DEF OnTyped
  <1>2. Append(detector.points, detector.total + 1) \in Seq(Nat) BY <1>1, AppendProperties
  <1>3. PICK p \in Seq(Nat) : p = IF drift THEN Append(detector.points, detector.total + 1) ELSE detector.points BY <1>1, <1>2
  <1>4. PICK s \in Nat : s = (IF drift THEN 0 ELSE detector.since + 1) /\ s <= detector.total + 1
    <2>1. CASE drift BY <1>1, <2>1
    <2>2. CASE ~drift
      <3>1. detector.since + 1 \in Nat /\ detector.since + 1 <= detector.total + 1 BY <1>1
      <3> QED BY <2>2, <3>1
    <2> QED BY <2>1, <2>2
  <1>5. Detected(drift) = [total |-> detector.total + 1, since |-> s, points |-> p] BY <1>3, <1>4 DEF Detected
  <1> QED BY <1>1, <1>3, <1>4, <1>5

(* What a step of training leaves behind. *)
LEMMA TrainStepDoes ==
  ASSUME OnTyped, NEW right \in BOOLEAN, NEW drift \in BOOLEAN, TrainStep(right, drift)
  PROVE  /\ OnTyped'
         /\ step.pc = "idle" /\ learner'.n = learner.n + 1
         /\ step'.pc = (IF SaveIsDue(learner'.n) THEN "saving" ELSE "answered") /\ step'.drift = drift
         /\ step'.retrain = "drift" => drift
         /\ \A i \in 1 .. MaxSamples : i # learner'.n \/ ~SaveIsDue(learner'.n) => files'[i] = files[i]
         /\ detector'.total = detector.total + 1 /\ detector'.since = (IF drift THEN 0 ELSE detector.since + 1)
         /\ detector'.points = (IF drift THEN Append(detector.points, detector.total + 1) ELSE detector.points)
         /\ UNCHANGED <<dash, lastSaved, lives, lostSaves>>
  <1>1. /\ learner' \in [n : 0 .. MaxSamples, right : Nat, judged : Nat, marks : Seq(Int)]
        /\ learner'.right <= learner'.judged /\ learner'.n = learner.n + 1
    <2>1. learner' = Learnt(learner, right) /\ learner.n < MaxSamples BY DEF TrainStep
    <2> QED BY <2>1, LearntTyped
  <1>2. /\ detector' \in [total : Nat, since : Nat, points : Seq(Nat)] /\ detector'.since <= detector'.total
        /\ detector'.total = detector.total + 1 /\ detector'.since = (IF drift THEN 0 ELSE detector.since + 1)
        /\ detector'.points = (IF drift THEN Append(detector.points, detector.total + 1) ELSE detector.points)
    <2>1. detector' = Detected(drift) BY DEF TrainStep
    <2> QED BY <2>1, DetectedIs
  <1>3. learner'.n \in 1 .. MaxSamples
    <2>1. learner'.n \in 0 .. MaxSamples /\ learner.n \in 0 .. MaxSamples BY <1>1 DEF OnTyped
    <2> QED BY <1>1, <2>1, OnNumbers
  <1>4. PICK r \in {"no", "performance", "drift"} : r = ShouldRetrain(learner', detector') /\ (r = "drift" => detector'.since = 0)
    BY DEF ShouldRetrain
  <1>5. r = "drift" => drift
    <2>1. detector.since \in Nat BY DEF OnTyped
    <2> QED BY <1>2, <1>4, <2>1
  <1>6. PICK pc \in {"saving", "answered"} : pc = IF SaveIsDue(learner'.n) THEN "saving" ELSE "answered" OBVIOUS
  <1>7. step' = [pc |-> pc, right |-> right, drift |-> drift, retrain |-> r] /\ step.pc = "idle"
        /\ UNCHANGED <<dash, lastSaved, lives, lostSaves>>
    BY <1>4, <1>6 DEF TrainStep
  <1>8. /\ files' \in [1 .. MaxSamples -> [at : {"none", "torn", "whole"}, marks : Seq(Int)]]
        /\ \A i \in 1 .. MaxSamples : i # learner'.n \/ ~SaveIsDue(learner'.n) => files'[i] = files[i]
    <2>1. files' = IF SaveIsDue(learner'.n) THEN [files EXCEPT ![learner'.n].at = "torn"] ELSE files BY DEF TrainStep
    <2>2. files \in [1 .. MaxSamples -> [at : {"none", "torn", "whole"}, marks : Seq(Int)]] BY DEF OnTyped
    <2>3. PICK f \in [at : {"none", "torn", "whole"}, marks : Seq(Int)] : f = [files[learner'.n] EXCEPT !.at = "torn"]
      <3>1. PICK g \in [at : {"none", "torn", "whole"}, marks : Seq(Int)] : g = files[learner'.n] BY <1>3, <2>2
      <3> QED BY <3>1
    <2>4. [files EXCEPT ![learner'.n].at = "torn"] = [files EXCEPT ![learner'.n] = f] BY <2>2, <2>3, <1>3
    <2> QED BY <1>3, <2>1, <2>2, <2>4
  <1>9. OnTyped' 
    <2>1. step' \in [pc : {"idle", "saving", "answered"}, right : BOOLEAN, drift : BOOLEAN,
               retrain : {"no", "performance", "drift"}]
      BY <1>7
    <2> QED BY <1>1, <1>2, <1>7, <1>8, <2>1 DEF OnTyped
  <1> QED BY <1>1, <1>2, <1>5, <1>6, <1>7, <1>8, <1>9

LEMMA TrainStepKeeps ==
  ASSUME OnlineInv, NEW right \in BOOLEAN, NEW drift \in BOOLEAN, TrainStep(right, drift) PROVE OnlineInv'
  <1> USE DEF OnlineInv
  <1>1. /\ OnTyped'
        /\ step.pc = "idle" /\ learner'.n = learner.n + 1
        /\ step'.pc = (IF SaveIsDue(learner'.n) THEN "saving" ELSE "answered") /\ step'.drift = drift
        /\ step'.retrain = "drift" => drift
        /\ \A i \in 1 .. MaxSamples : i # learner'.n \/ ~SaveIsDue(learner'.n) => files'[i] = files[i]
        /\ detector'.total = detector.total + 1 /\ detector'.since = (IF drift THEN 0 ELSE detector.since + 1)
        /\ detector'.points = (IF drift THEN Append(detector.points, detector.total + 1) ELSE detector.points)
        /\ dash' = dash /\ lastSaved' = lastSaved /\ lostSaves' = lostSaves
    BY TrainStepDoes
  <1>2. learner.n \in Nat /\ learner'.n \in 1 .. MaxSamples /\ lastSaved \in 0 .. MaxSamples /\ lostSaves \in Nat
        /\ Interval \in Nat \ {0} /\ MaxSamples \in Nat
    <2>1. learner.n \in 0 .. MaxSamples /\ learner'.n \in 0 .. MaxSamples /\ lastSaved \in 0 .. MaxSamples /\ lostSaves \in Nat
      BY <1>1 DEF OnTyped
    <2> QED BY <1>1, <2>1, OnNumbers
  <1>3. NearInv'
    <2>1. lastSaved > 0 => files'[lastSaved].at = "whole"
      <3>1. SaveIsDue(learner'.n) => lastSaved # learner'.n BY <1>2 DEF SaveIsDue
      <3> QED BY <1>1, <1>2, <3>1 DEF NearInv
    <2>2. step'.pc = "saving" => learner'.n >= 1 /\ learner'.n - lastSaved >= Interval
      BY <1>1, <1>2 DEF SaveIsDue
    <2>3. ASSUME lastSaved <= learner'.n
          PROVE  \E w \in Wholes' \cup {0} : w <= learner'.n /\ learner'.n - w <= Interval + lostSaves - Spare'
      <3>1. CASE SaveIsDue(learner'.n)
        <4>1. lastSaved <= learner.n BY <1>1, <1>2, <3>1, <2>3 DEF SaveIsDue
        <4>2. PICK w \in Wholes \cup {0} : w <= learner.n /\ learner.n - w <= Interval + lostSaves - 1
          BY <1>1, <4>1 DEF NearInv, Spare
        <4>3. w \in Wholes' \cup {0} BY <1>1, <1>2, <4>2 DEF Wholes
        <4>4. w \in Int BY <4>2 DEF Wholes
        <4>5. Spare' = 0 BY <1>1, <3>1 DEF Spare
        <4>6. w <= learner'.n /\ learner'.n - w <= Interval + lostSaves - 0 BY <1>1, <1>2, <4>2, <4>4
        <4> QED BY <4>3, <4>5, <4>6
      <3>2. CASE ~SaveIsDue(learner'.n)
        <4>1. lastSaved \in Wholes' \cup {0} BY <1>2, <2>1 DEF Wholes
        <4>2. Spare' = 1 BY <1>1, <3>2 DEF Spare
        <4>3. learner'.n - lastSaved <= Interval + lostSaves - 1 BY <1>2, <3>2 DEF SaveIsDue
        <4> QED BY <2>3, <4>1, <4>2, <4>3
      <3> QED BY <3>1, <3>2
    <2> QED BY <1>1, <2>1, <2>2, <2>3 DEF NearInv
  <1>4. detector.points \in Seq(Nat) /\ detector.total \in Nat /\ detector.since \in Nat BY DEF OnTyped
  <1>5. PICK m \in Nat : m = Len(detector.points) BY <1>4, LenProperties
  <1>6. /\ drift => /\ Len(detector'.points) = m + 1 /\ detector'.points[m + 1] = detector.total + 1
                    /\ \A i \in 1 .. m : detector'.points[i] = detector.points[i] /\ detector'.points # <<>>
        /\ ~drift => detector'.points = detector.points
    <2>1. CASE drift
      <3>1. detector'.points = Append(detector.points, detector.total + 1) BY <1>1, <2>1
      <3>2. /\ Len(detector'.points) = m + 1 /\ detector'.points[m + 1] = detector.total + 1
            /\ \A i \in 1 .. m : detector'.points[i] = detector.points[i]
        BY <1>4, <1>5, <3>1, AppendProperties
      <3>3. detector'.points # <<>> BY <1>5, <3>2
      <3> QED BY <2>1, <3>2, <3>3
    <2>2. CASE ~drift BY <1>1, <2>2
    <2> QED BY <2>1, <2>2
  <1>7. DriftInv'
    <2>1. CASE drift
      <3>1. detector'.points # <<>> /\ detector'.points[Len(detector'.points)] = detector'.total
        <4>1. Len(detector'.points) = m + 1 BY <1>6, <2>1
        <4>2. detector'.points # <<>> BY <1>5, <4>1
        <4> QED BY <1>1, <1>6, <2>1, <4>1, <4>2
      <3>2. detector'.since = 0 /\ detector'.total \in Nat BY <1>1, <1>4, <2>1
      <3> QED BY <1>1, <2>1, <3>1, <3>2 DEF DriftInv
    <2>2. CASE ~drift
      <3>1. PICK b \in Nat : b = IF detector.points = <<>> THEN 0 ELSE detector.points[Len(detector.points)]
        <4>1. detector.points # <<>> => detector.points[Len(detector.points)] \in Nat BY <1>4
        <4> QED BY <4>1
      <3>2. detector'.since = detector'.total - b BY <1>1, <1>4, <2>2, <3>1 DEF DriftInv
      <3> QED BY <1>1, <2>2, <3>1, <3>2 DEF DriftInv
    <2> QED BY <2>1, <2>2
  <1>8. DistInv'
    <2> SUFFICES ASSUME lostSaves = 0, dash.open
                 PROVE  \E k \in 0 .. Len(detector'.points), d \in Int : SameDrifts(k, d)'
      BY <1>1 DEF DistInv
    <2>1. PICK k \in 0 .. Len(detector.points), d \in Int : SameDrifts(k, d) BY DEF DistInv
    <2>2. Under = 0 /\ Owed = 0 /\ Under' = 1 /\ Owed' = (IF drift THEN 1 ELSE 0)
      BY <1>1 DEF Under, Owed
    <2>3. dash.total \in Nat /\ dash.drifts \in Seq(Nat) BY DEF OnTyped
    <2>4. PICK j \in Nat : j = Len(dash.drifts) BY <2>3, LenProperties
    <2>5. detector.total = dash.total + d /\ j = m - k /\ \A i \in 1 .. j : detector.points[k + i] = dash.drifts[i] + d
      BY <1>4, <1>5, <2>1, <2>2, <2>3, <2>4 DEF SameDrifts
    <2>6. Len(detector'.points) = m + Owed' /\ Owed' \in Nat
      <3>1. CASE drift BY <1>6, <2>2, <3>1
      <3>2. CASE ~drift BY <1>5, <1>6, <2>2, <3>2
      <3> QED BY <3>1, <3>2
    <2>7. k \in 0 .. Len(detector'.points) BY <1>5, <2>1, <2>6
    <2>8. \A i \in 1 .. j : detector'.points[k + i] = dash.drifts[i] + d
      <3> SUFFICES ASSUME NEW i \in 1 .. j PROVE detector'.points[k + i] = dash.drifts[i] + d OBVIOUS
      <3>1. k + i \in 1 .. m BY <1>5, <2>1, <2>5
      <3>2. detector'.points[k + i] = detector.points[k + i] BY <1>6, <3>1
      <3> QED BY <2>5, <3>2
    <2>9. detector'.total = dash.total + d + 1 BY <1>1, <2>3, <2>5
    <2>10. j = Len(detector'.points) - k - Owed' BY <1>5, <2>1, <2>2, <2>5, <2>6
    <2>11. SameDrifts(k, d)' BY <1>1, <2>2, <2>4, <2>8, <2>9, <2>10 DEF SameDrifts
    <2> QED BY <2>7, <2>11
  <1> QED BY <1>1, <1>3, <1>7, <1>8

(* The answer under way: nothing of it but its state changes until it is logged or lost. *)
LEMMA StepFields ==
  ASSUME OnTyped
  PROVE  \E p \in {"idle", "saving", "answered"}, r \in BOOLEAN, d \in BOOLEAN, t \in {"no", "performance", "drift"} :
           step = [pc |-> p, right |-> r, drift |-> d, retrain |-> t]
  BY DEF OnTyped

LEMMA NoAnswerFits ==
  NoAnswer \in [pc : {"idle", "saving", "answered"}, right : BOOLEAN, drift : BOOLEAN, retrain : {"no", "performance", "drift"}]
  BY DEF NoAnswer

LEMMA CountsTyped ==
  ASSUME OnTyped
  PROVE  learner.n \in Nat /\ learner.n <= MaxSamples /\ lastSaved \in 0 .. MaxSamples /\ lostSaves \in Nat
         /\ Interval \in Nat \ {0} /\ MaxSamples \in Nat
  <1>1. learner.n \in 0 .. MaxSamples /\ lastSaved \in 0 .. MaxSamples /\ lostSaves \in Nat BY DEF OnTyped
  <1> QED BY <1>1, OnNumbers

LEMMA SaveEndsKeeps == ASSUME OnlineInv, SaveEnds PROVE OnlineInv'
  <1> USE DEF OnlineInv
  <1>1. step.pc = "saving" /\ UNCHANGED <<learner, detector, dash, lives, lostSaves>> /\ lastSaved' = learner.n BY DEF SaveEnds
  <1>2. learner.n \in 1 .. MaxSamples /\ lostSaves \in Nat /\ Interval \in Nat \ {0}
    <2>1. learner.n >= 1 BY <1>1 DEF NearInv
    <2> QED BY <2>1, CountsTyped
  <1>3. PICK r \in BOOLEAN, d \in BOOLEAN, t \in {"no", "performance", "drift"} :
          step = [pc |-> "saving", right |-> r, drift |-> d, retrain |-> t]
          /\ step' = [pc |-> "answered", right |-> r, drift |-> d, retrain |-> t]
    <2>1. PICK p \in {"idle", "saving", "answered"}, r \in BOOLEAN, d \in BOOLEAN, t \in {"no", "performance", "drift"} :
           step = [pc |-> p, right |-> r, drift |-> d, retrain |-> t] BY StepFields
    <2>2. p = "saving" BY <1>1, <2>1
    <2>3. step' = [step EXCEPT !.pc = "answered"] BY DEF SaveEnds
    <2>4. step' = [pc |-> "answered", right |-> r, drift |-> d, retrain |-> t] BY <2>1, <2>3
    <2> QED BY <2>1, <2>2, <2>4
  <1>4. /\ files' \in [1 .. MaxSamples -> [at : {"none", "torn", "whole"}, marks : Seq(Int)]]
        /\ files'[learner.n].at = "whole"
    <2>1. PICK f \in [at : {"none", "torn", "whole"}, marks : Seq(Int)] : f = [at |-> "whole", marks |-> learner.marks]
      BY DEF OnTyped
    <2>2. files' = [files EXCEPT ![learner.n] = f] BY <2>1 DEF SaveEnds
    <2> QED BY <1>2, <2>1, <2>2 DEF OnTyped
  <1>5. OnTyped' 
    <2>1. step' \in [pc : {"idle", "saving", "answered"}, right : BOOLEAN, drift : BOOLEAN,
               retrain : {"no", "performance", "drift"}] BY <1>3
    <2>2. lastSaved' \in 0 .. MaxSamples BY <1>1, <1>2
    <2> QED BY <1>1, <1>4, <2>1, <2>2 DEF OnTyped
  <1>6. NearInv'
    <2>1. learner.n \in Wholes' \cup {0} BY <1>2, <1>4 DEF Wholes
    <2>2. Spare' = 1 BY <1>3 DEF Spare
    <2>3. learner.n <= learner.n /\ learner.n - learner.n <= Interval + lostSaves - 1 BY <1>2
    <2>4. \E w \in Wholes' \cup {0} : w <= learner'.n /\ learner'.n - w <= Interval + lostSaves' - Spare'
      BY <1>1, <2>1, <2>2, <2>3
    <2> QED BY <1>1, <1>3, <1>4, <2>4 DEF NearInv
  <1>7. DriftInv' BY <1>1, <1>3 DEF DriftInv
  <1>8. DistInv'
    <2>1. Under' = Under /\ Owed' = Owed BY <1>1, <1>3 DEF Under, Owed
    <2>2. \A k \in 0 .. Len(detector.points), o \in Int : SameDrifts(k, o) => SameDrifts(k, o)' BY <1>1, <2>1 DEF SameDrifts
    <2>3. detector' = detector /\ dash' = dash /\ lostSaves' = lostSaves BY <1>1
    <2> QED BY <2>2, <2>3 DEF DistInv
  <1> QED BY <1>5, <1>6, <1>7, <1>8

LEMMA SaveFailsKeeps == ASSUME OnlineInv, SaveFails PROVE OnlineInv'
  <1> USE DEF OnlineInv
  <1>1. step.pc = "saving" /\ UNCHANGED <<learner, detector, files, dash, lives>> /\ lastSaved' = lastSaved
        /\ lostSaves' = lostSaves + 1 /\ step' = NoAnswer
    BY DEF SaveFails, SavedUpToAfterFailure
  <1>2. learner.n \in Nat /\ lastSaved \in 0 .. MaxSamples /\ lostSaves \in Nat /\ Interval \in Nat \ {0} BY CountsTyped
  <1>3. step'.pc = "idle" /\ ~step'.drift /\ step'.retrain = "no" BY <1>1 DEF NoAnswer
  <1>4. OnTyped' 
    <2>1. lostSaves' \in Nat BY <1>1, <1>2
    <2> QED BY <1>1, <2>1, NoAnswerFits DEF OnTyped
  <1>5. NearInv'
    <2>1. ASSUME lastSaved <= learner.n
          PROVE  \E w \in Wholes' \cup {0} : w <= learner'.n /\ learner'.n - w <= Interval + lostSaves' - Spare'
      <3>1. PICK w \in Wholes \cup {0} : w <= learner.n /\ learner.n - w <= Interval + lostSaves - 0
        BY <1>1, <2>1 DEF NearInv, Spare
      <3>2. Wholes' = Wholes BY <1>1 DEF Wholes
      <3>3. w \in Int BY <3>1 DEF Wholes
      <3>4. Spare' = 1 BY <1>3 DEF Spare
      <3>5. learner.n - w <= Interval + (lostSaves + 1) - 1 BY <1>2, <3>1, <3>3
      <3> QED BY <1>1, <3>1, <3>2, <3>4, <3>5
    <2> QED BY <1>1, <1>3, <2>1 DEF NearInv
  <1>6. DriftInv' BY <1>1, <1>3 DEF DriftInv
  <1>7. DistInv'
    <2>1. lostSaves' # 0 BY <1>1, <1>2
    <2> QED BY <2>1 DEF DistInv
  <1> QED BY <1>4, <1>5, <1>6, <1>7

LEMMA LoadCheckpointKeeps == ASSUME OnlineInv, NEW n \in 1 .. MaxSamples, LoadCheckpoint(n) PROVE OnlineInv'
  <1> USE DEF OnlineInv
  <1>1. step.pc = "idle" /\ files[n].at = "whole" /\ UNCHANGED <<detector, step, files, dash, lastSaved, lives, lostSaves>>
    BY DEF LoadCheckpoint
  <1>2. /\ learner' \in [n : 0 .. MaxSamples, right : Nat, judged : Nat, marks : Seq(Int)]
        /\ learner'.right <= learner'.judged /\ learner'.n = n
    <2>1. PICK s \in Seq(Int) : s = files[n].marks BY DEF OnTyped
    <2>2. learner' = [learner EXCEPT !.n = n, !.marks = s] BY <2>1 DEF LoadCheckpoint
    <2>3. n \in 0 .. MaxSamples BY OnNumbers
    <2> QED BY <2>2, <2>3 DEF OnTyped
  <1>3. OnTyped' BY <1>1, <1>2 DEF OnTyped
  <1>4. NearInv'
    <2>1. n \in Wholes' \cup {0} BY <1>1 DEF Wholes
    <2>2. Spare' = 1 BY <1>1 DEF Spare
    <2>3. n <= n /\ n - n <= Interval + lostSaves - 1 BY CountsTyped
    <2>4. \E w \in Wholes' \cup {0} : w <= learner'.n /\ learner'.n - w <= Interval + lostSaves' - Spare'
      BY <1>1, <1>2, <2>1, <2>2, <2>3
    <2> QED BY <1>1, <2>4 DEF NearInv
  <1>5. DriftInv' BY <1>1 DEF DriftInv
  <1>6. DistInv'
    <2>1. UNCHANGED <<detector, step, dash, lostSaves>> BY <1>1
    <2> QED BY <2>1 DEF DistInv, SameDrifts, Under, Owed
  <1> QED BY <1>3, <1>4, <1>5, <1>6

LEMMA RestartPipelineKeeps == ASSUME OnlineInv, RestartPipeline PROVE OnlineInv'
  <1> USE DEF OnlineInv
  <1>1. /\ lives < MaxLives /\ lives' = lives + 1
        /\ learner' = NewLearner /\ detector' = NewDetector /\ step' = NoAnswer /\ dash' = NoDashboard
        /\ lastSaved' = 0 /\ lostSaves' = 0 /\ files' = files
    BY DEF RestartPipeline
  <1>2. OnTyped'
    <2>1. <<>> \in Seq(Int) /\ <<>> \in Seq(Nat) /\ <<>> \in Seq(Entries) BY EmptySeq
    <2>2. lives' \in 1 .. MaxLives
      <3>1. lives \in 1 .. MaxLives BY DEF OnTyped
      <3> QED BY <1>1, <3>1, OnNumbers
    <2>3. lastSaved' \in 0 .. MaxSamples /\ lostSaves' \in Nat BY <1>1, OnNumbers
    <2>4. learner' \in [n : 0 .. MaxSamples, right : Nat, judged : Nat, marks : Seq(Int)] /\ learner'.right <= learner'.judged
      BY <1>1, <2>1, OnNumbers DEF NewLearner
    <2>5. detector' \in [total : Nat, since : Nat, points : Seq(Nat)] /\ detector'.since <= detector'.total
      BY <1>1, <2>1 DEF NewDetector
    <2>6. dash' \in [open : BOOLEAN, synced : BOOLEAN, total : Nat, recent : Seq(Entries), drifts : Seq(Nat),
               last : {"none", "drift", "performance"}] BY <1>1, <2>1 DEF NoDashboard
    <2> QED BY <1>1, <2>2, <2>3, <2>4, <2>5, <2>6, NoAnswerFits DEF OnTyped
  <1>3. NearInv' 
    <2>1. learner'.n = 0 /\ step'.pc = "idle" BY <1>1 DEF NewLearner, NoAnswer
    <2>2. Spare' = 1 BY <2>1 DEF Spare
    <2>3. 0 \in Wholes' \cup {0} /\ 0 <= learner'.n /\ learner'.n - 0 <= Interval + lostSaves' - Spare'
      BY <1>1, <2>1, <2>2, OnNumbers
    <2> QED BY <1>1, <2>1, <2>3 DEF NearInv
  <1>4. DriftInv' BY <1>1 DEF DriftInv, NewDetector, NoAnswer
  <1>5. DistInv' BY <1>1 DEF DistInv, NoDashboard
  <1> QED BY <1>2, <1>3, <1>4, <1>5

LEMMA OpenDashboardKeeps == ASSUME OnlineInv, NEW sync \in BOOLEAN, OpenDashboard(sync) PROVE OnlineInv'
  <1> USE DEF OnlineInv
  <1>1. step.pc = "idle" /\ UNCHANGED <<learner, detector, step, files, lastSaved, lives, lostSaves>> BY DEF OpenDashboard
  <1>2. PICK count \in Nat, shown \in Seq(Entries) :
          dash' = [open |-> TRUE, synced |-> sync, total |-> count, recent |-> shown, drifts |-> <<>>, last |-> "none"]
    <2>1. PICK count \in Nat : count = IF sync THEN learner.n ELSE 0 BY CountsTyped
    <2>2. PICK shown \in Seq(Entries) :
            shown = IF sync THEN [i \in DOMAIN learner.marks |-> [correct |-> "unknown", accuracy |-> learner.marks[i]]] ELSE <<>>
      <3>1. <<>> \in Seq(Entries) BY EmptySeq
      <3>2. [i \in DOMAIN learner.marks |-> [correct |-> "unknown", accuracy |-> learner.marks[i]]] \in Seq(Entries)
        <4>1. PICK s \in Seq(Int) : s = learner.marks BY DEF OnTyped
        <4>2. PICK m \in Nat : m = Len(s) /\ DOMAIN s = 1 .. m BY <4>1, LenProperties
        <4>3. \A i \in 1 .. m : s[i] \in Int BY <4>2, ElementOfSeq
        <4>4. [i \in 1 .. m |-> [correct |-> "unknown", accuracy |-> s[i]]] \in [1 .. m -> Entries] BY <4>3 DEF Entries
        <4> QED BY <4>1, <4>2, <4>4, IsASeq
      <3> QED BY <3>1, <3>2
    <2> QED BY <2>1, <2>2 DEF OpenDashboard, NoDashboard
  <1>3. OnTyped'
    <2>1. <<>> \in Seq(Nat) BY EmptySeq
    <2>2. dash' \in [open : BOOLEAN, synced : BOOLEAN, total : Nat, recent : Seq(Entries), drifts : Seq(Nat),
               last : {"none", "drift", "performance"}] BY <1>2, <2>1
    <2> QED BY <1>1, <2>2 DEF OnTyped
  <1>4. NearInv' BY <1>1 DEF NearInv, Spare, Wholes
  <1>5. DriftInv' BY <1>1 DEF DriftInv
  <1>6. DistInv'
    <2>1. PICK m \in Nat : m = Len(detector.points) BY LenProperties DEF OnTyped
    <2>2. PICK t \in Nat : t = detector.total BY DEF OnTyped
    <2>3. m \in 0 .. Len(detector'.points) /\ t - count \in Int BY <1>1, <2>1
    <2>4. Under' = 0 /\ Owed' = 0 BY <1>1 DEF Under, Owed
    <2>5. Len(dash'.drifts) = 0 /\ dash'.total = count BY <1>2
    <2>6. SameDrifts(m, t - count)' BY <1>1, <2>1, <2>2, <2>4, <2>5 DEF SameDrifts
    <2> QED BY <2>3, <2>6 DEF DistInv
  <1> QED BY <1>3, <1>4, <1>5, <1>6

(* What logging an answer leaves of the dashboard. *)
LEMMA LoggedIs ==
  ASSUME OnTyped
  PROVE  /\ Logged \in [open : BOOLEAN, synced : BOOLEAN, total : Nat, recent : Seq(Entries), drifts : Seq(Nat),
               last : {"none", "drift", "performance"}]
         /\ Logged.total = dash.total + 1 /\ Logged.open = dash.open
         /\ Logged.drifts = IF step.drift THEN Append(dash.drifts, dash.total + 1) ELSE dash.drifts
  <1>1. PICK number \in Nat : number = dash.total + 1 BY DEF OnTyped
  <1>2. PICK e \in Entries : e = [correct |-> IF step.right THEN "yes" ELSE "no", accuracy |-> Accuracy(learner)]
    <2>1. PICK a \in Int : a = Accuracy(learner) BY AccuracyWhole DEF OnTyped
    <2>2. PICK c \in {"yes", "no"} : c = IF step.right THEN "yes" ELSE "no" OBVIOUS
    <2>3. [correct |-> c, accuracy |-> a] \in Entries BY DEF Entries
    <2> QED BY <2>1, <2>2, <2>3
  <1>3. PICK shown \in Seq(Entries) : shown = Rolled(Append(dash.recent, e))
    <2>1. PICK s \in Seq(Entries) : s = Append(dash.recent, e) /\ s # <<>> BY AppendProperties DEF OnTyped
    <2>2. Tail(s) \in Seq(Entries) BY <2>1, HeadTailProperties
    <2>3. Rolled(s) \in Seq(Entries) BY <2>1, <2>2 DEF Rolled
    <2> QED BY <2>1, <2>3
  <1>4. PICK ds \in Seq(Nat) : ds = IF step.drift THEN Append(dash.drifts, number) ELSE dash.drifts
    <2>1. dash.drifts \in Seq(Nat) BY DEF OnTyped
    <2>2. Append(dash.drifts, number) \in Seq(Nat) BY <2>1, AppendProperties
    <2> QED BY <2>1, <2>2
  <1>5. PICK t \in {"none", "drift", "performance"} :
          t = IF step.retrain = "no" THEN dash.last ELSE IF step.drift THEN "drift" ELSE "performance"
    BY DEF OnTyped
  <1>6. Logged = [dash EXCEPT !.total = number, !.recent = shown, !.drifts = ds, !.last = t]
    BY <1>1, <1>2, <1>3, <1>4, <1>5 DEF Logged
  <1>7. PICK o \in BOOLEAN, y \in BOOLEAN :
          Logged = [open |-> o, synced |-> y, total |-> number, recent |-> shown, drifts |-> ds, last |-> t] /\ o = dash.open
    BY <1>6 DEF OnTyped
  <1> QED BY <1>1, <1>4, <1>7

LEMMA LogPredictionKeeps == ASSUME OnlineInv, LogPrediction PROVE OnlineInv'
  <1> USE DEF OnlineInv
  <1>1. step.pc = "answered" /\ step' = NoAnswer /\ UNCHANGED <<learner, detector, files, lastSaved, lives, lostSaves>>
        /\ dash' = IF dash.open THEN Logged ELSE dash
    BY DEF LogPrediction
  <1>2. step'.pc = "idle" /\ ~step'.drift /\ step'.retrain = "no" BY <1>1 DEF NoAnswer
  <1>3. OnTyped'
    <2>1. dash' \in [open : BOOLEAN, synced : BOOLEAN, total : Nat, recent : Seq(Entries), drifts : Seq(Nat),
               last : {"none", "drift", "performance"}]
      <3>1. CASE dash.open BY <1>1, <3>1, LoggedIs
      <3>2. CASE ~dash.open BY <1>1, <3>2 DEF OnTyped
      <3> QED BY <3>1, <3>2
    <2> QED BY <1>1, <2>1, NoAnswerFits DEF OnTyped
  <1>4. NearInv'
    <2>1. Spare = 1 /\ Spare' = 1 BY <1>1, <1>2 DEF Spare
    <2>2. Wholes' = Wholes BY <1>1 DEF Wholes
    <2> QED BY <1>1, <1>2, <2>1, <2>2 DEF NearInv
  <1>5. DriftInv' BY <1>1, <1>2 DEF DriftInv
  <1>6. DistInv'
    <2> SUFFICES ASSUME lostSaves = 0, dash'.open
                 PROVE  \E k \in 0 .. Len(detector.points), d \in Int : SameDrifts(k, d)'
      BY <1>1 DEF DistInv
    <2>1. dash.open /\ dash' = Logged BY <1>1
    <2>2. PICK k \in 0 .. Len(detector.points), d \in Int : SameDrifts(k, d) BY <2>1 DEF DistInv
    <2>3. Under = 1 /\ Under' = 0 /\ Owed' = 0 /\ Owed = (IF step.drift THEN 1 ELSE 0) BY <1>1, <1>2 DEF Under, Owed
    <2>4. dash.drifts \in Seq(Nat) /\ dash.total \in Nat /\ detector.points \in Seq(Nat) /\ detector.total \in Nat BY DEF OnTyped
    <2>5. PICK j \in Nat, m \in Nat : j = Len(dash.drifts) /\ m = Len(detector.points) BY <2>4, LenProperties
    <2>6. detector.total = dash.total + d + 1 /\ j = m - k - Owed /\ \A i \in 1 .. j : detector.points[k + i] = dash.drifts[i] + d
      BY <2>2, <2>3, <2>5 DEF SameDrifts
    <2>7. dash'.total = dash.total + 1 /\ dash'.drifts = IF step.drift THEN Append(dash.drifts, dash.total + 1) ELSE dash.drifts
      BY <2>1, LoggedIs
    <2>8. detector.total = dash'.total + d + 0 BY <2>4, <2>6, <2>7
    <2>9. CASE step.drift
      <3>1. Len(dash'.drifts) = j + 1 /\ dash'.drifts[j + 1] = dash.total + 1 /\ \A i \in 1 .. j : dash'.drifts[i] = dash.drifts[i]
        <4>1. dash'.drifts = Append(dash.drifts, dash.total + 1) /\ dash.total + 1 \in Nat BY <2>4, <2>7, <2>9
        <4> QED BY <2>4, <2>5, <4>1, AppendProperties
      <3>2. j + 1 = m - k - 0 BY <2>2, <2>3, <2>5, <2>6, <2>9
      <3>3. k + (j + 1) = m BY <2>2, <2>5, <3>2
      <3>4. detector.points[m] = detector.total BY <2>5, <2>9 DEF DriftInv
      <3>5. detector.points[k + (j + 1)] = dash'.drifts[j + 1] + d BY <2>4, <2>6, <3>1, <3>3, <3>4
      <3>6. \A i \in 1 .. j + 1 : detector.points[k + i] = dash'.drifts[i] + d
        <4> SUFFICES ASSUME NEW i \in 1 .. j + 1 PROVE detector.points[k + i] = dash'.drifts[i] + d OBVIOUS
        <4>1. CASE i = j + 1 BY <3>5, <4>1
        <4>2. CASE i # j + 1
          <5>1. i \in 1 .. j BY <4>2
          <5> QED BY <2>6, <3>1, <5>1
        <4> QED BY <4>1, <4>2
      <3>7. SameDrifts(k, d)' BY <1>1, <2>3, <2>5, <2>8, <3>1, <3>2, <3>6 DEF SameDrifts
      <3> QED BY <3>7
    <2>10. CASE ~step.drift
      <3>1. dash'.drifts = dash.drifts /\ Owed = 0 BY <2>3, <2>7, <2>10
      <3>2. SameDrifts(k, d)' BY <1>1, <2>3, <2>5, <2>6, <2>8, <3>1 DEF SameDrifts
      <3> QED BY <3>2
    <2> QED BY <2>9, <2>10
  <1> QED BY <1>3, <1>4, <1>5, <1>6

LEMMA OnlineStep == ASSUME OnlineInv, [OnlineNext]_onlineVars PROVE OnlineInv'
  <1>1. CASE UNCHANGED onlineVars
    <2>1. UNCHANGED <<learner, detector, step, files, dash, lastSaved, lives, lostSaves>> BY <1>1 DEF onlineVars
    <2>2. OnTyped' BY <2>1 DEF OnlineInv, OnTyped
    <2>3. NearInv' BY <2>1 DEF OnlineInv, NearInv, Spare, Wholes
    <2>4. DriftInv' BY <2>1 DEF OnlineInv, DriftInv
    <2>5. DistInv' BY <2>1 DEF OnlineInv, DistInv, SameDrifts, Under, Owed
    <2> QED BY <2>2, <2>3, <2>4, <2>5 DEF OnlineInv
  <1>2. CASE \E right, drift \in BOOLEAN : TrainStep(right, drift) BY <1>2, TrainStepKeeps
  <1>3. CASE SaveEnds BY <1>3, SaveEndsKeeps
  <1>4. CASE SaveFails BY <1>4, SaveFailsKeeps
  <1>5. CASE LogPrediction BY <1>5, LogPredictionKeeps
  <1>6. CASE RestartPipeline BY <1>6, RestartPipelineKeeps
  <1>7. CASE \E n \in 1 .. MaxSamples : LoadCheckpoint(n) BY <1>7, LoadCheckpointKeeps
  <1>8. CASE \E sync \in BOOLEAN : OpenDashboard(sync) BY <1>8, OpenDashboardKeeps
  <1> QED BY <1>1, <1>2, <1>3, <1>4, <1>5, <1>6, <1>7, <1>8 DEF OnlineNext

(* The distances of a part of the detector's drifts. *)
LEMMA SameDistances ==
  ASSUME NEW p \in Seq(Nat), NEW s \in Seq(Nat), NEW k \in 0 .. Len(p), NEW d \in Int, Len(s) = Len(p) - k,
         \A i \in 1 .. Len(s) : p[k + i] = s[i] + d
  PROVE  Distances(s) = Distances(SubSeq(p, k + 1, Len(p)))
  <1>1. PICK m \in Nat, j \in Nat : m = Len(p) /\ j = Len(s) BY LenProperties
  <1>2. PICK q \in Seq(Nat) : q = SubSeq(p, k + 1, m) /\ Len(q) = j /\ \A i \in 1 .. j : q[i] = p[k + i]
    <2>1. k + 1 \in 1 .. m + 1 /\ m \in k + 1 - 1 .. Len(p) /\ m - (k + 1) + 1 = j BY <1>1
    <2>2. /\ SubSeq(p, k + 1, m) \in Seq(Nat) /\ Len(SubSeq(p, k + 1, m)) = j
          /\ \A i \in 1 .. j : SubSeq(p, k + 1, m)[i] = p[(k + 1) + i - 1]
      BY <1>1, <2>1, SubSeqProperties
    <2>3. ASSUME NEW i \in 1 .. j PROVE SubSeq(p, k + 1, m)[i] = p[k + i]
      <3>1. (k + 1) + i - 1 = k + i OBVIOUS
      <3> QED BY <2>2, <3>1
    <2> QED BY <2>2, <2>3
  <1>3. \A i \in 1 .. j - 1 : q[i + 1] - q[i] = s[i + 1] - s[i]
    <2> SUFFICES ASSUME NEW i \in 1 .. j - 1 PROVE q[i + 1] - q[i] = s[i + 1] - s[i] OBVIOUS
    <2>1. i \in 1 .. j /\ i + 1 \in 1 .. j OBVIOUS
    <2>2. s[i] \in Nat /\ s[i + 1] \in Nat BY <1>1, <2>1, ElementOfSeq
    <2>3. q[i] = s[i] + d /\ q[i + 1] = s[i + 1] + d
      <3>1. q[i] = p[k + i] /\ q[i + 1] = p[k + (i + 1)] BY <1>2, <2>1
      <3> QED BY <1>1, <2>1, <3>1
    <2> QED BY <2>2, <2>3
  <1> QED BY <1>1, <1>2, <1>3 DEF Distances

(* The trend is the sign of a sum of weighted accuracies. *)
LEMMA TrendHolds == ASSUME OnTyped PROVE TrendFollows
  <1>1. PICK m \in Nat : m = Len(dash.recent) /\ DOMAIN dash.recent = 1 .. m BY LenProperties DEF OnTyped
  <1>2. PICK a \in [1 .. m -> Int] : \A i \in 1 .. m : a[i] = dash.recent[i].accuracy
    <2>1. \A i \in 1 .. m : dash.recent[i] \in Entries BY <1>1, ElementOfSeq DEF OnTyped
    <2>2. \A i \in 1 .. m : dash.recent[i].accuracy \in Int BY <2>1 DEF Entries
    <2>3. [i \in 1 .. m |-> dash.recent[i].accuracy] \in [1 .. m -> Int] BY <2>2
    <2> QED BY <2>3
  <1>3. PICK w : w = [i \in 1 .. m |-> (2 * i - m - 1) * dash.recent[i].accuracy] OBVIOUS
  <1>4. \A i \in 1 .. m : w[i] = (2 * i - m - 1) * a[i] BY <1>2, <1>3
  <1>5. Trend = IF m < 2 THEN "insufficient" ELSE IF Total(w, 1 .. m) > 0 THEN "improving"
                ELSE IF Total(w, 1 .. m) < 0 THEN "degrading" ELSE "stable"
    BY <1>1, <1>3 DEF Trend, Total
  <1>6. Total(w, 1 .. m) \in Int
    <2>1. \A i \in 1 .. m : w[i] \in Int
      <3> SUFFICES ASSUME NEW i \in 1 .. m PROVE w[i] \in Int OBVIOUS
      <3>1. 2 * i - m - 1 \in Int /\ a[i] \in Int BY <1>2
      <3> QED BY <1>4, <3>1
    <2>2. IsFiniteSet(1 .. m) /\ Whole(w, 1 .. m) BY <2>1, FS_Interval DEF Whole
    <2> QED BY <2>2, TotalInt
  <1>7. ASSUME Trend = "degrading" PROVE \E i \in 2 .. m : dash.recent[i].accuracy < dash.recent[i - 1].accuracy
    <2>1. m >= 2 /\ Total(w, 1 .. m) < 0 BY <1>5, <1>7
    <2>2. ~ \A i \in 2 .. m : a[i] >= a[i - 1]
      <3>1. ASSUME \A i \in 2 .. m : a[i] >= a[i - 1] PROVE FALSE
        <4>1. m \in Nat \ {0} BY <2>1
        <4>2. \A i \in 1 .. m : a[i] \in Int BY <1>2
        <4>3. Total(w, 1 .. m) >= 0 BY <1>4, <3>1, <4>1, <4>2, SlopeOfRise
        <4> QED BY <1>6, <2>1, <4>3
      <3> QED BY <3>1
    <2>3. PICK i \in 2 .. m : ~(a[i] >= a[i - 1]) BY <2>2
    <2>4. i \in 1 .. m /\ i - 1 \in 1 .. m OBVIOUS
    <2>5. a[i] < a[i - 1] BY <1>2, <2>3, <2>4
    <2> QED BY <1>2, <2>4, <2>5
  <1>8. ASSUME Trend = "improving" PROVE \E i \in 2 .. m : dash.recent[i].accuracy > dash.recent[i - 1].accuracy
    <2>1. m >= 2 /\ Total(w, 1 .. m) > 0
      <3>1. ~(m < 2) BY <1>5, <1>8
      <3>2. Total(w, 1 .. m) > 0 BY <1>5, <1>8, <3>1
      <3> QED BY <3>1, <3>2
    <2>2. ~ \A i \in 2 .. m : a[i] <= a[i - 1]
      <3>1. ASSUME \A i \in 2 .. m : a[i] <= a[i - 1] PROVE FALSE
        <4>1. m \in Nat \ {0} BY <2>1
        <4>2. \A i \in 1 .. m : a[i] \in Int BY <1>2
        <4>3. Total(w, 1 .. m) <= 0 BY <1>4, <3>1, <4>1, <4>2, SlopeOfFall
        <4> QED BY <1>6, <2>1, <4>3
      <3> QED BY <3>1
    <2>3. PICK i \in 2 .. m : ~(a[i] <= a[i - 1]) BY <2>2
    <2>4. i \in 1 .. m /\ i - 1 \in 1 .. m OBVIOUS
    <2>5. a[i] > a[i - 1] BY <1>2, <2>3, <2>4
    <2> QED BY <1>2, <2>4, <2>5
  <1> QED BY <1>1, <1>7, <1>8 DEF TrendFollows

(* What the invariant says of the online learner. *)
LEMMA OnlineImplies == ASSUME OnlineInv PROVE OnlineSound
  <1> USE DEF OnlineInv
  <1>1. OnlineTypeOK
    <2>1. learner.n \in 0 .. MaxSamples BY DEF OnTyped
    <2>2. step.pc \in {"idle", "saving", "answered"} BY DEF OnTyped
    <2> QED BY <2>1, <2>2 DEF OnTyped, OnlineTypeOK
  <1>2. CheckpointNear
    <2> SUFFICES ASSUME learner.n > Interval + lostSaves, lastSaved <= learner.n
                 PROVE  \E n \in Wholes : n <= learner.n /\ learner.n - n <= Interval + lostSaves
      BY DEF CheckpointNear
    <2>1. PICK w \in Wholes \cup {0} : w <= learner.n /\ learner.n - w <= Interval + lostSaves - Spare BY DEF NearInv
    <2>2. Spare \in 0 .. 1 BY DEF Spare
    <2>3. w \in Int BY <2>1 DEF Wholes
    <2>4. learner.n - w <= Interval + lostSaves BY <2>1, <2>2, <2>3, CountsTyped
    <2>5. w # 0 BY <2>4, CountsTyped
    <2> QED BY <2>1, <2>4, <2>5
  <1>3. DriftIsNow
    <2>1. ASSUME detector.points # <<>>
          PROVE  Last(detector.points) = detector.points[Len(detector.points)]
      BY DEF Last
    <2>2. detector.points # <<>> => detector.since = detector.total - Last(detector.points) BY <2>1 DEF DriftInv
    <2>3. step.retrain = "drift" => step.drift /\ Last(detector.points) = detector.total BY <2>1 DEF DriftInv
    <2> QED BY <2>2, <2>3 DEF DriftIsNow
  <1>4. DistancesAgree
    <2> SUFFICES ASSUME lostSaves = 0, step.pc = "idle", dash.open
                 PROVE  \E k \in 0 .. Len(detector.points) :
                          Distances(dash.drifts) = Distances(SubSeq(detector.points, k + 1, Len(detector.points)))
      BY DEF DistancesAgree
    <2>1. PICK k \in 0 .. Len(detector.points), d \in Int : SameDrifts(k, d) BY DEF DistInv
    <2>2. detector.points \in Seq(Nat) /\ dash.drifts \in Seq(Nat) BY DEF OnTyped
    <2>3. Len(dash.drifts) = Len(detector.points) - k
      <3>1. Owed = 0 BY DEF Owed
      <3>2. Len(detector.points) \in Nat BY <2>2, LenProperties
      <3> QED BY <2>1, <3>1, <3>2 DEF SameDrifts
    <2>4. \A i \in 1 .. Len(dash.drifts) : detector.points[k + i] = dash.drifts[i] + d BY <2>1 DEF SameDrifts
    <2>5. Distances(dash.drifts) = Distances(SubSeq(detector.points, k + 1, Len(detector.points)))
      BY <2>1, <2>2, <2>3, <2>4, SameDistances
    <2> QED BY <2>1, <2>5
  <1>5. TrendFollows BY TrendHolds
  <1> QED BY <1>1, <1>2, <1>3, <1>4, <1>5 DEF OnlineSound

(* For any intervals and windows, and wherever saves fail or the process ends: a whole checkpoint is *)
(* near the count the process has come to, a drift is counted from where it was found, the dashboard *)
(* has the detector's distances, and a trend follows a change (online_learner.py, train_step).       *)
THEOREM OnlineIsSound == OnlineSpec => []OnlineSound
  <1>1. OnlineInit => OnlineInv BY OnlineInitially
  <1>2. OnlineInv /\ [OnlineNext]_onlineVars => OnlineInv' BY OnlineStep
  <1>3. OnlineInv => OnlineSound BY OnlineImplies
  <1> QED BY <1>1, <1>2, <1>3, PTL DEF OnlineSpec

(* The models that are kept up to date by themselves, for any threads, returns, baselines, size of the registry and  *)
(* intervals: the one in service is the one flagged and won its validation, and a resumed learner is near its last   *)
(* checkpoint and counts its drifts from where they were found.                                                      *)
THEOREM ModelsAreSound == TuneSpec /\ OnlineSpec => []ModelsSound
  <1>1. AutoMLSound /\ OnlineSound => ModelsSound BY DEF ModelsSound
  <1> QED BY <1>1, AutoMLIsSound, OnlineIsSound, PTL
=============================================================================
