---------------------------- MODULE StoreProofs ----------------------------
(***************************************************************************)
(* Proofs about four stores of the API: what projections learn             *)
(* (ProjectionLearning), the model registry (ModelRegistry), the activity  *)
(* log and the secure state (StateStore), and about how the models are     *)
(* trained and tested (Training), each for every value of its constants.   *)
(***************************************************************************)
EXTENDS ProjectionLearning, ModelRegistry, StateStore, Training,
        Sums, FiniteSetTheorems, WellFoundedInduction, TLAPS

-----------------------------------------------------------------------------
(* The times of judgements are bounded: no candle, or every candle came in time and was got.          *)
Steady == ~candles \/ (timeframe <= MaxWait /\ ~spoilt)

(* A record whose reliability is that of its wins and losses.                *)
Earned(rec) ==
  /\ rec \in LearningRecords /\ rec.observations = rec.wins + rec.losses
  /\ rec.wins = 0 => rec.reliability <= StartReliability
  /\ rec.losses = 0 => rec.reliability >= StartReliability

(* The last prediction of a record is as old as its judgements took; anchored at candles, it is the   *)
(* latest one or a whole timeframe older.                                                             *)
Timed(rec) ==
  /\ rec.last <= now
  /\ Steady => rec.observations * EvaluationAfter <= rec.last
  /\ Steady /\ candles => rec.last = candle \/ rec.last + timeframe <= candle \/ rec.last = 0

(* What a record has learnt: no more than there were requests.               *)
Learnt(rec) == Earned(rec) /\ Timed(rec) /\ rec.observations <= requests

(* The inductive invariant behind LearningIsHonest.                         *)
LearningInv ==
  /\ LearningTypeOK /\ Learnt(record) /\ Learnt(saved)
  /\ Steady /\ candles => now < candle + timeframe

(* What the variables that count time are.                                  *)
LEMMA LearningTypes ==
  ASSUME LearningTypeOK
  PROVE  /\ now \in Nat /\ candle \in Nat /\ candle <= now /\ candle >= 1 /\ now <= MaxClock /\ timeframe \in Nat
         /\ timeframe >= 1 /\ MaxClock \in Nat /\ requests \in Nat /\ MaxRequests \in Nat
         /\ EvaluationAfter \in Nat /\ EvaluationAfter >= 1
         /\ (timeframe <= MaxWait => EvaluationAfter = timeframe)
  BY LearningAssumption DEF LearningTypeOK, EvaluationAfter

(* The bounds of the reliability, and where it starts.                      *)
LEMMA ReliabilityBounds == LowestReliability = 300000 /\ StartReliability = 580000 /\ HighestReliability = 980000
  BY SMT DEF LowestReliability, StartReliability, HighestReliability

(* The reliability stays within its bounds; a lost judgement does not raise it above where it starts, *)
(* a won one does not take it below.                                                                  *)
LEMMA ReliabilityFollows ==
  ASSUME NEW old \in Reliabilities, NEW won \in BOOLEAN, NEW near \in Magnitudes
  PROVE  /\ Reliability(old, won, near) \in Reliabilities
         /\ ~won /\ old <= StartReliability => Reliability(old, won, near) <= StartReliability
         /\ won /\ old >= StartReliability => Reliability(old, won, near) >= StartReliability
  <1>1. /\ near \in Nat /\ near <= 100 /\ old \in Int /\ 300000 <= old /\ old <= 980000
        /\ LowestReliability = 300000 /\ StartReliability = 580000 /\ HighestReliability = 980000
    BY ReliabilityBounds, LearningAssumption, SMT DEF Reliabilities
  <1> DEFINE score == Score(won, near)
             mean  == (88 * old + 12 * score + 50) \div 100
  <1>2. score \in Nat /\ score <= 1000000 /\ (won => score >= 720000) /\ (~won => score <= 280000)
    BY <1>1, SMT DEF Score
  <1>3. Reliability(old, won, near) = Clamp(mean)
    BY DEF Reliability
  <1> HIDE DEF score
  <1>4. mean \in Int /\ (~won /\ old <= 580000 => mean <= 580000) /\ (won /\ old >= 580000 => mean >= 580000)
    BY <1>1, <1>2, SMT
  <1> HIDE DEF mean
  <1> QED BY <1>1, <1>3, <1>4, SMT DEF Clamp, Reliabilities

(* A judgement leaves a reliability that is earned.                         *)
LEMMA JudgedIsEarned ==
  ASSUME NEW rec, Earned(rec), NEW won \in BOOLEAN, NEW near \in Magnitudes, NEW anchor \in 0 .. MaxClock,
         rec.observations < MaxRequests
  PROVE  /\ Earned(After(rec, won, near, anchor))
         /\ After(rec, won, near, anchor).last = anchor
         /\ After(rec, won, near, anchor).observations = rec.observations + (IF Due(rec) THEN 1 ELSE 0)
  <1>1. /\ rec \in LearningRecords /\ rec.observations \in Nat /\ rec.wins \in Nat /\ rec.losses \in Nat
        /\ rec.reliability \in Reliabilities /\ MaxRequests \in Nat
        /\ rec.observations = rec.wins + rec.losses
    BY LearningAssumption DEF Earned, LearningRecords
  <1>2. CASE ~Due(rec)
    <2>1. After(rec, won, near, anchor) = [rec EXCEPT !.last = anchor]
      BY <1>2 DEF After
    <2> QED BY <1>1, <1>2, <2>1 DEF Earned, LearningRecords
  <1>3. CASE Due(rec)
    <2> DEFINE r == Reliability(rec.reliability, won, near)
               w == rec.wins + (IF won THEN 1 ELSE 0)
               l == rec.losses + (IF won THEN 0 ELSE 1)
    <2>1. After(rec, won, near, anchor) =
            [observations |-> rec.observations + 1, wins |-> w, losses |-> l, reliability |-> r, last |-> anchor]
      BY <1>3 DEF After
    <2>2. /\ r \in Reliabilities
          /\ ~won /\ rec.reliability <= StartReliability => r <= StartReliability
          /\ won /\ rec.reliability >= StartReliability => r >= StartReliability
      BY <1>1, ReliabilityFollows
    <2>3. /\ w \in 0 .. MaxRequests /\ l \in 0 .. MaxRequests /\ rec.observations + 1 = w + l
          /\ rec.observations + 1 \in 0 .. MaxRequests
          /\ w = 0 => ~won /\ rec.wins = 0
          /\ l = 0 => won /\ rec.losses = 0
      BY <1>1
    <2> HIDE DEF r, w, l
    <2> QED BY <1>1, <1>3, <2>1, <2>2, <2>3 DEF Earned, LearningRecords
  <1> QED BY <1>2, <1>3

(* One judgement more takes one evaluation time more.                       *)
LEMMA OneMore ==
  ASSUME NEW n \in Nat, NEW wait \in Nat, NEW last \in Nat, n * wait <= last
  PROVE  (n + 1) * wait <= last + wait
  <1>1. (n + 1) * wait = n * wait + wait /\ n * wait \in Nat
    BY SMT
  <1> QED BY <1>1, SMT

(* While it is steady, the next anchor lies an evaluation time behind that of a judged prediction.    *)
LEMMA AnchorsApart ==
  ASSUME LearningInv, NEW rec, Learnt(rec), NEW anchor, Steady, anchor = IF candles THEN candle ELSE now
  PROVE  /\ Due(rec) => rec.last + EvaluationAfter <= anchor
         /\ rec.last <= anchor
  <1>1. LearningTypeOK /\ rec.last \in Nat /\ rec.last <= now /\ (candles => now < candle + timeframe)
        /\ (candles => rec.last = candle \/ rec.last + timeframe <= candle \/ rec.last = 0)
    BY DEF LearningInv, Learnt, Timed, Earned, LearningRecords
  <1>2. CASE ~candles
    BY <1>1, <1>2, LearningTypes DEF Due
  <1>3. CASE candles
    <2>1. EvaluationAfter = timeframe
      BY <1>1, <1>3, LearningTypes DEF Steady
    <2> QED BY <1>1, <1>3, <2>1, LearningTypes DEF Due
  <1> QED BY <1>2, <1>3

(* A request reads the record, judges at most one prediction and saves: the *)
(* counts and the clock stay in step.                                       *)
LEMMA RequestStep ==
  ASSUME LearningInv, NEW won \in BOOLEAN, NEW near \in Magnitudes, NEW fetched \in BOOLEAN, fetched => candles,
         requests < MaxRequests, requests' = requests + 1, UNCHANGED <<candles, timeframe, now, candle>>,
         spoilt' = (spoilt \/ (candles /\ ~fetched)),
         record' = After(Current, won, near, IF fetched THEN candle ELSE now),
         saved' \in {record', saved}, loaded' = TRUE
  PROVE  LearningInv'
  <1> DEFINE old == Current
             anchor == IF fetched THEN candle ELSE now
  <1>1. LearningTypeOK /\ Learnt(old)
    BY DEF LearningInv, Current
  <1>2. /\ anchor \in Nat /\ anchor <= now /\ anchor \in 0 .. MaxClock /\ requests + 1 \in Nat
        /\ requests + 1 <= MaxRequests /\ EvaluationAfter' = EvaluationAfter
    BY <1>1, LearningTypes DEF EvaluationAfter
  <1>3. old.observations \in Nat /\ old.observations <= requests /\ old.last \in Nat /\ Earned(old)
    BY <1>1 DEF Learnt, Earned, LearningRecords
  <1>4. Steady' => Steady /\ anchor = IF candles THEN candle ELSE now
    BY DEF Steady
  <1> HIDE DEF old, anchor
  <1>5. /\ Earned(record') /\ record'.last = anchor
        /\ record'.observations = old.observations + (IF Due(old) THEN 1 ELSE 0)
    <2>1. record' = After(old, won, near, anchor) /\ old.observations < MaxRequests
      BY <1>1, <1>2, <1>3, LearningTypes DEF old, anchor
    <2> QED BY <1>2, <1>3, <2>1, JudgedIsEarned
  <1>6. Steady' => record'.observations * EvaluationAfter <= anchor
    <2> SUFFICES ASSUME Steady' PROVE record'.observations * EvaluationAfter <= anchor
      OBVIOUS
    <2> DEFINE wait == EvaluationAfter
    <2>1. /\ wait \in Nat /\ old.observations * wait <= old.last /\ old.last <= anchor
          /\ (Due(old) => old.last + wait <= anchor)
      BY <1>1, <1>4, LearningTypes, AnchorsApart DEF Learnt, Timed
    <2> HIDE DEF wait
    <2>2. CASE Due(old)
      <3> DEFINE took == (old.observations + 1) * wait
      <3>1. took <= old.last + wait /\ took \in Nat
        BY <1>3, <2>1, OneMore
      <3>2. record'.observations = old.observations + 1
        BY <1>5, <2>2
      <3> HIDE DEF took
      <3>3. took <= anchor
        BY <1>2, <1>3, <2>1, <2>2, <3>1
      <3> QED BY <3>2, <3>3 DEF took, wait
    <2>3. CASE ~Due(old)
      <3> DEFINE took == old.observations * wait
      <3>1. took \in Nat /\ took <= old.last
        BY <1>3, <2>1
      <3>2. record'.observations = old.observations
        BY <1>3, <1>5, <2>3
      <3> HIDE DEF took
      <3>3. took <= anchor
        BY <1>2, <1>3, <2>1, <3>1
      <3> QED BY <3>2, <3>3 DEF took, wait
    <2> QED BY <2>2, <2>3
  <1>7. Learnt(record)'
    <2>1. Timed(record)'
      BY <1>2, <1>4, <1>5, <1>6 DEF Timed
    <2>2. record'.observations <= requests + 1
      BY <1>1, <1>3, <1>5, LearningTypes
    <2> QED BY <1>5, <2>1, <2>2 DEF Learnt, Earned
  <1>8. Learnt(saved)'
    <2>1. CASE saved' = record'
      BY <1>7, <2>1 DEF Learnt, Earned, Timed
    <2>2. CASE saved' = saved
      <3>1. Learnt(saved) /\ saved.observations \in Nat
        BY DEF LearningInv, Learnt, Earned, LearningRecords
      <3>2. saved'.observations <= requests'
        BY <1>1, <2>2, <3>1, LearningTypes DEF Learnt
      <3>3. Timed(saved)'
        BY <1>2, <1>4, <2>2, <3>1 DEF Learnt, Timed
      <3> QED BY <2>2, <3>1, <3>2, <3>3 DEF Learnt, Earned
    <2> QED BY <2>1, <2>2
  <1>9. LearningTypeOK'
    <2>1. record' \in LearningRecords /\ saved' \in LearningRecords /\ requests' \in 0 .. MaxRequests
      BY <1>2, <1>7, <1>8, LearningTypes, <1>1 DEF Learnt, Earned
    <2>2. candle' \in 1 .. now' /\ spoilt' \in BOOLEAN
      BY <1>1 DEF LearningTypeOK
    <2> QED BY <1>1, <2>1, <2>2 DEF LearningTypeOK
  <1>10. Steady' /\ candles' => now' < candle' + timeframe'
    BY <1>4 DEF LearningInv
  <1> QED BY <1>7, <1>8, <1>9, <1>10 DEF LearningInv

(* Time, candles and restarts add nothing to a record.                      *)
LEMMA OtherSteps ==
  ASSUME LearningInv, Pass \/ LearningRestart \/ UNCHANGED learningVars
  PROVE  LearningInv'
  <1>1. LearningTypeOK /\ Learnt(record) /\ Learnt(saved) /\ (Steady /\ candles => now < candle + timeframe)
    BY DEF LearningInv
  <1>2. UNCHANGED <<candles, timeframe, record, saved, requests>> /\ EvaluationAfter' = EvaluationAfter
    BY DEF Pass, LearningRestart, learningVars, EvaluationAfter
  <1>3. /\ now' \in 1 .. MaxClock /\ now <= now' /\ candle' \in 1 .. now' /\ (Steady' => Steady)
        /\ (Steady' /\ candles => now' < candle' + timeframe)
        /\ candle' = candle \/ (candle + timeframe <= candle')
    <2>1. CASE Pass
      BY <1>1, <1>2, <2>1, LearningTypes DEF Pass, Steady, LearningTypeOK
    <2>2. CASE LearningRestart \/ UNCHANGED learningVars
      <3>1. UNCHANGED <<candles, timeframe, now, candle, spoilt>>
        BY <2>2 DEF LearningRestart, learningVars
      <3> QED BY <1>1, <3>1, LearningTypes DEF Steady, LearningTypeOK
    <2> QED BY <2>1, <2>2
  <1>4. loaded' \in BOOLEAN /\ spoilt' \in BOOLEAN
    BY <1>1 DEF LearningTypeOK, Pass, LearningRestart, learningVars
  <1>5. LearningTypeOK'
    BY <1>1, <1>2, <1>3, <1>4 DEF LearningTypeOK
  <1>6. ASSUME NEW rec, Learnt(rec), rec \in {record, saved}
        PROVE  /\ rec.last <= now'
               /\ Steady' => rec.observations * EvaluationAfter' <= rec.last
               /\ Steady' /\ candles' => rec.last = candle' \/ rec.last + timeframe' <= candle' \/ rec.last = 0
    <2>1. rec.last \in Nat /\ Timed(rec)
      BY <1>6 DEF Learnt, Earned, LearningRecords
    <2>2. rec.last <= now'
      BY <1>1, <1>3, <2>1, LearningTypes DEF Timed
    <2>3. Steady' /\ candles' => rec.last = candle' \/ rec.last + timeframe' <= candle' \/ rec.last = 0
      BY <1>1, <1>2, <1>3, <2>1, LearningTypes DEF Timed
    <2> QED BY <1>2, <1>3, <2>1, <2>2, <2>3 DEF Timed
  <1>7. Learnt(record)' /\ Learnt(saved)'
    BY <1>1, <1>2, <1>6 DEF Learnt, Timed, Earned
  <1> QED BY <1>2, <1>3, <1>5, <1>7 DEF LearningInv

(* LearningIsHonest: the reliability a projection reports is earned by the judgements that are        *)
(* counted, and while requests are anchored at the clock, or at candles of at most four hours that    *)
(* come in time, these judgements are apart by the evaluation time; for any timeframes, waits,        *)
(* magnitudes and bounds.                                                                             *)
THEOREM LearningStaysHonest == LearningSpec => []LearningIsHonest
  <1>1. LearningInit => LearningInv
    <2> SUFFICES ASSUME LearningInit PROVE LearningInv
      OBVIOUS
    <2> USE LearningAssumption DEF LearningInit
    <2>1. Earned(NoRecord) /\ NoRecord.observations = 0 /\ NoRecord.last = 0
      <3>1. StartReliability \in Reliabilities /\ StartReliability \in Int
        BY ReliabilityBounds, SMT DEF Reliabilities
      <3> QED BY <3>1 DEF NoRecord, LearningRecords, Earned
    <2>2. LearningTypeOK
      <3>1. now \in 1 .. MaxClock /\ candle \in 1 .. now /\ requests \in 0 .. MaxRequests
        OBVIOUS
      <3> QED BY <2>1, <3>1 DEF LearningTypeOK, Earned
    <2>3. 0 * EvaluationAfter = 0 /\ now < candle + timeframe
      BY <2>2, LearningTypes
    <2> QED BY <2>1, <2>2, <2>3 DEF LearningInv, Learnt, Timed
  <1>2. LearningInv /\ [LearningNext]_learningVars => LearningInv'
    <2> SUFFICES ASSUME LearningInv, [LearningNext]_learningVars PROVE LearningInv'
      OBVIOUS
    <2>1. CASE Project
      <3>1. PICK fetched \in (IF candles THEN BOOLEAN ELSE {FALSE}), won \in BOOLEAN, near \in Magnitudes :
              /\ spoilt' = (spoilt \/ (candles /\ ~fetched))
              /\ record' = After(Current, won, near, IF fetched THEN candle ELSE now)
        BY <2>1 DEF Project
      <3>2. fetched \in BOOLEAN /\ (fetched => candles)
        OBVIOUS
      <3> QED BY <2>1, <3>1, <3>2, RequestStep DEF Project
    <2> QED BY <2>1, OtherSteps DEF LearningNext
  <1>3. LearningInv => LearningIsHonest
    <2> SUFFICES ASSUME LearningInv PROVE LearningIsHonest
      OBVIOUS
    <2>1. ReliabilityIsEarned
      <3>1. Earned(record) /\ Earned(saved)
        BY DEF LearningInv, Learnt
      <3> QED BY <3>1 DEF Earned, ReliabilityIsEarned
    <2>2. ObservationsTakeTime
      <3> DEFINE took == record.observations * EvaluationAfter
      <3>1. LearningTypeOK /\ record.observations \in Nat /\ record.last \in Nat /\ record.last <= now
        BY DEF LearningInv, Learnt, Earned, Timed, LearningRecords
      <3>2. took \in Nat /\ (Steady => took <= record.last)
        BY <3>1, LearningTypes DEF LearningInv, Learnt, Timed
      <3> HIDE DEF took
      <3>3. Steady => took <= now
        BY <3>1, <3>2, LearningTypes
      <3> QED BY <3>3 DEF took, ObservationsTakeTime, Steady
    <2> QED BY <2>1, <2>2 DEF LearningInv, LearningIsHonest
  <1> QED BY <1>1, <1>2, <1>3, PTL DEF LearningSpec

-----------------------------------------------------------------------------
(* A registry that lists a path once and whose active model is one of the   *)
(* list.                                                                    *)
Sound(reg) ==
  /\ reg \in Registries /\ IsInjective(reg.models)
  /\ reg.active \in DOMAIN reg.models \/ (reg.active = 0 /\ reg.models = <<>>)

Denotes(reg, g) == g.id \in DOMAIN reg.models /\ reg.models[g.id] = g.path

(* A process at work was at its start one of those that run; it holds a sound registry, and its answer
   denotes a model of it.                                                                            *)
WorkSound ==
  \A r \in Processes : work[r].pc # "idle" => r \in procs /\ Sound(work[r].reg) /\ Denotes(work[r].reg, work[r])

(* While one process works that is never killed, the answers given are kept in the file, which is
   truncated only when that process is about to write it, and in the registry it is about to write. *)
AnswersKept ==
  Alone => /\ file # Truncated => \A g \in given : Denotes(file, g)
           /\ file = Truncated => \E r \in Processes : work[r].pc = "write"
           /\ \A r \in Processes : work[r].pc # "idle" => \A g \in given : Denotes(work[r].reg, g)

(* The inductive invariant behind RegistryKept.                             *)
RegistryInv == RegistryTypeOK /\ (file # Truncated => Sound(file)) /\ WorkSound /\ AnswersKept

(* There are finitely many paths.                                           *)
LEMMA PathsCounted == Cardinality(Paths) \in Nat /\ IsFiniteSet(Paths)
  BY RegistryAssumption, FS_CardinalityType

(* A registry has a list of paths and an active model.                      *)
LEMMA RegistryFields ==
  ASSUME NEW reg \in Registries
  PROVE  /\ Len(reg.models) \in 0 .. Cardinality(Paths) /\ reg.models \in Seq(Paths)
         /\ DOMAIN reg.models = 1 .. Len(reg.models) /\ reg.active \in 0 .. Cardinality(Paths)
  <1>1. reg.models \in SeqOf(Paths, Cardinality(Paths)) /\ reg.active \in 0 .. Cardinality(Paths)
    BY DEF Registries
  <1>2. PICK m \in 0 .. Cardinality(Paths) : reg.models \in [1 .. m -> Paths]
    BY <1>1 DEF SeqOf
  <1>3. m \in Nat /\ Len(reg.models) = m
    BY <1>2, PathsCounted
  <1> QED BY <1>1, <1>2, <1>3

(* A list that is not longer than there are paths makes a registry.         *)
LEMMA RegistryMade ==
  ASSUME NEW models \in Seq(Paths), Len(models) <= Cardinality(Paths), NEW active \in 0 .. Cardinality(Paths)
  PROVE  [models |-> models, active |-> active] \in Registries
  <1>1. Len(models) \in 0 .. Cardinality(Paths) /\ models \in [1 .. Len(models) -> Paths]
    BY PathsCounted
  <1>2. models \in SeqOf(Paths, Cardinality(Paths))
    BY <1>1 DEF SeqOf
  <1> QED BY <1>2 DEF Registries

(* The pigeonhole principle: a list without repetitions is not longer than  *)
(* there are paths.                                                         *)
LEMMA NoRepetitionFits ==
  ASSUME NEW models \in Seq(Paths), IsInjective(models)
  PROVE  Len(models) <= Cardinality(Paths)
  <1>1. models \in Injection(1 .. Len(models), Paths)
    BY DEF IsInjective, Injection
  <1>2. Cardinality(1 .. Len(models)) <= Cardinality(Paths)
    BY <1>1, PathsCounted, FS_Injection
  <1> DEFINE n == Len(models)
  <1>3. n \in Nat
    OBVIOUS
  <1>4. Cardinality(1 .. Len(models)) = n
    <2> HIDE DEF n
    <2>1. Cardinality(1 .. n) = IF 1 > n THEN 0 ELSE n - 1 + 1
      BY <1>3, FS_Interval
    <2> QED BY <1>3, <2>1 DEF n
  <1> QED BY <1>2, <1>4

(* A new registry is sound.                                                 *)
LEMMA EmptyIsSound == Sound(EmptyRegistry)
  <1>1. <<>> \in Seq(Paths) /\ Len(<<>>) = 0 /\ DOMAIN <<>> = {}
    OBVIOUS
  <1>2. EmptyRegistry \in Registries
    <2>1. 0 \in 0 .. Cardinality(Paths) /\ Len(<<>>) <= Cardinality(Paths)
      BY <1>1, PathsCounted
    <2> QED BY <1>1, <2>1, RegistryMade DEF EmptyRegistry
  <1> QED BY <1>1, <1>2 DEF Sound, EmptyRegistry, IsInjective

(* A path that is listed has an id.                                         *)
LEMMA KnownId ==
  ASSUME NEW models \in Seq(Paths), NEW path \in ToSet(models)
  PROVE  IdOf(models, path) \in DOMAIN models /\ models[IdOf(models, path)] = path
  BY DEF IdOf, ToSet

(* Registering a path keeps the registry sound, every id of it, and gives   *)
(* the path an id.                                                          *)
LEMMA RegisteringKeeps ==
  ASSUME NEW reg, Sound(reg), NEW path \in Paths
  PROVE  /\ Sound(Registered(reg, path))
         /\ \A g : Denotes(reg, g) => Denotes(Registered(reg, path), g)
         /\ LET new == Registered(reg, path) IN
              IdOf(new.models, path) \in DOMAIN new.models /\ new.models[IdOf(new.models, path)] = path
  <1> DEFINE n == Len(reg.models)
  <1>1. /\ reg \in Registries /\ reg.models \in Seq(Paths) /\ n \in 0 .. Cardinality(Paths)
        /\ DOMAIN reg.models = 1 .. n /\ n \in Nat /\ Cardinality(Paths) \in Nat
    BY RegistryFields, PathsCounted DEF Sound
  <1>2. CASE path \in ToSet(reg.models)
    <2> DEFINE id == IdOf(reg.models, path)
    <2>1. id \in 1 .. n /\ reg.models[id] = path /\ id # 0
      BY <1>1, <1>2, KnownId
    <2>2. Registered(reg, path) = [models |-> reg.models, active |-> IF reg.active = 0 THEN id ELSE reg.active]
      BY <2>1 DEF Registered
    <2> DEFINE new == Registered(reg, path)
               act == IF reg.active = 0 THEN id ELSE reg.active
    <2>3. new.models = reg.models /\ new.active = act
      BY <2>2
    <2>4. act \in 1 .. n /\ act \in 0 .. Cardinality(Paths)
      BY <1>1, <2>1 DEF Sound
    <2>5. new \in Registries
      BY <1>1, <2>2, <2>4, RegistryMade
    <2> HIDE DEF new, act, id
    <2>6. Sound(new)
      BY <1>1, <2>3, <2>4, <2>5 DEF Sound
    <2>7. \A g : Denotes(reg, g) => Denotes(new, g)
      BY <2>3 DEF Denotes
    <2>8. IdOf(new.models, path) \in DOMAIN new.models /\ new.models[IdOf(new.models, path)] = path
      BY <1>1, <2>1, <2>3 DEF id
    <2> QED BY <2>6, <2>7, <2>8 DEF new
  <1>3. CASE path \notin ToSet(reg.models)
    <2> DEFINE models == Append(reg.models, path)
               act == IF reg.active = 0 THEN n + 1 ELSE reg.active
               new == Registered(reg, path)
    <2>1. /\ models \in Seq(Paths) /\ Len(models) = n + 1 /\ DOMAIN models = 1 .. n + 1 /\ models[n + 1] = path
          /\ \A i \in 1 .. n : models[i] = reg.models[i] /\ models[i] # path
      BY <1>1, <1>3 DEF ToSet
    <2>2. IdOf(reg.models, path) = 0
      BY <1>3 DEF IdOf
    <2> HIDE DEF models
    <2>3. new = [models |-> models, active |-> act]
      BY <2>1, <2>2 DEF Registered, models
    <2>4. IsInjective(models)
      <3>1. \A i, j \in 1 .. n : reg.models[i] = reg.models[j] => i = j
        BY <1>1 DEF Sound, IsInjective
      <3>2. \A i \in 1 .. n + 1 : i \in 1 .. n \/ i = n + 1
        BY <1>1
      <3> QED BY <2>1, <3>1, <3>2 DEF IsInjective
    <2>5. n + 1 <= Cardinality(Paths)
      BY <2>1, <2>4, NoRepetitionFits
    <2>6. act \in 1 .. n + 1 /\ act \in 0 .. Cardinality(Paths)
      BY <1>1, <2>5 DEF Sound
    <2>7. new \in Registries
      BY <2>1, <2>3, <2>5, <2>6, RegistryMade
    <2>8. new.models = models /\ new.active = act
      BY <2>3
    <2> HIDE DEF new, act
    <2>9. Sound(new)
      BY <2>1, <2>4, <2>6, <2>7, <2>8 DEF Sound
    <2>10. \A g : Denotes(reg, g) => Denotes(new, g)
      BY <1>1, <2>1, <2>8 DEF Denotes
    <2>11. path \in ToSet(models)
      BY <1>1, <2>1 DEF ToSet
    <2>12. IdOf(new.models, path) \in DOMAIN new.models /\ new.models[IdOf(new.models, path)] = path
      BY <2>1, <2>8, <2>11, KnownId
    <2> QED BY <2>9, <2>10, <2>12 DEF new
  <1> QED BY <1>2, <1>3

(* Switching the active model too.                                          *)
LEMMA SwitchingKeeps ==
  ASSUME NEW reg, Sound(reg), NEW id \in DOMAIN reg.models
  PROVE  /\ Sound([reg EXCEPT !.active = id]) /\ Denotes([reg EXCEPT !.active = id], [id |-> id, path |-> reg.models[id]])
         /\ \A g : Denotes(reg, g) => Denotes([reg EXCEPT !.active = id], g)
  <1>1. reg \in Registries /\ DOMAIN reg.models = 1 .. Len(reg.models) /\ Len(reg.models) \in 0 .. Cardinality(Paths)
        /\ reg.models \in Seq(Paths)
    BY RegistryFields DEF Sound
  <1> DEFINE new == [reg EXCEPT !.active = id]
  <1>2. new.models = reg.models /\ new.active = id /\ new = [models |-> reg.models, active |-> id]
    BY <1>1 DEF Registries
  <1>3. id \in 0 .. Cardinality(Paths) /\ Len(reg.models) <= Cardinality(Paths)
    BY <1>1, PathsCounted
  <1>4. new \in Registries
    BY <1>1, <1>2, <1>3, RegistryMade
  <1> HIDE DEF new
  <1>5. Sound(new)
    BY <1>2, <1>4 DEF Sound
  <1>6. Denotes(new, [id |-> id, path |-> reg.models[id]]) /\ \A g : Denotes(reg, g) => Denotes(new, g)
    BY <1>2 DEF Denotes
  <1> QED BY <1>5, <1>6 DEF new

(* Of one process alone, only that one can be at work.                      *)
LEMMA OneAtWork ==
  ASSUME RegistryInv, Alone, NEW r \in procs, NEW s \in Processes, work[s].pc # "idle"
  PROVE  s = r
  <1>1. IsFiniteSet(procs) /\ Cardinality(procs) = 1 /\ s \in procs
    BY RegistryAssumption DEF RegistryInv, RegistryTypeOK, Alone, WorkSound
  <1>2. \E x : procs = {x}
    BY <1>1, FS_Singleton
  <1> QED BY <1>1, <1>2

(* What a process loads is sound, and denotes the answers given as long as  *)
(* it works alone.                                                          *)
LEMMA LoadedIsSound ==
  ASSUME RegistryInv
  PROVE  /\ Sound(LoadRegistry)
         /\ \A r \in procs : work[r].pc = "idle" => (Alone => \A g \in given : Denotes(LoadRegistry, g))
  <1>1. Sound(LoadRegistry)
    BY EmptyIsSound DEF RegistryInv, LoadRegistry
  <1>2. ASSUME NEW r \in procs, work[r].pc = "idle", Alone, NEW g \in given PROVE Denotes(LoadRegistry, g)
    <2>1. file # Truncated
      <3> SUFFICES ASSUME file = Truncated PROVE FALSE
        OBVIOUS
      <3>1. PICK s \in Processes : work[s].pc = "write"
        BY <1>2 DEF RegistryInv, AnswersKept
      <3> QED BY <1>2, <3>1, OneAtWork
    <2> QED BY <1>2, <2>1 DEF RegistryInv, AnswersKept, LoadRegistry
  <1> QED BY <1>1, <1>2

(* A process that begins to save a sound registry keeps the invariant.      *)
LEMMA BeginKeeps ==
  ASSUME RegistryInv, NEW r \in Processes, NEW reg, NEW path \in Paths, NEW id, BeginSave(r, reg, path, id),
         Sound(reg), id \in DOMAIN reg.models, reg.models[id] = path,
         \A g : Denotes(LoadRegistry, g) => Denotes(reg, g)
  PROVE  RegistryInv'
  <1>1. /\ r \in procs /\ work[r].pc = "idle" /\ changes < MaxChanges /\ changes' = changes + 1
        /\ work' = [work EXCEPT ![r] = [pc |-> "truncate", path |-> path, id |-> id, reg |-> reg]]
        /\ UNCHANGED <<procs, file, kills, given>>
    BY DEF BeginSave
  <1>2. RegistryTypeOK
    BY DEF RegistryInv
  <1>3. work'[r] = [pc |-> "truncate", path |-> path, id |-> id, reg |-> reg]
        /\ \A s \in Processes : s # r => work'[s] = work[s]
    BY <1>1, <1>2 DEF RegistryTypeOK
  <1>4. RegistryTypeOK'
    <2>1. reg \in Registries /\ id \in 0 .. Cardinality(Paths)
      BY RegistryFields, PathsCounted DEF Sound
    <2>2. changes' \in 0 .. MaxChanges
      BY <1>1, <1>2, RegistryAssumption DEF RegistryTypeOK
    <2>3. work' \in [Processes -> [pc : {"idle", "truncate", "write"}, path : Paths \cup {NoModel},
                                   id : 0 .. Cardinality(Paths), reg : Registries]]
      BY <1>1, <1>2, <2>1 DEF RegistryTypeOK
    <2> QED BY <1>1, <1>2, <2>2, <2>3 DEF RegistryTypeOK
  <1>5. WorkSound'
    <2> SUFFICES ASSUME NEW s \in Processes, work'[s].pc # "idle"
                 PROVE  s \in procs /\ Sound(work'[s].reg) /\ Denotes(work'[s].reg, work'[s])
      BY <1>1 DEF WorkSound, Sound, Denotes
    <2>1. CASE s = r
      BY <1>1, <1>3, <2>1 DEF Denotes
    <2>2. CASE s # r
      BY <1>3, <2>2 DEF RegistryInv, WorkSound
    <2> QED BY <2>1, <2>2
  <1>6. AnswersKept'
    <2> SUFFICES ASSUME Alone PROVE AnswersKept'
      BY <1>1 DEF AnswersKept, Alone
    <2>1. \A g \in given : Denotes(reg, g)
      BY <1>1, LoadedIsSound
    <2>2. file # Truncated
      <3> SUFFICES ASSUME file = Truncated PROVE FALSE
        OBVIOUS
      <3>1. PICK s \in Processes : work[s].pc = "write"
        BY DEF RegistryInv, AnswersKept
      <3> QED BY <1>1, <3>1, OneAtWork
    <2>3. \A s \in Processes : work'[s].pc # "idle" => \A g \in given : Denotes(work'[s].reg, g)
      <3> SUFFICES ASSUME NEW s \in Processes, work'[s].pc # "idle" PROVE \A g \in given : Denotes(work'[s].reg, g)
        OBVIOUS
      <3>1. CASE s = r
        BY <1>3, <2>1, <3>1
      <3>2. CASE s # r
        BY <1>3, <3>2 DEF RegistryInv, AnswersKept
      <3> QED BY <3>1, <3>2
    <2>4. \A g \in given : Denotes(file, g)
      BY <2>2 DEF RegistryInv, AnswersKept
    <2> QED BY <1>1, <2>2, <2>3, <2>4 DEF AnswersKept, Denotes
  <1> QED BY <1>1, <1>4, <1>5, <1>6 DEF RegistryInv, Sound

(* register: the path gets the id it has, or a new one.                     *)
LEMMA RegisterStep == ASSUME RegistryInv, NEW r \in Processes, Register(r) PROVE RegistryInv'
  <1>1. PICK path \in Paths :
          BeginSave(r, Registered(LoadRegistry, path), path, IdOf(Registered(LoadRegistry, path).models, path))
    BY DEF Register
  <1> DEFINE reg == Registered(LoadRegistry, path)
  <1>2. /\ Sound(reg) /\ (\A g : Denotes(LoadRegistry, g) => Denotes(reg, g))
        /\ IdOf(reg.models, path) \in DOMAIN reg.models /\ reg.models[IdOf(reg.models, path)] = path
    BY LoadedIsSound, RegisteringKeeps
  <1>3. BeginSave(r, reg, path, IdOf(reg.models, path))
    BY <1>1
  <1> HIDE DEF reg
  <1> QED BY <1>2, <1>3, BeginKeeps

(* set_active: the id is one of the list that was loaded.                   *)
LEMMA SetActiveStep == ASSUME RegistryInv, NEW r \in Processes, SetActive(r) PROVE RegistryInv'
  <1>1. PICK id \in DOMAIN LoadRegistry.models :
          BeginSave(r, [LoadRegistry EXCEPT !.active = id], LoadRegistry.models[id], id)
    BY DEF SetActive, CanActivate
  <1> DEFINE reg == [LoadRegistry EXCEPT !.active = id]
             path == LoadRegistry.models[id]
  <1>2. /\ Sound(reg) /\ (\A g : Denotes(LoadRegistry, g) => Denotes(reg, g))
        /\ Denotes(reg, [id |-> id, path |-> path])
    BY LoadedIsSound, SwitchingKeeps
  <1>3. id \in DOMAIN reg.models /\ reg.models[id] = path
    BY <1>2 DEF Denotes
  <1>4. path \in Paths
    BY LoadedIsSound, RegistryFields DEF Sound
  <1>5. BeginSave(r, reg, path, id)
    BY <1>1
  <1> HIDE DEF reg, path
  <1> QED BY <1>2, <1>3, <1>4, <1>5, BeginKeeps

(* Opening the file for writing empties it.                                 *)
LEMMA TruncateStep == ASSUME RegistryInv, NEW r \in Processes, TruncateFile(r) PROVE RegistryInv'
  <1>1. /\ work[r].pc = "truncate" /\ file' = Truncated /\ work' = [work EXCEPT ![r].pc = "write"]
        /\ UNCHANGED <<procs, changes, kills, given>>
    BY DEF TruncateFile
  <1>2. RegistryTypeOK
    BY DEF RegistryInv
  <1>3. /\ work'[r].pc = "write" /\ work'[r].path = work[r].path /\ work'[r].id = work[r].id
        /\ work'[r].reg = work[r].reg
        /\ \A s \in Processes : s # r => work'[s] = work[s]
    BY <1>1, <1>2 DEF RegistryTypeOK
  <1>4. RegistryTypeOK'
    <2>1. work' \in [Processes -> [pc : {"idle", "truncate", "write"}, path : Paths \cup {NoModel},
                                   id : 0 .. Cardinality(Paths), reg : Registries]]
      BY <1>1, <1>2 DEF RegistryTypeOK
    <2> QED BY <1>1, <1>2, <2>1 DEF RegistryTypeOK
  <1>5. WorkSound'
    <2>1. \A s \in Processes : work'[s].pc # "idle" => work[s].pc # "idle" /\ work'[s].reg = work[s].reg
                                 /\ work'[s].id = work[s].id /\ work'[s].path = work[s].path
      BY <1>1, <1>3
    <2> QED BY <1>1, <2>1 DEF RegistryInv, WorkSound, Sound, Denotes
  <1>6. AnswersKept'
    <2> SUFFICES ASSUME Alone PROVE AnswersKept'
      BY <1>1 DEF AnswersKept, Alone
    <2>1. \A s \in Processes : work'[s].pc # "idle" => work[s].pc # "idle" /\ work'[s].reg = work[s].reg
      BY <1>1, <1>3
    <2>2. \A s \in Processes : work'[s].pc # "idle" => \A g \in given : Denotes(work'[s].reg, g)
      BY <2>1 DEF RegistryInv, AnswersKept
    <2> QED BY <1>1, <1>3, <2>2 DEF AnswersKept, Denotes
  <1> QED BY <1>1, <1>4, <1>5, <1>6 DEF RegistryInv, Sound, Truncated

(* The registry is written, and the answer given.                           *)
LEMMA WriteStep == ASSUME RegistryInv, NEW r \in Processes, WriteFile(r) PROVE RegistryInv'
  <1>1. /\ work[r].pc = "write" /\ file' = work[r].reg /\ work' = [work EXCEPT ![r] = IdleWork]
        /\ given' = given \cup {[id |-> work[r].id, path |-> work[r].path]}
        /\ UNCHANGED <<procs, changes, kills>>
    BY DEF WriteFile
  <1>2. RegistryTypeOK
    BY DEF RegistryInv
  <1>3. r \in procs /\ Sound(work[r].reg) /\ Denotes(work[r].reg, work[r])
    BY <1>1 DEF RegistryInv, WorkSound
  <1>4. /\ work'[r].pc = "idle" /\ \A s \in Processes : s # r => work'[s] = work[s]
    BY <1>1, <1>2 DEF RegistryTypeOK, IdleWork
  <1>5. RegistryTypeOK'
    <2>1. IdleWork \in [pc : {"idle", "truncate", "write"}, path : Paths \cup {NoModel},
                        id : 0 .. Cardinality(Paths), reg : Registries]
      BY EmptyIsSound, PathsCounted DEF IdleWork, Sound
    <2>2. work' \in [Processes -> [pc : {"idle", "truncate", "write"}, path : Paths \cup {NoModel},
                                   id : 0 .. Cardinality(Paths), reg : Registries]]
      BY <1>1, <1>2, <2>1 DEF RegistryTypeOK
    <2>3. work[r].id \in 1 .. Cardinality(Paths) /\ work[r].path \in Paths
      BY <1>3, RegistryFields, PathsCounted DEF Sound, Denotes
    <2>4. given' \subseteq [id : 1 .. Cardinality(Paths), path : Paths]
      BY <1>1, <1>2, <2>3 DEF RegistryTypeOK
    <2> QED BY <1>1, <1>2, <1>3, <2>2, <2>4 DEF RegistryTypeOK, Sound
  <1>6. WorkSound'
    <2>1. \A s \in Processes : work'[s].pc # "idle" => work[s].pc # "idle" /\ work'[s] = work[s]
      BY <1>1, <1>4
    <2> QED BY <1>1, <2>1 DEF RegistryInv, WorkSound, Sound, Denotes
  <1>7. AnswersKept'
    <2> SUFFICES ASSUME Alone PROVE AnswersKept'
      BY <1>1 DEF AnswersKept, Alone
    <2>1. \A g \in given' : Denotes(work[r].reg, g)
      BY <1>1, <1>3 DEF RegistryInv, AnswersKept, Denotes
    <2>2. \A s \in Processes : work'[s].pc = "idle"
      BY <1>1, <1>3, <1>4, OneAtWork
    <2>3. file' # Truncated
      <3>1. work[r].reg.active \in 0 .. Cardinality(Paths)
        BY <1>3, RegistryFields DEF Sound
      <3> QED BY <1>1, <3>1, RegistryAssumption, PathsCounted DEF Truncated
    <2> QED BY <1>1, <2>1, <2>2, <2>3 DEF AnswersKept, Denotes
  <1> QED BY <1>1, <1>3, <1>5, <1>6, <1>7 DEF RegistryInv, Sound

(* A process killed at work leaves the file as it stands.                   *)
LEMMA KillStep == ASSUME RegistryInv, NEW r \in Processes, Kill(r) PROVE RegistryInv'
  <1>1. /\ kills < MaxKills /\ work' = [work EXCEPT ![r] = IdleWork] /\ kills' = kills + 1
        /\ UNCHANGED <<procs, file, changes, given>>
    BY DEF Kill
  <1>2. RegistryTypeOK /\ kills \in Nat
    BY DEF RegistryInv, RegistryTypeOK
  <1>3. /\ work'[r].pc = "idle" /\ \A s \in Processes : s # r => work'[s] = work[s]
    BY <1>1, <1>2 DEF RegistryTypeOK, IdleWork
  <1>4. RegistryTypeOK'
    <2>1. IdleWork \in [pc : {"idle", "truncate", "write"}, path : Paths \cup {NoModel},
                        id : 0 .. Cardinality(Paths), reg : Registries]
      BY EmptyIsSound, PathsCounted DEF IdleWork, Sound
    <2>2. work' \in [Processes -> [pc : {"idle", "truncate", "write"}, path : Paths \cup {NoModel},
                                   id : 0 .. Cardinality(Paths), reg : Registries]]
      BY <1>1, <1>2, <2>1 DEF RegistryTypeOK
    <2>3. kills' \in 0 .. MaxKills
      BY <1>1, <1>2, RegistryAssumption
    <2> QED BY <1>1, <1>2, <2>2, <2>3 DEF RegistryTypeOK
  <1>5. WorkSound'
    <2>1. \A s \in Processes : work'[s].pc # "idle" => work[s].pc # "idle" /\ work'[s] = work[s]
      BY <1>1, <1>3
    <2> QED BY <1>1, <2>1 DEF RegistryInv, WorkSound, Sound, Denotes
  <1>6. ~Alone'
    BY <1>1, <1>2 DEF Alone
  <1> QED BY <1>1, <1>4, <1>5, <1>6 DEF RegistryInv, Sound, AnswersKept

(* RegistryKept: the file holds a registry or is one that was cut off, and  *)
(* the answers a lone process gave stay true, for any paths and processes.  *)
THEOREM RegistryIsKept == RegistrySpec => []RegistryKept
  <1>1. RegistryInit => RegistryInv
    <2> SUFFICES ASSUME RegistryInit PROVE RegistryInv
      OBVIOUS
    <2>1. IdleWork \in [pc : {"idle", "truncate", "write"}, path : Paths \cup {NoModel},
                        id : 0 .. Cardinality(Paths), reg : Registries] /\ IdleWork.pc = "idle"
      BY EmptyIsSound, PathsCounted DEF IdleWork, Sound
    <2>2. Sound(file) /\ file # Truncated
      <3>1. 0 # NoModel
        BY RegistryAssumption
      <3> QED BY <3>1, EmptyIsSound DEF RegistryInit, EmptyRegistry, Truncated
    <2>3. RegistryTypeOK
      BY <2>1, <2>2, RegistryAssumption DEF RegistryInit, RegistryTypeOK, Sound
    <2>4. WorkSound /\ AnswersKept
      BY <2>1, <2>2 DEF RegistryInit, WorkSound, AnswersKept
    <2> QED BY <2>2, <2>3, <2>4 DEF RegistryInv
  <1>2. RegistryInv /\ [RegistryNext]_registryVars => RegistryInv'
    <2> SUFFICES ASSUME RegistryInv, [RegistryNext]_registryVars PROVE RegistryInv'
      OBVIOUS
    <2>1. CASE UNCHANGED registryVars
      <3>1. UNCHANGED <<procs, file, work, changes, kills, given>>
        BY <2>1 DEF registryVars
      <3>2. RegistryTypeOK' /\ WorkSound' /\ AnswersKept'
        BY <3>1 DEF RegistryInv, RegistryTypeOK, WorkSound, AnswersKept, Alone, Sound, Denotes
      <3> QED BY <3>1, <3>2 DEF RegistryInv, Sound
    <2>2. CASE RegistryNext
      <3>1. PICK r \in Processes : Register(r) \/ SetActive(r) \/ TruncateFile(r) \/ WriteFile(r) \/ Kill(r)
        BY <2>2 DEF RegistryNext
      <3> QED BY <3>1, RegisterStep, SetActiveStep, TruncateStep, WriteStep, KillStep
    <2> QED BY <2>1, <2>2
  <1>3. RegistryInv => RegistryKept
    BY DEF RegistryInv, RegistryKept, RegistryConsistent, IdsAreStable, Sound, AnswersKept, Denotes
  <1> QED BY <1>1, <1>2, <1>3, PTL DEF RegistrySpec

-----------------------------------------------------------------------------
LogCalls == [pc : {"idle", "postgres", "sqlite", "exists", "insert", "commit"}, e : Entries, rows : SUBSET Entries]
Appending(t) == logCall[t].pc \in {"postgres", "sqlite"}
Migrating(t) == logCall[t].pc \in {"exists", "insert", "commit"}

(* The types, the tables holding any number of rows.                        *)
LogTyped ==
  /\ logShadow \in BOOLEAN /\ logClear \in BOOLEAN /\ client \in BOOLEAN /\ blind \in BOOLEAN
  /\ pg \in [Entries -> Nat] /\ lite \in [Entries -> Nat]
  /\ logLock \in LogThreads \cup {NoEntry} /\ logCall \in [LogThreads -> LogCalls]
  /\ logged \subseteq Entries /\ entries \in Entries
  /\ pgFaults \in 0 .. MaxPgFaults /\ boots \in 0 .. MaxBoots /\ logMigrations \in Nat

(* A call is about an entry that exists.                                    *)
CallsKnown == \A t \in LogThreads : logCall[t].pc # "idle" => boots > 0 /\ logCall[t].e <= entries

(* The lock is held by the migration, which has a connection; the rows it   *)
(* lists stay in SQLite.                                                    *)
MigrationAlone == \A t \in LogThreads : Migrating(t) <=> logLock = t
MigrationHolds ==
  \A t \in LogThreads : Migrating(t) => client /\ logMigrations > 0 /\ \A r \in logCall[t].rows : lite[r] > 0

(* The rows a migration is past and still lists, those it will delete, are  *)
(* in Postgres.                                                             *)
RowsCopied ==
  \A t \in LogThreads :
    /\ logCall[t].pc \in {"exists", "insert"} =>
         /\ logCall[t].e \in logCall[t].rows
         /\ \A r \in logCall[t].rows : r < logCall[t].e => pg[r] > 0
    /\ logCall[t].pc = "commit" => \A r \in logCall[t].rows : pg[r] > 0

AppendsApart ==
  \A t, u \in LogThreads : t # u /\ Appending(t) /\ Appending(u) => logCall[t].e # logCall[u].e

(* How many rows the tables may come to hold of an entry, and room for      *)
(* those that calls under way add.                                          *)
Repeats == IF blind THEN pgFaults ELSE 0
PgBound(e) == 1 + (IF e = 0 THEN boots + pgFaults ELSE Repeats)
LiteBound(e) == IF e = 0 THEN boots ELSE 1
PgRoom ==
  \A e \in Entries :
    /\ pg[e] <= PgBound(e)
    /\ \A t \in LogThreads :
         /\ logCall[t].pc \in {"postgres", "insert"} /\ logCall[t].e = e => pg[e] + 1 <= PgBound(e)
         /\ \A u \in LogThreads :
              logCall[t].pc = "postgres" /\ logCall[t].e = e /\ logCall[u].pc = "insert" /\ logCall[u].e = e =>
                pg[e] + 2 <= PgBound(e)
LiteRoom ==
  \A e \in Entries :
    lite[e] <= LiteBound(e) /\ \A t \in LogThreads : Appending(t) /\ logCall[t].e = e => lite[e] + 1 <= LiteBound(e)

(* The tables hold entries that exist, and every logged one.                *)
RowsKnown == \A e \in Entries : pg[e] > 0 \/ lite[e] > 0 => e <= entries
LoggedKept == \A e \in logged : e <= entries /\ (pg[e] > 0 \/ lite[e] > 0)
ShadowKept == logShadow /\ (logClear => logMigrations = 0) => \A e \in logged : lite[e] > 0

(* The inductive invariant behind ActivityLogKept.                          *)
LogInv ==
  /\ LogTyped /\ CallsKnown /\ MigrationAlone /\ MigrationHolds /\ RowsCopied /\ AppendsApart
  /\ PgRoom /\ LiteRoom /\ RowsKnown /\ LoggedKept /\ ShadowKept

(* One call moves.                                                          *)
Moves(t, c) == c \in LogCalls /\ logCall' = [logCall EXCEPT ![t] = c]

(* The bounds are numbers.                                                  *)
LEMMA LogNumbers == MaxEntries \in Nat /\ MaxPgFaults \in Nat /\ MaxBoots \in Nat /\ Entries \subseteq Nat /\ 0 \in Entries
  BY LogAssumption DEF Entries

(* One call moves and the others stay.                                      *)
LEMMA MovedCall ==
  ASSUME LogTyped, NEW t \in LogThreads, NEW c, Moves(t, c)
  PROVE  logCall' \in [LogThreads -> LogCalls] /\ logCall'[t] = c /\ \A u \in LogThreads : u # t => logCall'[u] = logCall[u]
  BY DEF LogTyped, Moves

(* The fields of a call.                                                    *)
LEMMA CallFields ==
  ASSUME LogTyped, NEW t \in LogThreads
  PROVE  /\ logCall[t] \in LogCalls /\ logCall[t].e \in Entries /\ logCall[t].rows \subseteq Entries
         /\ logCall[t].pc \in {"idle", "postgres", "sqlite", "exists", "insert", "commit"}
         /\ logCall[t] = [pc |-> logCall[t].pc, e |-> logCall[t].e, rows |-> logCall[t].rows]
  BY DEF LogTyped, LogCalls

(* No call is under way.                                                    *)
LEMMA IdleIsCall == IdleLog \in LogCalls /\ IdleLog.pc = "idle"
  BY LogNumbers DEF IdleLog, LogCalls

(* An insert into Postgres adds a row or fails; it then costs a fault.      *)
LEMMA InsertAdds ==
  ASSUME LogTyped, NEW e \in Entries, NEW ok \in BOOLEAN, PgInsert(e, ok)
  PROVE  /\ pg' \in [Entries -> Nat] /\ pg'[e] \in {pg[e], pg[e] + 1} /\ (ok => pg'[e] > 0)
         /\ \A f \in Entries : f # e => pg'[f] = pg[f]
         /\ pgFaults <= pgFaults' /\ pgFaults' \in 0 .. MaxPgFaults
  <1>1. pg' = pg \/ pg' = [pg EXCEPT ![e] = @ + 1]
    BY DEF PgInsert, Plus
  <1>2. ok => pg' = [pg EXCEPT ![e] = @ + 1]
    BY DEF PgInsert, Plus
  <1>3. pg[e] \in Nat /\ pg \in [Entries -> Nat]
    BY DEF LogTyped
  <1>4. pgFaults <= pgFaults' /\ pgFaults' \in 0 .. MaxPgFaults
    BY LogNumbers DEF LogTyped, PgInsert, PgFails
  <1> QED BY <1>1, <1>2, <1>3, <1>4

(* Sums grow with their terms.                                              *)
LEMMA SumsGrow ==
  ASSUME NEW k \in Nat, NEW l \in Nat, NEW m \in Nat, NEW n \in Nat, k <= m, l <= n
  PROVE  k + l \in Nat /\ m + n \in Nat /\ k + l <= m + n
  OBVIOUS

(* And so does one more.                                                    *)
LEMMA OneMoreGrows ==
  ASSUME NEW x, NEW y, NEW m \in Nat, NEW n \in Nat, m <= n, x = 1 + m, y = 1 + n
  PROVE  x \in Nat /\ y \in Nat /\ y >= 1 /\ x <= y
  OBVIOUS

(* The bounds are numbers, and grow with the counters.                      *)
LEMMA BoundsGrow ==
  ASSUME LogTyped, LogTyped', boots <= boots', pgFaults <= pgFaults', blind => blind', NEW e \in Entries
  PROVE  /\ PgBound(e) \in Nat /\ PgBound(e)' \in Nat /\ PgBound(e)' >= 1
         /\ LiteBound(e) \in Nat /\ LiteBound(e)' \in Nat
         /\ PgBound(e) <= PgBound(e)' /\ LiteBound(e) <= LiteBound(e)'
  <1>1. /\ boots \in Nat /\ boots' \in Nat /\ pgFaults \in Nat /\ pgFaults' \in Nat
        /\ boots <= boots' /\ pgFaults <= pgFaults'
    BY LogNumbers DEF LogTyped
  <1>2. Repeats \in Nat /\ Repeats' \in Nat /\ Repeats <= Repeats'
    BY <1>1 DEF Repeats, LogTyped
  <1> HIDE DEF Repeats
  <1>4. CASE e = 0
    <2>1. PgBound(e) = 1 + (boots + pgFaults) /\ PgBound(e)' = 1 + (boots' + pgFaults')
      BY <1>4 DEF PgBound
    <2>2. LiteBound(e) = boots /\ LiteBound(e)' = boots'
      BY <1>4 DEF LiteBound
    <2>3. boots + pgFaults \in Nat /\ boots' + pgFaults' \in Nat /\ boots + pgFaults <= boots' + pgFaults'
      BY <1>1, SumsGrow, Zenon
    <2>4. PgBound(e) \in Nat /\ PgBound(e)' \in Nat /\ PgBound(e)' >= 1 /\ PgBound(e) <= PgBound(e)'
      BY <2>1, <2>3, OneMoreGrows, Zenon
    <2> QED BY <1>1, <2>2, <2>4
  <1>5. CASE e # 0
    <2>1. PgBound(e) = 1 + Repeats /\ PgBound(e)' = 1 + Repeats'
      BY <1>5 DEF PgBound
    <2>2. LiteBound(e) = 1 /\ LiteBound(e)' = 1
      BY <1>5 DEF LiteBound
    <2>4. PgBound(e) \in Nat /\ PgBound(e)' \in Nat /\ PgBound(e)' >= 1 /\ PgBound(e) <= PgBound(e)'
      BY <1>2, <2>1, OneMoreGrows, Zenon
    <2> QED BY <2>2, <2>4
  <1> QED BY <1>4, <1>5

(* An append begins: the entry is new, and the tables have room for it.     *)
LEMMA AppendStep ==
  ASSUME LogInv, NEW t \in LogThreads, NEW e \in Entries,
         Moves(t, [pc |-> "postgres", e |-> e, rows |-> {}]),
         UNCHANGED <<logShadow, logClear, pg, lite, logLock, logMigrations, logged, blind>>,
         pgFaults <= pgFaults', pgFaults' \in 0 .. MaxPgFaults,
         logCall[t].pc = "idle", client' \in BOOLEAN, entries' \in Entries, boots' \in 1 .. MaxBoots, entries <= entries', e <= entries',
         \/ e = entries + 1 /\ boots' = boots /\ client' = client
         \/ e = 0 /\ boots' = boots + 1 /\ \A u \in LogThreads : logCall[u].pc = "idle"
  PROVE  LogInv'
  <1> DEFINE c == [pc |-> "postgres", e |-> e, rows |-> {}]
  <1>1. /\ logCall' \in [LogThreads -> LogCalls] /\ logCall'[t] = c
        /\ \A u \in LogThreads : u # t => logCall'[u] = logCall[u]
    BY MovedCall DEF LogInv
  <1>2. LogTyped
    BY DEF LogInv
  <1>3. /\ boots \in Nat /\ boots' \in Nat /\ entries \in Nat /\ boots <= boots' /\ entries' \in Nat
        /\ pgFaults \in Nat /\ pgFaults' \in Nat
    BY <1>2, LogNumbers DEF LogTyped
  <1>4. LogTyped'
    <2>1. boots' \in 0 .. MaxBoots
      BY <1>3
    <2> QED BY <1>1, <1>2, <2>1 DEF LogTyped
  <1>5. CallsKnown'
    <2> SUFFICES ASSUME NEW u \in LogThreads, logCall'[u].pc # "idle" PROVE boots' > 0 /\ logCall'[u].e <= entries'
      BY DEF CallsKnown
    <2>1. CASE u = t
      BY <1>1, <1>3, <2>1
    <2>2. CASE u # t
      <3>1. logCall[u].e \in Nat /\ logCall[u].e <= entries /\ boots > 0 /\ logCall'[u].e = logCall[u].e
        BY <1>1, <1>2, <2>2, CallFields, LogNumbers DEF LogInv, CallsKnown
      <3> QED BY <1>3, <3>1
    <2> QED BY <2>1, <2>2
  <1>6. MigrationAlone'
    BY <1>1 DEF LogInv, MigrationAlone, Migrating
  <1>7. MigrationHolds'
    BY <1>1 DEF LogInv, MigrationHolds, Migrating
  <1>8. RowsCopied'
    BY <1>1 DEF LogInv, RowsCopied
  <1>9. \A u \in LogThreads : u # t => ~(Appending(u) /\ logCall[u].e = e)
    <2> TAKE u \in LogThreads
    <2>1. logCall[u].pc # "idle" => logCall[u].e <= entries /\ logCall[u].e \in Nat
      BY <1>2, CallFields, LogNumbers DEF LogInv, CallsKnown
    <2> QED BY <1>3, <2>1 DEF Appending
  <1>10. AppendsApart'
    <2> SUFFICES ASSUME NEW u \in LogThreads, NEW v \in LogThreads, u # v, Appending(u)', Appending(v)'
                 PROVE  logCall'[u].e # logCall'[v].e
      BY DEF AppendsApart, Appending
    <2>1. CASE u = t
      BY <1>1, <1>9, <2>1 DEF Appending
    <2>2. CASE v = t
      BY <1>1, <1>9, <2>2 DEF Appending
    <2>3. CASE u # t /\ v # t
      BY <1>1, <2>3 DEF LogInv, AppendsApart, Appending
    <2> QED BY <2>1, <2>2, <2>3
  <1>11. \A f \in Entries : pg[f] \in Nat /\ lite[f] \in Nat
    BY <1>2 DEF LogTyped
  <1>12. e # 0 => pg[e] = 0 /\ lite[e] = 0 /\ \A u \in LogThreads : ~(logCall[u].pc # "idle" /\ logCall[u].e = e)
    <2> SUFFICES ASSUME e # 0
                 PROVE  pg[e] = 0 /\ lite[e] = 0 /\ \A u \in LogThreads : ~(logCall[u].pc # "idle" /\ logCall[u].e = e)
      OBVIOUS
    <2>1. e = entries + 1
      OBVIOUS
    <2>2. ~(e <= entries)
      BY <1>3, <2>1
    <2> QED BY <1>11, <2>2 DEF LogInv, RowsKnown, CallsKnown
  <1>13. ASSUME NEW f \in Entries
         PROVE  /\ PgBound(f) \in Nat /\ PgBound(f)' \in Nat /\ LiteBound(f) \in Nat /\ LiteBound(f)' \in Nat
                /\ PgBound(f) <= PgBound(f)' /\ LiteBound(f) <= LiteBound(f)'
    BY <1>2, <1>3, <1>4, BoundsGrow
  <1>14. /\ e = 0 => PgBound(e)' >= PgBound(e) + 1 /\ LiteBound(e)' = LiteBound(e) + 1
         /\ e # 0 => PgBound(e)' >= 1 /\ LiteBound(e)' >= 1
    <2>1. CASE e = 0
      <3>1. boots' = boots + 1
        BY <1>3, <2>1
      <3>2. PgBound(e) = 1 + (boots + pgFaults) /\ PgBound(e)' = 1 + (boots' + pgFaults')
        BY <2>1 DEF PgBound
      <3>3. LiteBound(e) = boots /\ LiteBound(e)' = boots'
        BY <2>1 DEF LiteBound
      <3> QED BY <1>3, <2>1, <3>1, <3>2, <3>3
    <2>2. CASE e # 0
      <3>1. LiteBound(e)' = 1
        BY <2>2 DEF LiteBound
      <3>2. PgBound(e)' >= 1
        BY <1>2, <1>3, <1>4, BoundsGrow
      <3> QED BY <2>2, <3>1, <3>2
    <2> QED BY <2>1, <2>2
  <1>15. PgRoom'
    <2> SUFFICES ASSUME NEW f \in Entries
                 PROVE  /\ pg[f] <= PgBound(f)'
                        /\ \A u \in LogThreads :
                             /\ logCall'[u].pc \in {"postgres", "insert"} /\ logCall'[u].e = f => pg[f] + 1 <= PgBound(f)'
                             /\ \A v \in LogThreads :
                                  logCall'[u].pc = "postgres" /\ logCall'[u].e = f /\ logCall'[v].pc = "insert"
                                    /\ logCall'[v].e = f => pg[f] + 2 <= PgBound(f)'
      BY DEF PgRoom, PgBound
    <2>0. pg[f] <= PgBound(f)
      BY DEF LogInv, PgRoom
    <2>1. pg[f] <= PgBound(f)'
      BY <1>11, <1>13, <2>0
    <2>2. ASSUME NEW u \in LogThreads, logCall'[u].pc \in {"postgres", "insert"}, logCall'[u].e = f
          PROVE  pg[f] + 1 <= PgBound(f)'
      <3>1. CASE u = t
        <4>1. f = e
          BY <1>1, <2>2, <3>1
        <4> QED BY <1>11, <1>12, <1>13, <1>14, <2>0, <4>1
      <3>2. CASE u # t
        <4>1. pg[f] + 1 <= PgBound(f)
          BY <1>1, <2>2, <3>2 DEF LogInv, PgRoom
        <4> QED BY <1>11, <1>13, <4>1
      <3> QED BY <3>1, <3>2
    <2>3. ASSUME NEW u \in LogThreads, NEW v \in LogThreads, logCall'[u].pc = "postgres", logCall'[u].e = f,
                 logCall'[v].pc = "insert", logCall'[v].e = f
          PROVE  pg[f] + 2 <= PgBound(f)'
      <3>0. v # t /\ logCall[v].pc = "insert" /\ logCall[v].e = f
        BY <1>1, <2>3
      <3>1. CASE u = t
        <4>1. f = e /\ e = 0
          BY <1>1, <1>12, <2>3, <3>0, <3>1
        <4>2. pg[f] + 1 <= PgBound(f)
          BY <3>0 DEF LogInv, PgRoom
        <4> QED BY <1>11, <1>13, <1>14, <4>1, <4>2
      <3>2. CASE u # t
        <4>1. pg[f] + 2 <= PgBound(f)
          BY <1>1, <2>3, <3>0, <3>2 DEF LogInv, PgRoom
        <4> QED BY <1>11, <1>13, <4>1
      <3> QED BY <3>1, <3>2
    <2> QED BY <2>1, <2>2, <2>3
  <1>16. LiteRoom'
    <2> SUFFICES ASSUME NEW f \in Entries
                 PROVE  /\ lite[f] <= LiteBound(f)'
                        /\ \A u \in LogThreads :
                             logCall'[u].pc \in {"postgres", "sqlite"} /\ logCall'[u].e = f => lite[f] + 1 <= LiteBound(f)'
      BY DEF LiteRoom, LiteBound, Appending
    <2>0. lite[f] <= LiteBound(f)
      BY DEF LogInv, LiteRoom
    <2>1. lite[f] <= LiteBound(f)'
      BY <1>11, <1>13, <2>0
    <2>2. ASSUME NEW u \in LogThreads, logCall'[u].pc \in {"postgres", "sqlite"}, logCall'[u].e = f
          PROVE  lite[f] + 1 <= LiteBound(f)'
      <3>1. CASE u = t
        <4>1. f = e
          BY <1>1, <2>2, <3>1
        <4> QED BY <1>11, <1>12, <1>13, <1>14, <2>0, <4>1
      <3>2. CASE u # t
        <4>1. lite[f] + 1 <= LiteBound(f)
          BY <1>1, <2>2, <3>2 DEF LogInv, LiteRoom, Appending
        <4> QED BY <1>11, <1>13, <4>1
      <3> QED BY <3>1, <3>2
    <2> QED BY <2>1, <2>2
  <1>17. RowsKnown' /\ LoggedKept' /\ ShadowKept'
    <2>1. \A f \in Entries : f <= entries => f <= entries'
      <3> SUFFICES ASSUME NEW f \in Entries, f <= entries PROVE f <= entries'
        OBVIOUS
      <3>1. f \in Nat /\ entries \in Nat /\ entries' \in Nat /\ entries <= entries'
        BY <1>2, <1>3, LogNumbers DEF LogTyped
      <3> QED BY <3>1
    <2>2. logged \subseteq Entries
      BY <1>2 DEF LogTyped
    <2> QED BY <2>1, <2>2 DEF LogInv, RowsKnown, LoggedKept, ShadowKept
  <1> QED BY <1>4, <1>5, <1>6, <1>7, <1>8, <1>10, <1>15, <1>16, <1>17 DEF LogInv

(* Calls that end, or stay as they are: crashes, and steps of nobody.       *)
LEMMA EndStep ==
  ASSUME LogInv, \A u \in LogThreads : logCall'[u] = logCall[u] \/ logCall'[u] = IdleLog,
         logCall' \in [LogThreads -> LogCalls],
         UNCHANGED <<logShadow, logClear, pg, lite, client, entries, pgFaults, logMigrations, boots, logged, blind>>,
         \/ logLock' = logLock /\ (\A u \in LogThreads : logCall'[u] = logCall[u])
         \/ logLock' = NoEntry /\ (\A u \in LogThreads : logCall'[u] = IdleLog)
  PROVE  LogInv'
  <1>1. LogTyped /\ IdleLog.pc = "idle"
    BY IdleIsCall DEF LogInv
  <1>2. LogTyped'
    BY <1>1 DEF LogTyped
  <1>3. CallsKnown' /\ RowsKnown' /\ LoggedKept' /\ ShadowKept'
    BY <1>1 DEF LogInv, CallsKnown, RowsKnown, LoggedKept, ShadowKept
  <1>4. MigrationAlone'
    <2>1. CASE logLock' = logLock /\ (\A u \in LogThreads : logCall'[u] = logCall[u])
      BY <2>1 DEF LogInv, MigrationAlone, Migrating
    <2>2. CASE logLock' = NoEntry /\ (\A u \in LogThreads : logCall'[u] = IdleLog)
      BY <1>1, <2>2, LogAssumption DEF MigrationAlone, Migrating
    <2> QED BY <2>1, <2>2
  <1>5. MigrationHolds' /\ RowsCopied' /\ AppendsApart'
    BY <1>1 DEF LogInv, MigrationHolds, RowsCopied, AppendsApart, Migrating, Appending
  <1>6. PgRoom'
    BY <1>1 DEF LogInv, PgRoom, PgBound, Repeats
  <1>7. LiteRoom'
    BY <1>1 DEF LogInv, LiteRoom, LiteBound, Appending
  <1> QED BY <1>2, <1>3, <1>4, <1>5, <1>6, <1>7 DEF LogInv

(* A step of one call that leaves the tables alone, begins no append and no *)
(* insert.                                                                  *)
LEMMA RoomKept ==
  ASSUME LogInv, NEW t \in LogThreads, NEW c, Moves(t, c), c.pc \notin {"postgres", "insert"},
         Appending(t)' => (Appending(t) /\ c.e = logCall[t].e),
         LogTyped', UNCHANGED <<pg, boots>>, pgFaults <= pgFaults', blind => blind',
         \A f \in Entries : lite'[f] <= lite[f]
  PROVE  PgRoom' /\ LiteRoom' /\ AppendsApart'
  <1>1. LogTyped /\ logCall'[t] = c /\ \A u \in LogThreads : u # t => logCall'[u] = logCall[u]
    BY MovedCall DEF LogInv
  <1>2. boots <= boots' /\ pgFaults <= pgFaults' /\ (blind => blind')
    BY <1>1 DEF LogTyped
  <1>3. \A f \in Entries : pg[f] \in Nat /\ lite[f] \in Nat /\ lite'[f] \in Nat
    BY <1>1 DEF LogTyped
  <1>4. PgRoom'
    <2> SUFFICES ASSUME NEW f \in Entries
                 PROVE  /\ pg'[f] <= PgBound(f)'
                        /\ \A u \in LogThreads :
                             /\ logCall'[u].pc \in {"postgres", "insert"} /\ logCall'[u].e = f => pg'[f] + 1 <= PgBound(f)'
                             /\ \A v \in LogThreads :
                                  logCall'[u].pc = "postgres" /\ logCall'[u].e = f /\ logCall'[v].pc = "insert"
                                    /\ logCall'[v].e = f => pg'[f] + 2 <= PgBound(f)'
      BY DEF PgRoom, PgBound, Repeats
    <2>1. PgBound(f) \in Nat /\ PgBound(f)' \in Nat /\ PgBound(f) <= PgBound(f)'
      BY <1>1, <1>2, BoundsGrow
    <2>2. \A u \in LogThreads : logCall'[u].pc \in {"postgres", "insert"} => logCall'[u] = logCall[u]
      BY <1>1
    <2>3. /\ pg[f] <= PgBound(f)
          /\ \A u \in LogThreads :
               /\ logCall'[u].pc \in {"postgres", "insert"} /\ logCall'[u].e = f => pg[f] + 1 <= PgBound(f)
               /\ \A v \in LogThreads :
                    logCall'[u].pc = "postgres" /\ logCall'[u].e = f /\ logCall'[v].pc = "insert"
                      /\ logCall'[v].e = f => pg[f] + 2 <= PgBound(f)
      BY <2>2 DEF LogInv, PgRoom
    <2>4. \A n \in Nat : n <= PgBound(f) => n <= PgBound(f)'
      BY <2>1
    <2>5. pg[f] \in Nat /\ pg[f] + 1 \in Nat /\ pg[f] + 2 \in Nat
      BY <1>3
    <2> QED BY <2>3, <2>4, <2>5
  <1>5. \A u \in LogThreads : Appending(u)' => Appending(u) /\ logCall'[u].e = logCall[u].e
    BY <1>1 DEF Appending
  <1>6. LiteRoom'
    <2> SUFFICES ASSUME NEW f \in Entries
                 PROVE  /\ lite'[f] <= LiteBound(f)'
                        /\ \A u \in LogThreads : Appending(u)' /\ logCall'[u].e = f => lite'[f] + 1 <= LiteBound(f)'
      BY DEF LiteRoom, LiteBound, Appending
    <2>1. LiteBound(f) \in Nat /\ LiteBound(f)' = LiteBound(f) /\ lite'[f] <= lite[f]
      BY <1>1 DEF LiteBound, LogTyped
    <2>2. lite[f] <= LiteBound(f) /\ \A u \in LogThreads : Appending(u)' /\ logCall'[u].e = f => lite[f] + 1 <= LiteBound(f)
      BY <1>5 DEF LogInv, LiteRoom
    <2> HIDE DEF LiteBound
    <2> QED BY <1>3, <2>1, <2>2
  <1>7. AppendsApart'
    BY <1>5 DEF LogInv, AppendsApart, Appending
  <1> QED BY <1>4, <1>6, <1>7

(* An insert of one call, whose place in Postgres no other call of its kind *)
(* waits for.                                                               *)
LEMMA RowAdded ==
  ASSUME LogInv, NEW t \in LogThreads, NEW c, Moves(t, c), logCall[t].pc \in {"postgres", "insert"},
         c.pc \notin {"postgres", "insert"},
         \A u \in LogThreads : u # t => ~(logCall[u].pc = logCall[t].pc /\ logCall[u].e = logCall[t].e),
         LogTyped', UNCHANGED <<boots, blind>>, pgFaults <= pgFaults',
         pg'[logCall[t].e] \in {pg[logCall[t].e], pg[logCall[t].e] + 1},
         \A f \in Entries : f # logCall[t].e => pg'[f] = pg[f]
  PROVE  PgRoom'
  <1>1. LogTyped /\ logCall'[t] = c /\ \A u \in LogThreads : u # t => logCall'[u] = logCall[u]
    BY MovedCall DEF LogInv
  <1>2. boots <= boots' /\ pgFaults <= pgFaults' /\ (blind => blind')
    BY <1>1 DEF LogTyped
  <1> SUFFICES ASSUME NEW f \in Entries
               PROVE  /\ pg'[f] <= PgBound(f)'
                      /\ \A u \in LogThreads :
                           /\ logCall'[u].pc \in {"postgres", "insert"} /\ logCall'[u].e = f => pg'[f] + 1 <= PgBound(f)'
                           /\ \A v \in LogThreads :
                                logCall'[u].pc = "postgres" /\ logCall'[u].e = f /\ logCall'[v].pc = "insert"
                                  /\ logCall'[v].e = f => pg'[f] + 2 <= PgBound(f)'
    BY DEF PgRoom, PgBound, Repeats
  <1>3. PgBound(f) \in Nat /\ PgBound(f)' \in Nat /\ PgBound(f) <= PgBound(f)'
    BY <1>1, <1>2, BoundsGrow
  <1>4. pg[f] \in Nat /\ pg'[f] \in Nat
    BY <1>1 DEF LogTyped
  <1>5. \A n \in Nat : n <= PgBound(f) => n <= PgBound(f)'
    BY <1>3
  <1>6. \A u \in LogThreads : logCall'[u].pc \in {"postgres", "insert"} => u # t /\ logCall'[u] = logCall[u]
    BY <1>1
  <1>7. CASE f # logCall[t].e
    <2>1. /\ pg[f] <= PgBound(f)
          /\ \A u \in LogThreads :
               /\ logCall'[u].pc \in {"postgres", "insert"} /\ logCall'[u].e = f => pg[f] + 1 <= PgBound(f)
               /\ \A v \in LogThreads :
                    logCall'[u].pc = "postgres" /\ logCall'[u].e = f /\ logCall'[v].pc = "insert"
                      /\ logCall'[v].e = f => pg[f] + 2 <= PgBound(f)
      BY <1>6 DEF LogInv, PgRoom
    <2>2. pg'[f] = pg[f] /\ pg[f] + 1 \in Nat /\ pg[f] + 2 \in Nat
      BY <1>4, <1>7
    <2> QED BY <1>4, <1>5, <2>1, <2>2
  <1>8. CASE f = logCall[t].e
    <2>1. pg[f] + 1 <= PgBound(f)
      BY <1>8 DEF LogInv, PgRoom
    <2>2. pg'[f] = pg[f] \/ pg'[f] = pg[f] + 1
      BY <1>8
    <2>3. pg'[f] <= PgBound(f)
      BY <1>3, <1>4, <2>1, <2>2
    <2>4. ASSUME NEW u \in LogThreads, logCall'[u].pc \in {"postgres", "insert"}, logCall'[u].e = f
          PROVE  pg'[f] + 1 <= PgBound(f)
      <3>1. u # t /\ logCall[u].e = f /\ logCall[u].pc \in {"postgres", "insert"} /\ logCall[u].pc # logCall[t].pc
        BY <1>6, <1>8, <2>4
      <3>2. pg[f] + 2 <= PgBound(f)
        BY <1>8, <3>1 DEF LogInv, PgRoom
      <3> QED BY <1>3, <1>4, <2>2, <3>2
    <2>5. ASSUME NEW u \in LogThreads, NEW v \in LogThreads, logCall'[u].pc = "postgres", logCall'[u].e = f,
                 logCall'[v].pc = "insert", logCall'[v].e = f
          PROVE  FALSE
      BY <1>6, <1>8, <2>5
    <2>6. pg'[f] + 1 \in Nat
      BY <1>4
    <2> QED BY <1>4, <1>5, <2>3, <2>4, <2>5, <2>6
  <1> QED BY <1>7, <1>8

(* append_activity_log: the insert into Postgres, a fault of which leads to *)
(* SQLite.                                                                  *)
LEMMA InsertPostgresStep == ASSUME LogInv, NEW t \in LogThreads, InsertPostgres(t) PROVE LogInv'
  <1> DEFINE e == logCall[t].e
  <1>1. PICK ok \in BOOLEAN :
          /\ PgInsert(e, ok)
          /\ IF AlsoSqlite(ok) THEN LogGoto(t, "sqlite") /\ UNCHANGED logged
             ELSE LogDone(t) /\ logged' = logged \cup {e}
    BY DEF InsertPostgres
  <1>2. /\ logCall[t].pc = "postgres"
        /\ UNCHANGED <<logShadow, logClear, lite, client, logLock, entries, logMigrations, boots, blind>>
    BY DEF InsertPostgres, LogAt
  <1>3. LogTyped /\ logCall[t] \in LogCalls /\ e \in Entries /\ logCall[t].rows \subseteq Entries
    BY CallFields DEF LogInv
  <1>4. PICK c : Moves(t, c) /\ c.pc \in {"sqlite", "idle"} /\ (c.pc = "sqlite" => c.e = e)
                 /\ (c.pc = "sqlite" <=> AlsoSqlite(ok))
    <2>1. CASE AlsoSqlite(ok)
      <3> DEFINE c == [pc |-> "sqlite", e |-> e, rows |-> logCall[t].rows]
      <3>1. c \in LogCalls
        BY <1>3 DEF LogCalls
      <3>2. [logCall[t] EXCEPT !.pc = "sqlite"] = c
        BY <1>3 DEF LogCalls
      <3>3. logCall' = [logCall EXCEPT ![t] = c]
        BY <1>1, <1>3, <2>1, <3>2 DEF LogGoto, LogTyped
      <3>4. Moves(t, c) /\ c.pc = "sqlite" /\ c.e = e
        BY <3>1, <3>3 DEF Moves
      <3> HIDE DEF c
      <3> QED BY <2>1, <3>4
    <2>2. CASE ~AlsoSqlite(ok)
      <3>1. Moves(t, IdleLog) /\ IdleLog.pc = "idle"
        BY <1>1, <2>2, IdleIsCall DEF LogDone, Moves
      <3> QED BY <2>2, <3>1
    <2> QED BY <2>1, <2>2
  <1>5. /\ logCall' \in [LogThreads -> LogCalls] /\ logCall'[t] = c
        /\ \A u \in LogThreads : u # t => logCall'[u] = logCall[u]
    BY <1>3, <1>4, MovedCall
  <1>6. /\ pg' \in [Entries -> Nat] /\ pg'[e] \in {pg[e], pg[e] + 1} /\ (ok => pg'[e] > 0)
        /\ \A f \in Entries : f # e => pg'[f] = pg[f]
        /\ pgFaults <= pgFaults' /\ pgFaults' \in 0 .. MaxPgFaults
    BY <1>1, <1>3, InsertAdds
  <1>7. logged' = logged \/ (logged' = logged \cup {e} /\ ok /\ ~logShadow)
    BY <1>1 DEF AlsoSqlite
  <1>8. LogTyped'
    BY <1>2, <1>3, <1>5, <1>6, <1>7 DEF LogTyped
  <1>9. e <= entries /\ boots > 0
    BY <1>2 DEF LogInv, CallsKnown
  <1>10. \A f \in Entries : pg[f] \in Nat /\ pg'[f] \in Nat /\ (pg[f] > 0 => pg'[f] > 0)
    BY <1>3, <1>6 DEF LogTyped
  <1>11. CallsKnown'
    BY <1>2, <1>4, <1>5, <1>9 DEF LogInv, CallsKnown
  <1>12. MigrationAlone' /\ MigrationHolds'
    BY <1>2, <1>4, <1>5 DEF LogInv, MigrationAlone, MigrationHolds, Migrating
  <1>13. RowsCopied'
    <2> SUFFICES ASSUME NEW u \in LogThreads
                 PROVE  /\ logCall'[u].pc \in {"exists", "insert"} =>
                             /\ logCall'[u].e \in logCall'[u].rows
                             /\ \A r \in logCall'[u].rows : r < logCall'[u].e => pg'[r] > 0
                        /\ logCall'[u].pc = "commit" => \A r \in logCall'[u].rows : pg'[r] > 0
      BY DEF RowsCopied
    <2>1. CASE u = t
      BY <1>4, <1>5, <2>1
    <2>2. CASE u # t
      <3>1. logCall[u].rows \subseteq Entries /\ logCall'[u] = logCall[u]
        BY <1>3, <1>5, <2>2, CallFields
      <3> QED BY <1>10, <3>1 DEF LogInv, RowsCopied
    <2> QED BY <2>1, <2>2
  <1>14. AppendsApart'
    BY <1>2, <1>4, <1>5 DEF LogInv, AppendsApart, Appending
  <1>15. PgRoom'
    <2>1. \A u \in LogThreads : u # t => ~(logCall[u].pc = logCall[t].pc /\ logCall[u].e = logCall[t].e)
      BY <1>2 DEF LogInv, AppendsApart, Appending
    <2>2. c.pc \notin {"postgres", "insert"}
      BY <1>4
    <2> QED BY <1>2, <1>4, <1>6, <1>8, <2>1, <2>2, RowAdded
  <1>16. LiteRoom'
    BY <1>2, <1>4, <1>5 DEF LogInv, LiteRoom, LiteBound, Appending
  <1>17. RowsKnown'
    BY <1>2, <1>6, <1>9 DEF LogInv, RowsKnown
  <1>18. LoggedKept'
    <2> SUFFICES ASSUME NEW f \in logged' PROVE f <= entries /\ (pg'[f] > 0 \/ lite[f] > 0)
      BY <1>2 DEF LoggedKept
    <2>1. CASE f \in logged
      BY <1>3, <1>10, <2>1 DEF LogInv, LoggedKept, LogTyped
    <2>2. CASE f \notin logged
      BY <1>6, <1>7, <1>9, <2>2
    <2> QED BY <2>1, <2>2
  <1>19. ShadowKept'
    BY <1>2, <1>7 DEF LogInv, ShadowKept
  <1> QED BY <1>8, <1>11, <1>12, <1>13, <1>14, <1>15, <1>16, <1>17, <1>18, <1>19 DEF LogInv

(* The insert into SQLite, under the lock.                                  *)
LEMMA InsertSqliteStep == ASSUME LogInv, NEW t \in LogThreads, InsertSqlite(t) PROVE LogInv'
  <1> DEFINE e == logCall[t].e
  <1>1. /\ logCall[t].pc = "sqlite" /\ LogFree(t) /\ lite' = Plus(lite, e) /\ LogDone(t) /\ logged' = logged \cup {e}
        /\ UNCHANGED <<logShadow, logClear, pg, client, logLock, entries, pgFaults, logMigrations, boots, blind>>
    BY DEF InsertSqlite, LogAt
  <1>2. LogTyped /\ logCall[t] \in LogCalls /\ e \in Entries
    BY CallFields DEF LogInv
  <1>3. Moves(t, IdleLog) /\ IdleLog.pc = "idle"
    BY <1>1, IdleIsCall DEF LogDone, Moves
  <1>4. /\ logCall' \in [LogThreads -> LogCalls] /\ logCall'[t] = IdleLog
        /\ \A u \in LogThreads : u # t => logCall'[u] = logCall[u]
    BY <1>2, <1>3, MovedCall
  <1>5. /\ lite' \in [Entries -> Nat] /\ lite'[e] = lite[e] + 1 /\ lite[e] \in Nat
        /\ \A f \in Entries : f # e => lite'[f] = lite[f]
    BY <1>1, <1>2 DEF LogTyped, Plus
  <1>6. LogTyped'
    BY <1>1, <1>2, <1>4, <1>5 DEF LogTyped
  <1>7. e <= entries
    BY <1>1 DEF LogInv, CallsKnown
  <1>8. \A f \in Entries : lite[f] \in Nat /\ (lite[f] > 0 => lite'[f] > 0) /\ lite'[e] > 0
    BY <1>2, <1>5 DEF LogTyped
  <1>9. CallsKnown' /\ MigrationAlone' /\ RowsCopied' /\ AppendsApart'
    BY <1>1, <1>3, <1>4 DEF LogInv, CallsKnown, MigrationAlone, Migrating, RowsCopied, AppendsApart, Appending
  <1>10. MigrationHolds'
    <2> SUFFICES ASSUME NEW u \in LogThreads, Migrating(u)'
                 PROVE  client /\ logMigrations > 0 /\ \A r \in logCall'[u].rows : lite'[r] > 0
      BY <1>1 DEF MigrationHolds, Migrating
    <2>1. u # t /\ logCall'[u] = logCall[u] /\ Migrating(u) /\ logCall[u].rows \subseteq Entries
      BY <1>2, <1>3, <1>4, CallFields DEF Migrating
    <2> QED BY <1>8, <2>1 DEF LogInv, MigrationHolds
  <1>11. PgRoom'
    BY <1>1, <1>3, <1>4 DEF LogInv, PgRoom, PgBound, Repeats
  <1>12. LiteRoom'
    <2> SUFFICES ASSUME NEW f \in Entries
                 PROVE  /\ lite'[f] <= LiteBound(f)
                        /\ \A u \in LogThreads : Appending(u)' /\ logCall'[u].e = f => lite'[f] + 1 <= LiteBound(f)
      BY <1>1 DEF LiteRoom, LiteBound, Appending
    <2>1. \A u \in LogThreads : Appending(u)' => u # t /\ Appending(u) /\ logCall'[u] = logCall[u]
      BY <1>3, <1>4 DEF Appending
    <2>2. CASE f = e
      <3>1. lite[f] + 1 <= LiteBound(f)
        BY <1>1, <2>2 DEF LogInv, LiteRoom, Appending
      <3>2. \A u \in LogThreads : ~(Appending(u)' /\ logCall'[u].e = f)
        BY <1>1, <2>1, <2>2 DEF LogInv, AppendsApart, Appending
      <3> QED BY <1>5, <2>2, <3>1, <3>2
    <2>3. CASE f # e
      BY <1>5, <2>1, <2>3 DEF LogInv, LiteRoom
    <2> QED BY <2>2, <2>3
  <1>13. RowsKnown'
    BY <1>1, <1>5, <1>7 DEF LogInv, RowsKnown
  <1>14. LoggedKept' /\ ShadowKept'
    <2>1. logged \subseteq Entries
      BY <1>2 DEF LogTyped
    <2>2. \A f \in logged' : f \in Entries /\ (f \in logged \/ f = e)
      BY <1>1, <1>2, <2>1
    <2>3. LoggedKept'
      BY <1>1, <1>7, <1>8, <2>2 DEF LogInv, LoggedKept
    <2>4. ShadowKept'
      BY <1>1, <1>8, <2>2 DEF LogInv, ShadowKept
    <2> QED BY <2>3, <2>4
  <1> QED BY <1>6, <1>9, <1>10, <1>11, <1>12, <1>13, <1>14 DEF LogInv

(* What RowsCopied says of one call.                                        *)
CallCopied(c, rows) ==
  /\ c.pc \in {"exists", "insert"} => c.e \in c.rows /\ \A r \in c.rows : r < c.e => rows[r] > 0
  /\ c.pc = "commit" => \A r \in c.rows : rows[r] > 0

(* A migration goes on: it keeps the lock and the rows of SQLite.           *)
LEMMA MigrationMoves ==
  ASSUME LogInv, NEW t \in LogThreads, Migrating(t), NEW c, Moves(t, c), c.pc \in {"exists", "insert", "commit"},
         c.rows \subseteq logCall[t].rows, c.e <= entries, CallCopied(c, pg'),
         UNCHANGED <<logShadow, logClear, lite, client, logLock, entries, logMigrations, boots, logged>>,
         pg' \in [Entries -> Nat], \A f \in Entries : (pg[f] > 0 => pg'[f] > 0) /\ (pg'[f] > 0 => f <= entries),
         pgFaults' \in 0 .. MaxPgFaults, blind' \in BOOLEAN, PgRoom'
  PROVE  LogInv'
  <1>1. LogTyped
    BY DEF LogInv
  <1>2. /\ logCall' \in [LogThreads -> LogCalls] /\ logCall'[t] = c
        /\ \A u \in LogThreads : u # t => logCall'[u] = logCall[u]
    BY <1>1, MovedCall
  <1>3. LogTyped'
    BY <1>1, <1>2 DEF LogTyped
  <1>4. CallsKnown'
    BY <1>2 DEF LogInv, CallsKnown, Migrating
  <1>5. MigrationAlone'
    BY <1>2 DEF LogInv, MigrationAlone, Migrating
  <1>6. MigrationHolds'
    BY <1>2 DEF LogInv, MigrationHolds, Migrating
  <1>7. RowsCopied'
    <2> SUFFICES ASSUME NEW u \in LogThreads
                 PROVE  /\ logCall'[u].pc \in {"exists", "insert"} =>
                             /\ logCall'[u].e \in logCall'[u].rows
                             /\ \A r \in logCall'[u].rows : r < logCall'[u].e => pg'[r] > 0
                        /\ logCall'[u].pc = "commit" => \A r \in logCall'[u].rows : pg'[r] > 0
      BY DEF RowsCopied
    <2>1. CASE u = t
      BY <1>2, <2>1 DEF CallCopied
    <2>2. CASE u # t
      <3>1. logCall[u].rows \subseteq Entries /\ logCall'[u] = logCall[u]
        BY <1>1, <1>2, <2>2, CallFields
      <3> QED BY <3>1 DEF LogInv, RowsCopied
    <2> QED BY <2>1, <2>2
  <1>8. AppendsApart'
    BY <1>2 DEF LogInv, AppendsApart, Appending
  <1>9. LiteRoom'
    BY <1>2 DEF LogInv, LiteRoom, LiteBound, Appending
  <1>10. RowsKnown'
    BY DEF LogInv, RowsKnown
  <1>11. logged \subseteq Entries
    BY <1>1 DEF LogTyped
  <1>12. LoggedKept' /\ ShadowKept'
    BY <1>11 DEF LogInv, LoggedKept, ShadowKept
  <1> QED BY <1>3, <1>4, <1>5, <1>6, <1>7, <1>8, <1>9, <1>10, <1>12 DEF LogInv

(* The row after the one a migration stands at.                             *)
LEMMA NextRowMoves ==
  ASSUME LogInv, NEW t \in LogThreads, logCall[t].pc \in {"exists", "insert"}, NEW kept \in SUBSET {logCall[t].e},
         NextRow(t, kept), \A f \in Entries : pg[f] > 0 => pg'[f] > 0,
         logCall[t].e \in kept \/ pg'[logCall[t].e] > 0
  PROVE  \E c \in LogCalls : /\ Moves(t, c) /\ c.pc \in {"exists", "commit"} /\ c.rows \subseteq logCall[t].rows
                             /\ c.e \in logCall[t].rows /\ CallCopied(c, pg')
  <1> DEFINE e == logCall[t].e
             rows == logCall[t].rows
             rest == {f \in rows : f > e}
             next == IF rest = {} THEN e ELSE CHOOSE f \in rest : \A g \in rest : f <= g
             c == [pc |-> IF rest = {} THEN "commit" ELSE "exists", e |-> next, rows |-> rows \ kept]
  <1>1. LogTyped /\ logCall[t] \in LogCalls /\ e \in Entries /\ rows \subseteq Entries /\ Entries \subseteq Nat
    BY CallFields, LogNumbers DEF LogInv
  <1>2. e \in rows /\ \A r \in rows : r < e => pg[r] > 0
    BY DEF LogInv, RowsCopied
  <1>3. rest # {} => next \in rest /\ \A g \in rest : next <= g
    <2> SUFFICES ASSUME rest # {} PROVE next \in rest /\ \A g \in rest : next <= g
      OBVIOUS
    <2>1. rest \in SUBSET Nat
      BY <1>1
    <2>2. \E f \in rest : \A g \in rest : f <= g
      <3> HIDE DEF rest
      <3> QED BY <2>1, LeastNatural
    <2>3. next = CHOOSE f \in rest : \A g \in rest : f <= g
      OBVIOUS
    <2> HIDE DEF rest, next
    <2> QED BY <2>2, <2>3
  <1>4. next \in rows /\ next \in Entries
    <2>1. rest = {} => next = e
      OBVIOUS
    <2>2. rest \subseteq rows
      OBVIOUS
    <2> HIDE DEF rest, next
    <2> QED BY <1>1, <1>2, <1>3, <2>1, <2>2
  <1>5. logCall' = [logCall EXCEPT ![t] = c]
    BY <1>1 DEF NextRow, LogTyped
  <1>6. /\ rest = {} => c.pc = "commit"
        /\ rest # {} => c.pc = "exists"
        /\ c.e = next /\ c.rows = rows \ kept
    OBVIOUS
  <1>7. c \in LogCalls
    <2> HIDE DEF next
    <2> QED BY <1>1, <1>4 DEF LogCalls
  <1>8. \A r \in rows \ kept : ~(r > e) => pg'[r] > 0
    <2> TAKE r \in rows \ kept
    <2>1. r \in Nat /\ e \in Nat /\ r \in Entries
      BY <1>1
    <2>2. CASE r = e
      BY <2>2
    <2>3. CASE r # e
      BY <1>2, <2>1, <2>3
    <2> QED BY <2>2, <2>3
  <1>9. rest = {} => \A r \in rows : ~(r > e)
    OBVIOUS
  <1>10. rest # {} => e < next /\ \A r \in rows : r < next => ~(r > e)
    <2> SUFFICES ASSUME rest # {} PROVE e < next /\ \A r \in rows : r < next => ~(r > e)
      OBVIOUS
    <2>1. next \in Nat /\ e \in Nat /\ \A r \in rows : r \in Nat
      BY <1>1, <1>4
    <2>2. next > e /\ \A g \in rows : g > e => next <= g
      <3> HIDE DEF next
      <3> QED BY <1>3
    <2> HIDE DEF next, rest
    <2> QED BY <2>1, <2>2
  <1>11. rest # {} => next \in rows \ kept
    <2>1. e \in Nat /\ next \in Nat
      BY <1>1, <1>4
    <2> HIDE DEF next, rest
    <2> QED BY <1>4, <1>10, <2>1
  <1> HIDE DEF c, next, rest
  <1>12. CallCopied(c, pg')
    <2>1. CASE rest = {}
      BY <1>6, <1>8, <1>9, <2>1 DEF CallCopied
    <2>2. CASE rest # {}
      BY <1>6, <1>8, <1>10, <1>11, <2>2 DEF CallCopied
    <2> QED BY <2>1, <2>2
  <1>13. Moves(t, c) /\ c.pc \in {"exists", "commit"} /\ c.rows \subseteq rows /\ c.e \in rows
    BY <1>4, <1>5, <1>6, <1>7 DEF Moves
  <1> QED BY <1>7, <1>12, <1>13

(* A migration that will insert finds room: either the row was not there,   *)
(* or the query cost a fault.                                               *)
LEMMA InsertHasRoom ==
  ASSUME LogInv, NEW t \in LogThreads, logCall[t].pc = "exists", NEW e \in Entries, e = logCall[t].e, LogTyped', boots' = boots,
         \/ ~Present(e) /\ UNCHANGED <<pgFaults, blind>>
         \/ PgFails /\ blind' = TRUE
  PROVE  /\ pgFaults <= pgFaults' /\ (blind => blind') /\ pg[e] + 1 <= PgBound(e)'
         /\ \A u \in LogThreads : logCall[u].pc = "postgres" /\ logCall[u].e = e => pg[e] + 2 <= PgBound(e)'
  <1>1. LogTyped /\ pg[e] \in Nat /\ lite[e] \in Nat
    BY DEF LogInv, LogTyped
  <1>2. client /\ boots > 0 /\ lite[e] > 0
    BY DEF LogInv, MigrationHolds, Migrating, CallsKnown, RowsCopied
  <1>3. pgFaults \in Nat /\ boots \in Nat /\ pgFaults' \in Nat
    BY <1>1, LogNumbers DEF LogTyped
  <1>4. CASE ~Present(e) /\ UNCHANGED <<pgFaults, blind>>
    <2>1. pg[e] = 0
      BY <1>1, <1>4 DEF Present
    <2>2. pgFaults <= pgFaults' /\ (blind => blind')
      BY <1>3, <1>4
    <2>3. boots <= boots'
      BY <1>3
    <2>4. PgBound(e)' >= 1 /\ PgBound(e)' \in Nat
      BY <1>1, <2>2, <2>3, BoundsGrow
    <2>5. CASE e = 0
      <3>1. PgBound(e)' = 1 + (boots' + pgFaults')
        BY <2>5 DEF PgBound
      <3>2. boots' = boots /\ pgFaults' = pgFaults
        BY <1>4
      <3>3. 1 + (boots + pgFaults) >= 2
        BY <1>2, <1>3
      <3>4. PgBound(e)' >= 2
        BY <3>1, <3>2, <3>3
      <3> QED BY <2>1, <2>2, <2>4, <3>4
    <2>6. CASE e # 0
      <3>1. \A u \in LogThreads : ~(logCall[u].pc = "postgres" /\ logCall[u].e = e)
        <4> SUFFICES ASSUME NEW u \in LogThreads, logCall[u].pc = "postgres", logCall[u].e = e PROVE FALSE
          OBVIOUS
        <4>1. lite[e] + 1 <= 1
          BY <1>1, <2>6 DEF LogInv, LiteRoom, LiteBound, Appending
        <4> QED BY <1>1, <1>2, <4>1
      <3> QED BY <2>1, <2>2, <2>4, <3>1
    <2> QED BY <2>5, <2>6
  <1>5. CASE PgFails /\ blind' = TRUE
    <2>1. pgFaults' = pgFaults + 1
      BY <1>2, <1>5 DEF PgFails
    <2>2. pgFaults <= pgFaults' /\ (blind => blind') /\ boots <= boots'
      BY <1>3, <1>5, <2>1
    <2>3. Repeats' = pgFaults' /\ Repeats \in {0, pgFaults}
      BY <1>5 DEF Repeats
    <2>4. PgBound(e) \in Nat /\ PgBound(e)' \in Nat
      BY <1>1, <2>2, BoundsGrow
    <2>5. PgBound(e) + 1 <= PgBound(e)'
      <3>1. CASE e = 0
        <4>1. PgBound(e) = 1 + (boots + pgFaults) /\ PgBound(e)' = 1 + (boots' + pgFaults')
          BY <3>1 DEF PgBound
        <4> QED BY <1>3, <2>1, <4>1
      <3>2. CASE e # 0
        BY <1>3, <2>1, <2>3, <3>2 DEF PgBound
      <3> QED BY <3>1, <3>2
    <2>6. pg[e] <= PgBound(e) /\ \A u \in LogThreads : logCall[u].pc = "postgres" /\ logCall[u].e = e => pg[e] + 1 <= PgBound(e)
      BY <1>1 DEF LogInv, PgRoom
    <2> QED BY <1>1, <2>2, <2>4, <2>5, <2>6
  <1> QED BY <1>4, <1>5

(* A row that is not seen in Postgres will be inserted.                     *)
LEMMA ToInsert ==
  ASSUME LogInv, NEW t \in LogThreads, logCall[t].pc = "exists", LogGoto(t, "insert"),
         UNCHANGED <<logShadow, logClear, pg, lite, client, logLock, entries, logMigrations, boots, logged>>,
         pgFaults' \in 0 .. MaxPgFaults, blind' \in BOOLEAN,
         \/ ~Present(logCall[t].e) /\ UNCHANGED <<pgFaults, blind>>
         \/ PgFails /\ blind' = TRUE
  PROVE  LogInv'
  <1>1. PICK e \in Entries : e = logCall[t].e
    BY CallFields DEF LogInv
  <1> DEFINE rows == logCall[t].rows
             c == [pc |-> "insert", e |-> e, rows |-> rows]
  <1>2. LogTyped /\ logCall[t] \in LogCalls /\ rows \subseteq Entries
    BY CallFields DEF LogInv
  <1>3. Moves(t, c)
    <2>1. c \in LogCalls
      BY <1>2 DEF LogCalls
    <2>2. [logCall[t] EXCEPT !.pc = "insert"] = c
      BY <1>1, <1>2 DEF LogCalls
    <2>3. logCall' = [logCall EXCEPT ![t] = c]
      BY <1>2, <2>2 DEF LogGoto, LogTyped
    <2> QED BY <2>1, <2>3 DEF Moves
  <1>4. c.pc = "insert" /\ c.e = e /\ c.rows = rows
    OBVIOUS
  <1> HIDE DEF c
  <1>5. /\ logCall' \in [LogThreads -> LogCalls] /\ logCall'[t] = c
        /\ \A u \in LogThreads : u # t => logCall'[u] = logCall[u]
    BY <1>2, <1>3, MovedCall
  <1>6. LogTyped'
    BY <1>2, <1>5 DEF LogTyped
  <1>7. /\ pgFaults <= pgFaults' /\ (blind => blind') /\ pg[e] + 1 <= PgBound(e)'
        /\ \A u \in LogThreads : logCall[u].pc = "postgres" /\ logCall[u].e = e => pg[e] + 2 <= PgBound(e)'
    BY <1>1, <1>6, InsertHasRoom
  <1>8. \A u \in LogThreads : u # t => logCall[u].pc # "insert"
    BY DEF LogInv, MigrationAlone, Migrating
  <1>9. PgRoom'
    <2> SUFFICES ASSUME NEW f \in Entries
                 PROVE  /\ pg[f] <= PgBound(f)'
                        /\ \A u \in LogThreads :
                             /\ logCall'[u].pc \in {"postgres", "insert"} /\ logCall'[u].e = f => pg[f] + 1 <= PgBound(f)'
                             /\ \A v \in LogThreads :
                                  logCall'[u].pc = "postgres" /\ logCall'[u].e = f /\ logCall'[v].pc = "insert"
                                    /\ logCall'[v].e = f => pg[f] + 2 <= PgBound(f)'
      BY DEF PgRoom, PgBound, Repeats
    <2>0. boots <= boots'
      BY <1>2, LogNumbers DEF LogTyped
    <2>1. PgBound(f) \in Nat /\ PgBound(f)' \in Nat /\ PgBound(f) <= PgBound(f)'
      BY <1>2, <1>6, <1>7, <2>0, BoundsGrow
    <2>2. pg[f] \in Nat /\ pg[f] <= PgBound(f)
      BY <1>2 DEF LogTyped, LogInv, PgRoom
    <2>3. ASSUME NEW u \in LogThreads, logCall'[u].pc \in {"postgres", "insert"}, logCall'[u].e = f
          PROVE  pg[f] + 1 <= PgBound(f)'
      <3>1. CASE u = t
        BY <1>4, <1>5, <1>7, <2>3, <3>1
      <3>2. CASE u # t
        <4>1. pg[f] + 1 <= PgBound(f)
          BY <1>5, <2>3, <3>2 DEF LogInv, PgRoom
        <4> QED BY <2>1, <2>2, <4>1
      <3> QED BY <3>1, <3>2
    <2>4. ASSUME NEW u \in LogThreads, NEW v \in LogThreads, logCall'[u].pc = "postgres", logCall'[u].e = f,
                 logCall'[v].pc = "insert", logCall'[v].e = f
          PROVE  pg[f] + 2 <= PgBound(f)'
      <3>1. v = t /\ f = e
        BY <1>4, <1>5, <1>8, <2>4
      <3>2. logCall[u].pc = "postgres" /\ logCall[u].e = e
        BY <1>4, <1>5, <2>4, <3>1
      <3> QED BY <1>7, <3>1, <3>2
    <2>5. pg[f] <= PgBound(f)'
      BY <2>1, <2>2
    <2> QED BY <2>3, <2>4, <2>5
  <1>10. e \in rows /\ Migrating(t) /\ CallCopied(c, pg') /\ c.e <= entries
    BY <1>1, <1>4 DEF LogInv, RowsCopied, CallCopied, Migrating, CallsKnown
  <1>11. pg' \in [Entries -> Nat] /\ \A f \in Entries : (pg[f] > 0 => pg'[f] > 0) /\ (pg'[f] > 0 => f <= entries)
    BY <1>2 DEF LogTyped, LogInv, RowsKnown
  <1>12. c.pc \in {"exists", "insert", "commit"} /\ c.rows \subseteq logCall[t].rows
    BY <1>4
  <1> QED BY <1>3, <1>9, <1>10, <1>11, <1>12, MigrationMoves

(* The migration asks Postgres for a row.                                   *)
LEMMA CheckExistsStep == ASSUME LogInv, NEW t \in LogThreads, CheckExists(t) PROVE LogInv'
  <1>1. /\ logCall[t].pc = "exists"
        /\ UNCHANGED <<logShadow, logClear, pg, lite, client, logLock, entries, logMigrations, boots, logged>>
    BY DEF CheckExists, LogAt
  <1>2. LogTyped /\ logCall[t].e \in Entries /\ pgFaults \in 0 .. MaxPgFaults /\ blind \in BOOLEAN
    BY CallFields DEF LogInv, LogTyped
  <1>3. CASE Present(logCall[t].e) /\ NextRow(t, {}) /\ UNCHANGED <<pgFaults, blind>>
    <2>1. {} \in SUBSET {logCall[t].e} /\ (\A f \in Entries : pg[f] > 0 => pg'[f] > 0) /\ pg'[logCall[t].e] > 0
      BY <1>1, <1>3 DEF Present
    <2>2. PICK c \in LogCalls : /\ Moves(t, c) /\ c.pc \in {"exists", "commit"} /\ c.rows \subseteq logCall[t].rows
                                /\ c.e \in logCall[t].rows /\ CallCopied(c, pg')
      BY <1>1, <1>3, <2>1, NextRowMoves
    <2>3. Migrating(t) /\ c.e <= entries
      <3>1. logCall[t].rows \subseteq Entries /\ Migrating(t)
        BY <1>1, <1>2, CallFields DEF Migrating
      <3> QED BY <2>2, <3>1 DEF LogInv, MigrationHolds, RowsKnown
    <2>4. LogTyped'
      BY <1>1, <1>2, <1>3, <2>2, MovedCall DEF LogTyped
    <2>5. PgRoom'
      <3>1. \A u \in LogThreads : logCall'[u].pc \in {"postgres", "insert"} => logCall'[u] = logCall[u]
        BY <1>2, <2>2, MovedCall
      <3> QED BY <1>1, <1>3, <3>1 DEF LogInv, PgRoom, PgBound, Repeats
    <2>6. pg' \in [Entries -> Nat] /\ \A f \in Entries : (pg[f] > 0 => pg'[f] > 0) /\ (pg'[f] > 0 => f <= entries)
      BY <1>1, <1>2 DEF LogTyped, LogInv, RowsKnown
    <2>7. c.pc \in {"exists", "insert", "commit"} /\ pgFaults' \in 0 .. MaxPgFaults /\ blind' \in BOOLEAN
      BY <1>2, <1>3, <2>2
    <2> QED BY <1>1, <2>2, <2>3, <2>5, <2>6, <2>7, MigrationMoves
  <1>4. CASE ~Present(logCall[t].e) /\ LogGoto(t, "insert") /\ UNCHANGED <<pgFaults, blind>>
    BY <1>1, <1>2, <1>4, ToInsert
  <1>5. CASE PgFails /\ LogGoto(t, "insert") /\ blind' = TRUE
    <2>1. pgFaults' \in 0 .. MaxPgFaults
      BY <1>2, <1>5, LogNumbers DEF PgFails
    <2> QED BY <1>1, <1>5, <2>1, ToInsert
  <1> QED BY <1>3, <1>4, <1>5 DEF CheckExists

(* The migration inserts a row.                                             *)
LEMMA MigrateRowStep == ASSUME LogInv, NEW t \in LogThreads, MigrateRow(t) PROVE LogInv'
  <1>1. PICK ok \in BOOLEAN : PgInsert(logCall[t].e, ok) /\ NextRow(t, NotInserted(t, ok))
    BY DEF MigrateRow
  <1>2. /\ logCall[t].pc = "insert"
        /\ UNCHANGED <<logShadow, logClear, lite, client, logLock, entries, logMigrations, boots, logged, blind>>
    BY DEF MigrateRow, LogAt
  <1> DEFINE e == logCall[t].e
  <1>3. LogTyped /\ e \in Entries /\ logCall[t].rows \subseteq Entries /\ blind \in BOOLEAN
    BY CallFields DEF LogInv, LogTyped
  <1>4. /\ pg' \in [Entries -> Nat] /\ pg'[e] \in {pg[e], pg[e] + 1} /\ (ok => pg'[e] > 0)
        /\ \A f \in Entries : f # e => pg'[f] = pg[f]
        /\ pgFaults <= pgFaults' /\ pgFaults' \in 0 .. MaxPgFaults
    BY <1>1, <1>3, InsertAdds
  <1>5. \A f \in Entries : pg[f] > 0 => pg'[f] > 0
    BY <1>3, <1>4 DEF LogTyped
  <1>6. NotInserted(t, ok) \in SUBSET {e} /\ (e \in NotInserted(t, ok) \/ pg'[e] > 0)
    BY <1>4 DEF NotInserted
  <1>7. PICK c \in LogCalls : /\ Moves(t, c) /\ c.pc \in {"exists", "commit"} /\ c.rows \subseteq logCall[t].rows
                              /\ c.e \in logCall[t].rows /\ CallCopied(c, pg')
    BY <1>1, <1>2, <1>5, <1>6, NextRowMoves
  <1>8. Migrating(t) /\ c.e <= entries /\ e <= entries
    <2>1. Migrating(t)
      BY <1>2 DEF Migrating
    <2> QED BY <1>2, <1>3, <1>7, <2>1 DEF LogInv, MigrationHolds, RowsKnown, CallsKnown
  <1>9. LogTyped'
    BY <1>2, <1>3, <1>4, <1>7, MovedCall DEF LogTyped
  <1>10. \A u \in LogThreads : u # t => ~(logCall[u].pc = logCall[t].pc /\ logCall[u].e = logCall[t].e)
    BY <1>2 DEF LogInv, MigrationAlone, Migrating
  <1>11. PgRoom'
    <2>1. c.pc \notin {"postgres", "insert"}
      BY <1>7
    <2> QED BY <1>2, <1>4, <1>7, <1>9, <1>10, <2>1, RowAdded
  <1>12. \A f \in Entries : pg'[f] > 0 => f <= entries
    BY <1>4, <1>8 DEF LogInv, RowsKnown
  <1>13. c.pc \in {"exists", "insert", "commit"} /\ blind' \in BOOLEAN
    BY <1>2, <1>3, <1>7
  <1> QED BY <1>2, <1>4, <1>5, <1>7, <1>8, <1>11, <1>12, <1>13, MigrationMoves

(* The migration deletes the rows it has copied, if it is to.               *)
LEMMA CommitStep == ASSUME LogInv, NEW t \in LogThreads, CommitMigration(t) PROVE LogInv'
  <1>1. /\ logCall[t].pc = "commit" /\ lite' = Deleted(logCall[t].rows) /\ LogDone(t) /\ logLock' = NoEntry
        /\ UNCHANGED <<logShadow, logClear, pg, client, entries, pgFaults, logMigrations, boots, logged, blind>>
    BY DEF CommitMigration, LogAt
  <1>2. LogTyped /\ logged \subseteq Entries
    BY DEF LogInv, LogTyped
  <1>3. Moves(t, IdleLog) /\ IdleLog.pc = "idle"
    BY <1>1, IdleIsCall DEF LogDone, Moves
  <1>4. /\ logCall' \in [LogThreads -> LogCalls] /\ logCall'[t] = IdleLog
        /\ \A u \in LogThreads : u # t => logCall'[u] = logCall[u]
    BY <1>2, <1>3, MovedCall
  <1>5. /\ lite' \in [Entries -> Nat] /\ (~logClear => lite' = lite)
        /\ \A f \in Entries : lite'[f] <= lite[f] /\ (lite[f] > 0 => lite'[f] > 0 \/ pg[f] > 0) /\ (lite'[f] > 0 => lite[f] > 0)
    <2>1. \A r \in logCall[t].rows : pg[r] > 0
      BY <1>1 DEF LogInv, RowsCopied
    <2>2. lite \in [Entries -> Nat]
      BY <1>2 DEF LogTyped
    <2>3. CASE logClear
      <3>1. lite' = [f \in Entries |-> IF f \in logCall[t].rows THEN 0 ELSE lite[f]]
        BY <1>1, <2>3 DEF Deleted
      <3> QED BY <2>1, <2>2, <2>3, <3>1
    <2>4. CASE ~logClear
      <3>1. lite' = lite
        BY <1>1, <2>4 DEF Deleted
      <3> QED BY <2>2, <3>1
    <2> QED BY <2>3, <2>4
  <1>6. LogTyped'
    BY <1>1, <1>2, <1>4, <1>5 DEF LogTyped
  <1>7. \A u \in LogThreads : u # t => ~Migrating(u)
    BY <1>1 DEF LogInv, MigrationAlone, Migrating
  <1>8. CallsKnown' /\ MigrationAlone' /\ MigrationHolds' /\ RowsCopied'
    <2>1. \A u \in LogThreads : ~Migrating(u)'
      BY <1>3, <1>4, <1>7 DEF Migrating
    <2>2. MigrationAlone'
      BY <1>1, <2>1, LogAssumption DEF MigrationAlone
    <2>3. CallsKnown' /\ MigrationHolds' /\ RowsCopied'
      BY <1>1, <1>3, <1>4, <2>1 DEF LogInv, CallsKnown, MigrationHolds, RowsCopied, Migrating
    <2> QED BY <2>2, <2>3
  <1>9. PgRoom' /\ LiteRoom' /\ AppendsApart'
    <2>1. Appending(t)' => (Appending(t) /\ IdleLog.e = logCall[t].e)
      BY <1>3, <1>4 DEF Appending
    <2>2. IdleLog.pc \notin {"postgres", "insert"} /\ pgFaults <= pgFaults' /\ (blind => blind')
      BY <1>1, <1>2, <1>3, LogNumbers DEF LogTyped
    <2> QED BY <1>1, <1>3, <1>5, <1>6, <2>1, <2>2, RoomKept
  <1>10. RowsKnown'
    BY <1>1, <1>5 DEF LogInv, RowsKnown
  <1>11. LoggedKept'
    BY <1>1, <1>2, <1>5 DEF LogInv, LoggedKept
  <1>12. ShadowKept'
    <2>1. logMigrations > 0 /\ logMigrations \in Nat
      BY <1>1, <1>2 DEF LogInv, MigrationHolds, Migrating, LogTyped
    <2> QED BY <1>1, <1>5, <2>1 DEF LogInv, ShadowKept
  <1> QED BY <1>6, <1>8, <1>9, <1>10, <1>11, <1>12 DEF LogInv

(* The migration reads the rows under the lock.                             *)
LEMMA BeginMigrationStep == ASSUME LogInv, NEW t \in LogThreads, BeginLogMigration(t) PROVE LogInv'
  <1> DEFINE rows == {f \in Entries : lite[f] > 0}
             least == CHOOSE e \in rows : \A f \in rows : e <= f
             c == [pc |-> "exists", e |-> least, rows |-> rows]
  <1>1. /\ logCall[t].pc = "idle" /\ client /\ boots > 0 /\ LogFree(t) /\ RowsIn(lite) > 0
        /\ logLock' = t /\ logMigrations' = logMigrations + 1 /\ logCall' = [logCall EXCEPT ![t] = c]
        /\ UNCHANGED <<logShadow, logClear, pg, lite, client, entries, pgFaults, boots, logged, blind>>
    BY DEF BeginLogMigration, LogAt
  <1>2. LogTyped /\ Entries \subseteq Nat
    BY LogNumbers DEF LogInv
  <1>3. rows # {}
    BY <1>1, FS_EmptySet DEF RowsIn
  <1>4. least \in rows /\ \A f \in rows : least <= f
    <2>1. \E e \in rows : \A f \in rows : e <= f
      <3>1. rows \in SUBSET Nat
        BY <1>2
      <3> HIDE DEF rows
      <3> QED BY <1>3, <3>1, LeastNatural
    <2> HIDE DEF rows
    <2> QED BY <2>1
  <1>5. Moves(t, c)
    <2>1. c \in LogCalls
      <3> HIDE DEF least
      <3> QED BY <1>4 DEF LogCalls
    <2> HIDE DEF c
    <2> QED BY <1>1, <2>1 DEF Moves
  <1>6. c.pc = "exists" /\ c.e = least /\ c.rows = rows
    OBVIOUS
  <1>7. /\ least \in Entries /\ least \in Nat /\ least <= entries
        /\ \A r \in rows : r \in Nat /\ lite[r] > 0 /\ ~(r < least)
    <2>1. rows \subseteq Entries /\ \A r \in rows : lite[r] > 0
      OBVIOUS
    <2> HIDE DEF rows, least
    <2> QED BY <1>2, <1>4, <2>1 DEF LogInv, RowsKnown
  <1> HIDE DEF rows, least, c
  <1>8. /\ logCall' \in [LogThreads -> LogCalls] /\ logCall'[t] = c
        /\ \A u \in LogThreads : u # t => logCall'[u] = logCall[u]
    BY <1>2, <1>5, MovedCall
  <1>9. \A u \in LogThreads : ~Migrating(u)
    BY <1>1, LogAssumption DEF LogInv, MigrationAlone, LogFree, Migrating
  <1>10. logMigrations \in Nat /\ logMigrations' \in Nat /\ logMigrations' > 0
    BY <1>1, <1>2 DEF LogTyped
  <1>11. LogTyped'
    BY <1>1, <1>2, <1>8, <1>10 DEF LogTyped
  <1>12. CallsKnown'
    BY <1>1, <1>6, <1>7, <1>8 DEF LogInv, CallsKnown
  <1>13. MigrationAlone'
    BY <1>1, <1>6, <1>8, <1>9 DEF MigrationAlone, Migrating
  <1>14. MigrationHolds'
    BY <1>1, <1>6, <1>7, <1>8, <1>9, <1>10 DEF MigrationHolds, Migrating
  <1>15. RowsCopied'
    <2> SUFFICES ASSUME NEW u \in LogThreads
                 PROVE  /\ logCall'[u].pc \in {"exists", "insert"} =>
                             /\ logCall'[u].e \in logCall'[u].rows
                             /\ \A r \in logCall'[u].rows : r < logCall'[u].e => pg'[r] > 0
                        /\ logCall'[u].pc = "commit" => \A r \in logCall'[u].rows : pg'[r] > 0
      BY DEF RowsCopied
    <2>1. CASE u = t
      BY <1>4, <1>6, <1>7, <1>8, <2>1
    <2>2. CASE u # t
      BY <1>1, <1>8, <2>2 DEF LogInv, RowsCopied
    <2> QED BY <2>1, <2>2
  <1>16. PgRoom' /\ LiteRoom' /\ AppendsApart'
    <2>1. ~Appending(t)' /\ c.pc \notin {"postgres", "insert"}
      BY <1>6, <1>8 DEF Appending
    <2>2. pgFaults <= pgFaults' /\ (blind => blind') /\ \A f \in Entries : lite'[f] <= lite[f]
      BY <1>1, <1>2, LogNumbers DEF LogTyped
    <2> QED BY <1>1, <1>5, <1>11, <2>1, <2>2, RoomKept
  <1>17. RowsKnown' /\ LoggedKept'
    BY <1>1 DEF LogInv, RowsKnown, LoggedKept
  <1>18. ShadowKept'
    BY <1>1, <1>10 DEF LogInv, ShadowKept
  <1> QED BY <1>11, <1>12, <1>13, <1>14, <1>15, <1>16, <1>17, <1>18 DEF LogInv

(* An entry is appended.                                                    *)
LEMMA AppendLogStep == ASSUME LogInv, NEW t \in LogThreads, AppendLog(t) PROVE LogInv'
  <1> DEFINE e == entries + 1
  <1>1. /\ logCall[t].pc = "idle" /\ entries < MaxEntries /\ boots > 0 /\ entries' = e
        /\ logCall' = [logCall EXCEPT ![t] = [pc |-> "postgres", e |-> e, rows |-> {}]]
        /\ UNCHANGED <<logShadow, logClear, pg, lite, client, logLock, pgFaults, logMigrations, boots, logged, blind>>
    BY DEF AppendLog, LogAt
  <1>2. LogTyped
    BY DEF LogInv
  <1>3. entries \in Nat /\ e \in Entries /\ entries <= e /\ boots' \in 1 .. MaxBoots /\ client' \in BOOLEAN
    BY <1>1, <1>2, LogNumbers DEF LogTyped, Entries
  <1>4. Moves(t, [pc |-> "postgres", e |-> e, rows |-> {}])
    BY <1>1, <1>3 DEF Moves, LogCalls
  <1>5. e <= e /\ e = entries + 1
    BY <1>3
  <1>7. pgFaults <= pgFaults' /\ pgFaults' \in 0 .. MaxPgFaults
    BY <1>1, <1>2, LogNumbers DEF LogTyped
  <1> HIDE DEF e
  <1>6. PICK n \in Entries : n = e
    BY <1>3
  <1> QED BY <1>1, <1>3, <1>4, <1>5, <1>6, <1>7, AppendStep

(* The process starts: the first entry is written by the start.             *)
LEMMA BootStep == ASSUME LogInv, NEW t \in LogThreads, Boot(t) PROVE LogInv'
  <1>1. /\ \A u \in LogThreads : logCall[u].pc = "idle"
        /\ boots < MaxBoots /\ boots' = boots + 1 /\ client' \in BOOLEAN
        /\ UNCHANGED <<logShadow, logClear, pg, lite, logLock, entries, logMigrations, logged, blind>>
    BY DEF Boot, LogAt
  <1>0. pgFaults <= pgFaults' /\ pgFaults' \in 0 .. MaxPgFaults
    <2>1. pgFaults' = pgFaults \/ (pgFaults < MaxPgFaults /\ pgFaults' = pgFaults + 1)
      BY DEF Boot
    <2>2. pgFaults \in 0 .. MaxPgFaults
      BY DEF LogInv, LogTyped
    <2> QED BY <2>1, <2>2, LogNumbers
  <1>2. LogTyped /\ boots \in Nat /\ boots' \in 1 .. MaxBoots /\ 0 \in Entries /\ entries' \in Entries
        /\ entries <= entries' /\ 0 <= entries'
    BY <1>1, LogNumbers DEF LogInv, LogTyped
  <1>3. CASE logCall' = [logCall EXCEPT ![t] = [pc |-> "postgres", e |-> 0, rows |-> {}]]
    <2>1. Moves(t, [pc |-> "postgres", e |-> 0, rows |-> {}])
      BY <1>2, <1>3 DEF Moves, LogCalls
    <2> QED BY <1>0, <1>1, <1>2, <2>1, AppendStep
  <1>4. CASE UNCHANGED logCall
    <2>1. LogTyped'
      BY <1>0, <1>1, <1>2, <1>4 DEF LogTyped
    <2>2. boots <= boots' /\ pgFaults <= pgFaults' /\ (blind => blind')
      BY <1>0, <1>1, <1>2, LogNumbers DEF LogTyped
    <2>3. \A f \in Entries : pg[f] \in Nat /\ lite[f] \in Nat /\ pg[f] <= PgBound(f) /\ lite[f] <= LiteBound(f)
      BY <1>2 DEF LogTyped, LogInv, PgRoom, LiteRoom
    <2>4. PgRoom' /\ LiteRoom'
      <3>1. \A f \in Entries : pg'[f] <= PgBound(f)' /\ lite'[f] <= LiteBound(f)'
        <4> TAKE f \in Entries
        <4>1. /\ PgBound(f) \in Nat /\ PgBound(f)' \in Nat /\ LiteBound(f) \in Nat /\ LiteBound(f)' \in Nat
              /\ PgBound(f) <= PgBound(f)' /\ LiteBound(f) <= LiteBound(f)'
          BY <1>2, <2>1, <2>2, BoundsGrow
        <4>2. pg' = pg /\ lite' = lite
          BY <1>1
        <4> QED BY <2>3, <4>1, <4>2
      <3>2. \A u \in LogThreads : logCall'[u].pc = "idle"
        BY <1>1, <1>4
      <3> QED BY <3>1, <3>2 DEF PgRoom, LiteRoom, Appending, PgBound, LiteBound, Repeats
    <2>5. CallsKnown' /\ MigrationAlone' /\ MigrationHolds' /\ RowsCopied' /\ AppendsApart'
      BY <1>1, <1>4 DEF LogInv, CallsKnown, MigrationAlone, MigrationHolds, RowsCopied, AppendsApart, Migrating, Appending
    <2>6. RowsKnown' /\ LoggedKept' /\ ShadowKept'
      BY <1>1 DEF LogInv, RowsKnown, LoggedKept, ShadowKept
    <2> QED BY <2>1, <2>4, <2>5, <2>6 DEF LogInv
  <1>5. \/ logCall' = [logCall EXCEPT ![t] = [pc |-> "postgres", e |-> 0, rows |-> {}]]
        \/ UNCHANGED logCall
    BY DEF Boot
  <1> QED BY <1>3, <1>4, <1>5

(* The process dies.                                                        *)
LEMMA CrashStep == ASSUME LogInv, LogCrash PROVE LogInv'
  <1>1. /\ logCall' = [u \in LogThreads |-> IdleLog] /\ logLock' = NoEntry
        /\ UNCHANGED <<logShadow, logClear, pg, lite, client, entries, pgFaults, logMigrations, boots, logged, blind>>
    BY DEF LogCrash
  <1>2. logCall' \in [LogThreads -> LogCalls] /\ \A u \in LogThreads : logCall'[u] = IdleLog
    BY <1>1, IdleIsCall
  <1> QED BY <1>1, <1>2, EndStep

(* ActivityLogKept: no logged entry is lost and none is kept more often     *)
(* than faults and starts explain, for any threads, entries, faults and     *)
(* migrations.                                                              *)
THEOREM ActivityLogStaysKept == LogSpec => []ActivityLogKept
  <1>1. LogInit => LogInv
    <2> SUFFICES ASSUME LogInit PROVE LogInv
      OBVIOUS
    <2> USE LogNumbers, IdleIsCall DEF LogInit
    <2>1. LogTyped
      <3>1. pg \in [Entries -> Nat] /\ lite \in [Entries -> Nat] /\ logCall \in [LogThreads -> LogCalls]
        OBVIOUS
      <3>2. pgFaults \in 0 .. MaxPgFaults /\ boots \in 0 .. MaxBoots /\ logMigrations \in Nat /\ entries \in Entries
        OBVIOUS
      <3>3. logShadow \in BOOLEAN /\ logClear \in BOOLEAN /\ client \in BOOLEAN /\ blind \in BOOLEAN
        OBVIOUS
      <3> QED BY <3>1, <3>2, <3>3 DEF LogTyped
    <2>2. \A u \in LogThreads : logCall[u].pc = "idle"
      OBVIOUS
    <2>3. CallsKnown /\ MigrationHolds /\ RowsCopied /\ AppendsApart /\ LoggedKept /\ ShadowKept
      BY <2>2 DEF CallsKnown, MigrationHolds, RowsCopied, AppendsApart, Migrating, Appending, LoggedKept, ShadowKept
    <2>4. MigrationAlone
      BY <2>2, LogAssumption DEF MigrationAlone, Migrating
    <2>5. RowsKnown
      BY DEF RowsKnown
    <2>6. PgRoom
      <3>1. \A f \in Entries : pg[f] <= PgBound(f)
        BY DEF PgBound, Repeats
      <3> QED BY <2>2, <3>1 DEF PgRoom
    <2>7. LiteRoom
      BY <2>2 DEF LiteRoom, LiteBound, Appending
    <2> QED BY <2>1, <2>3, <2>4, <2>5, <2>6, <2>7 DEF LogInv
  <1>2. LogInv /\ [LogNext]_logVars => LogInv'
    <2> SUFFICES ASSUME LogInv, [LogNext]_logVars PROVE LogInv'
      OBVIOUS
    <2>1. CASE UNCHANGED logVars
      <3>1. /\ logCall' = logCall /\ logLock' = logLock
            /\ UNCHANGED <<logShadow, logClear, pg, lite, client, entries, pgFaults, logMigrations, boots, logged, blind>>
        BY <2>1 DEF logVars
      <3>2. logCall' \in [LogThreads -> LogCalls] /\ \A u \in LogThreads : logCall'[u] = logCall[u]
        BY <3>1 DEF LogInv, LogTyped
      <3> QED BY <3>1, <3>2, EndStep
    <2>2. CASE LogCrash
      BY <2>2, CrashStep
    <2>3. ASSUME NEW t \in LogThreads,
                 \/ AppendLog(t) \/ InsertPostgres(t) \/ InsertSqlite(t) \/ Boot(t)
                 \/ BeginLogMigration(t) \/ CheckExists(t) \/ MigrateRow(t) \/ CommitMigration(t)
          PROVE  LogInv'
      BY <2>3, AppendLogStep, InsertPostgresStep, InsertSqliteStep, BootStep, BeginMigrationStep, CheckExistsStep,
         MigrateRowStep, CommitStep
    <2> QED BY <2>1, <2>2, <2>3 DEF LogNext
  <1>3. LogInv => ActivityLogKept
    <2> SUFFICES ASSUME LogInv PROVE ActivityLogKept
      OBVIOUS
    <2>1. LogTyped /\ \A f \in Entries : pg[f] \in Nat /\ lite[f] \in Nat
      BY DEF LogInv, LogTyped
    <2>2. pgFaults \in Nat /\ pgFaults <= MaxPgFaults /\ boots \in Nat /\ boots <= MaxBoots /\ MaxBoots \in Nat
          /\ MaxPgFaults \in Nat
      BY <2>1, LogNumbers DEF LogTyped
    <2>3. \A f \in Entries : pg[f] \in Counts /\ lite[f] \in Counts
      <3> TAKE f \in Entries
      <3>1. pg[f] <= PgBound(f) /\ lite[f] <= LiteBound(f)
        BY DEF LogInv, PgRoom, LiteRoom
      <3>2. Repeats \in {0, pgFaults}
        BY DEF Repeats
      <3>3. PgBound(f) = 1 + (boots + pgFaults) \/ PgBound(f) = 1 + Repeats
        BY DEF PgBound
      <3>4. LiteBound(f) = boots \/ LiteBound(f) = 1
        BY DEF LiteBound
      <3> QED BY <2>1, <2>2, <3>1, <3>2, <3>3, <3>4 DEF Counts
    <2>4. LogTypeOK
      BY <2>1, <2>3 DEF LogTyped, LogTypeOK, LogCalls
    <2>5. EntriesKept
      BY DEF LogInv, LoggedKept, EntriesKept
    <2>6. ShadowComplete
      BY <2>1 DEF LogInv, ShadowKept, ShadowComplete, ListedLogs, Rows, LogTyped
    <2>7. MigratedOnce
      BY DEF LogInv, PgRoom, PgBound, Repeats, MigratedOnce
    <2> QED BY <2>4, <2>5, <2>6, <2>7 DEF ActivityLogKept
  <1> QED BY <1>1, <1>2, <1>3, PTL DEF LogSpec

-----------------------------------------------------------------------------
StoreCalls ==
  [op : {"idle", "set", "get", "migrate"}, pc : {"idle", "redis", "sqlite", "read", "repair", "copy", "clear"},
   v : Copies, seen : SUBSET Versions]

(* What a call may be at: writes have numbers of their own, not yet acknowledged; a read that writes
   stores the defaults; what a call has seen is acknowledged.                                        *)
CallFits(c) ==
  /\ c.op = "idle" => c.pc = "idle"
  /\ c.op = "set" => c.pc \in {"redis", "sqlite"} /\ c.v \in 1 .. sets /\ c.v \notin acked
  /\ c.op = "get" => /\ c.pc \in {"read", "repair", "redis", "sqlite"} /\ c.v \in Versions
                     /\ c.pc \in {"redis", "sqlite"} => c.v = 0
  /\ c.op = "migrate" => c.pc \in {"copy", "clear"}
  /\ c.seen \subseteq acked
CallsFit == \A t \in StoreThreads : CallFits(storeCall[t]) /\ (storeCall[t].op # "idle" => t \in storeCfg.threads)
WritesApart ==
  \A t, u \in StoreThreads : t # u /\ storeCall[t].op = "set" /\ storeCall[u].op = "set" => storeCall[t].v # storeCall[u].v

(* The history: acknowledged writes have begun, and a write began after     *)
(* those it replaces.                                                       *)
Past ==
  /\ acked \subseteq 1 .. sets /\ lastGet.seen \subseteq acked
  /\ \A w \in Versions : before[w] \subseteq acked \cup {0} /\ w \notin before[w] /\ (w > sets => before[w] = {})

(* The lock is held by the migration; the row it copies stays what it read, and when it goes on to
   delete it, the key holds a readable copy.                                                        *)
Locked ==
  \A t \in StoreThreads :
    /\ storeCall[t].op = "migrate" <=> storeLock = t
    /\ storeCall[t].op = "migrate" => storeCall[t].v = sqlite /\ migrations > 0
    /\ storeCall[t].pc = "clear" => /\ storeCfg.clear
                                    /\ Readable(sqlite) => storeCfg.ttl \/ Readable(redis)

(* SQLite is not older than what a write that is through with it began      *)
(* after.                                                                   *)
NotOlder ==
  Durable /\ Readable(sqlite) /\ sqlite # 0 =>
    /\ ~Superseded(sqlite)
    /\ \A t \in StoreThreads : storeCall[t].op = "set" /\ storeCall[t].pc = "redis" /\ ~storeCfg.primary =>
         sqlite \notin before[storeCall[t].v]

(* One thread: its write is the last one, its read has seen every acknowledged write, and nobody
   changes SQLite under its feet.                                                                  *)
Single ==
  OneThread => \A t \in StoreThreads :
    /\ storeCall[t].op = "set" => storeCall[t].v = sets
    /\ storeCall[t].op = "get" => storeCall[t].seen = acked
    /\ storeCall[t].pc = "repair" => storeCall[t].v = sqlite
    /\ storeCall[t].pc = "redis" /\ ~storeCfg.primary => storeCall[t].v = sqlite

(* The first of the two copies is written, the second not yet.              *)
HalfDone(t) == IF storeCfg.primary THEN storeCall[t].pc = "sqlite" ELSE storeCall[t].pc = "redis"
Agreeing ==
  Durable /\ OneThread /\ ~missed =>
    /\ \A t \in StoreThreads : storeCall[t].pc = "sqlite" /\ storeCfg.primary => redis \in {storeCall[t].v, NoCopy}
    /\ (\A t \in StoreThreads : ~HalfDone(t)) /\ Readable(redis) /\ Readable(sqlite) => redis = sqlite

(* An acknowledged write leaves a row that no default replaces, and the     *)
(* last one leaves its own.                                                 *)
RowKept ==
  Durable /\ RowsKept /\ OneThread =>
    /\ acked # {} => Readable(sqlite) /\ sqlite # 0
    /\ sets \in acked => sqlite = sets
    /\ \A t \in StoreThreads : storeCall[t].op = "get" /\ storeCall[t].pc \in {"redis", "sqlite"} => acked = {}

(* The inductive invariant behind SecureStateKept.                          *)
StoreInv ==
  /\ StoreTypeOK /\ CallsFit /\ WritesApart /\ Past /\ Locked /\ NotOlder /\ Single /\ Agreeing /\ RowKept
  /\ ReadsLatest

(* The numbers of writes, and what is none.                                 *)
LEMMA StoreValues ==
  /\ MaxSets \in Nat /\ MaxOutages \in Nat /\ MaxMigrations \in Nat /\ Versions \subseteq Nat /\ 0 \in Versions
  /\ NoCopy \notin Versions /\ Garbled \notin Versions /\ NoCopy # Garbled /\ NoCopy \notin StoreThreads
  /\ \A copy \in Copies : Readable(copy) <=> copy \in Versions
  BY StoreAssumption DEF Versions, Copies, Readable

(* The fields of a call.                                                    *)
LEMMA StoreCallFields ==
  ASSUME StoreTypeOK, NEW t \in StoreThreads
  PROVE  /\ storeCall[t] \in StoreCalls /\ storeCall \in [StoreThreads -> StoreCalls]
         /\ storeCall[t] = [op |-> storeCall[t].op, pc |-> storeCall[t].pc, v |-> storeCall[t].v, seen |-> storeCall[t].seen]
  BY DEF StoreTypeOK, StoreCalls

(* No call is under way.                                                    *)
LEMMA IdleFits == IdleCall \in StoreCalls /\ IdleCall.op = "idle" /\ IdleCall.pc = "idle" /\ IdleCall.seen = {}
  BY StoreValues DEF IdleCall, StoreCalls, Copies

(* One thread at a time: the others are idle.                               *)
LEMMA OthersIdle ==
  ASSUME StoreTypeOK, CallsFit, OneThread, NEW t \in storeCfg.threads, NEW u \in StoreThreads, u # t
  PROVE  storeCall[u].op = "idle" /\ storeCall[u].pc = "idle"
  <1>1. IsFiniteSet(storeCfg.threads) /\ Cardinality(storeCfg.threads) = 1
    BY StoreAssumption DEF StoreTypeOK, OneThread
  <1>2. PICK x : storeCfg.threads = {x}
    BY <1>1, FS_Singleton
  <1> QED BY <1>2 DEF CallsFit, CallFits

(* One call moves and the others stay.                                      *)
LEMMA StoreMoved ==
  ASSUME StoreTypeOK, NEW t \in StoreThreads, NEW c \in StoreCalls, storeCall' = [storeCall EXCEPT ![t] = c]
  PROVE  /\ storeCall' \in [StoreThreads -> StoreCalls] /\ storeCall'[t] = c
         /\ \A u \in StoreThreads : u # t => storeCall'[u] = storeCall[u]
  BY DEF StoreTypeOK, StoreCalls

(* A write begins: it has a number of its own.                              *)
LEMMA BeginSetStep == ASSUME StoreInv, NEW t \in StoreThreads, BeginSet(t) PROVE StoreInv'
  <1> DEFINE n == sets + 1
             c == [op |-> "set", pc |-> FirstWrite, v |-> n, seen |-> acked]
  <1>1. /\ storeCall[t].pc = "idle" /\ t \in storeCfg.threads /\ sets < MaxSets /\ sets' = n
        /\ before' = [before EXCEPT ![n] = acked \cup {0}] /\ storeCall' = [storeCall EXCEPT ![t] = c]
        /\ UNCHANGED <<storeCfg, redis, sqlite, redisUp, storeLock, outages, migrations, acked, missed, lastGet>>
    BY DEF BeginSet, At
  <1>2. /\ StoreTypeOK /\ sets \in Nat /\ n \in Versions /\ n \in Nat /\ n \in 1 .. n /\ acked \subseteq 1 .. sets
        /\ acked \subseteq Versions
    <2>1. sets \in 0 .. MaxSets /\ acked \subseteq Versions /\ StoreTypeOK /\ acked \subseteq 1 .. sets
      BY DEF StoreInv, StoreTypeOK, Past, Versions
    <2> QED BY <1>1, <2>1, StoreValues DEF Versions
  <1>3. n \notin acked /\ acked \subseteq 1 .. n /\ n > sets
    BY <1>2
  <1>4. c \in StoreCalls
    BY <1>2 DEF StoreCalls, FirstWrite, Copies
  <1>5. c.op = "set" /\ c.v = n /\ c.seen = acked /\ c.pc = FirstWrite /\ FirstWrite = IF storeCfg.primary THEN "redis" ELSE "sqlite"
    BY DEF FirstWrite
  <1> HIDE DEF c, n
  <1>6. /\ storeCall' \in [StoreThreads -> StoreCalls] /\ storeCall'[t] = c
        /\ \A u \in StoreThreads : u # t => storeCall'[u] = storeCall[u]
    BY <1>1, <1>2, <1>4, StoreMoved
  <1>7. /\ before \in [Versions -> SUBSET Versions] /\ before'[n] = acked \cup {0}
        /\ before' \in [Versions -> SUBSET Versions] /\ \A w \in Versions : w # n => before'[w] = before[w]
    BY <1>1, <1>2, StoreValues DEF StoreTypeOK
  <1>8. StoreTypeOK'
    BY <1>1, <1>2, <1>6, <1>7 DEF StoreTypeOK, StoreCalls, Versions, Copies
  <1>9. CallsFit'
    <2>1. \A u \in StoreThreads : u # t => CallFits(storeCall[u])'
      BY <1>1, <1>2 DEF StoreInv, CallsFit, CallFits, n
    <2> QED BY <1>1, <1>2, <1>3, <1>5, <1>6, <2>1 DEF StoreInv, CallsFit, CallFits
  <1>10. WritesApart'
    BY <1>1, <1>2, <1>5, <1>6 DEF StoreInv, CallsFit, CallFits, WritesApart, n
  <1>11. Past'
    BY <1>1, <1>2, <1>3, <1>7 DEF StoreInv, Past, n
  <1>12. Locked'
    BY <1>1, <1>5, <1>6 DEF StoreInv, Locked, CallsFit, CallFits, Readable
  <1>13. NotOlder'
    BY <1>1, <1>2, <1>3, <1>5, <1>6, <1>7 DEF StoreInv, NotOlder, Durable, Readable, Superseded, CallsFit, CallFits
  <1>14. Single'
    <2> SUFFICES ASSUME OneThread PROVE Single'
      BY <1>1 DEF Single, OneThread
    <2>1. \A u \in StoreThreads : u # t => storeCall'[u].op = "idle" /\ storeCall'[u].pc = "idle"
      BY <1>1, <1>6, OthersIdle DEF StoreInv
    <2> QED BY <1>1, <1>5, <1>6, <2>1 DEF Single
  <1>15. Agreeing'
    BY <1>1, <1>5, <1>6 DEF StoreInv, Agreeing, HalfDone, Durable, OneThread, Readable
  <1>16. RowKept'
    BY <1>1, <1>3, <1>5, <1>6 DEF StoreInv, RowKept, Durable, OneThread, RowsKept, Readable
  <1>17. ReadsLatest'
    BY <1>1, <1>2, <1>3, <1>7 DEF StoreInv, ReadsLatest, Past, Durable, OneThread, RowsKept
  <1> QED BY <1>8, <1>9, <1>10, <1>11, <1>12, <1>13, <1>14, <1>15, <1>16, <1>17 DEF StoreInv

(* A call goes on: its record with another place and value.                 *)
LEMMA StoreGoes ==
  ASSUME StoreTypeOK, NEW t \in StoreThreads, NEW pc, NEW v \in Copies, Goto(t, pc, v),
         pc \in {"idle", "redis", "sqlite", "read", "repair", "copy", "clear"}
  PROVE  \E c \in StoreCalls : /\ storeCall' = [storeCall EXCEPT ![t] = c] /\ c.op = storeCall[t].op /\ c.pc = pc
                               /\ c.v = v /\ c.seen = storeCall[t].seen
  <1> DEFINE c == [op |-> storeCall[t].op, pc |-> pc, v |-> v, seen |-> storeCall[t].seen]
  <1>1. c \in StoreCalls
    BY StoreCallFields DEF StoreCalls
  <1>2. storeCall' = [storeCall EXCEPT ![t] = c]
    <2>1. [storeCall[t] EXCEPT !.pc = pc, !.v = v] = c
      <3> DEFINE r == [storeCall[t] EXCEPT !.pc = pc]
      <3>1. [storeCall[t] EXCEPT !.pc = pc, !.v = v] = [r EXCEPT !.v = v]
        OBVIOUS
      <3>2. r = [op |-> storeCall[t].op, pc |-> pc, v |-> storeCall[t].v, seen |-> storeCall[t].seen]
        <4> DEFINE x == storeCall[t]
        <4>1. x = [op |-> x.op, pc |-> x.pc, v |-> x.v, seen |-> x.seen]
          BY StoreCallFields
        <4> HIDE DEF x
        <4>2. [x EXCEPT !.pc = pc] = [op |-> x.op, pc |-> pc, v |-> x.v, seen |-> x.seen]
          BY <4>1
        <4> QED BY <4>2 DEF x
      <3> HIDE DEF r
      <3>3. [r EXCEPT !.v = v] = c
        BY <3>2
      <3> QED BY <3>1, <3>3
    <2>2. DOMAIN storeCall = StoreThreads
      BY StoreCallFields
    <2>3. storeCall' = [storeCall EXCEPT ![t] = [storeCall[t] EXCEPT !.pc = pc, !.v = v]]
      BY <2>2 DEF Goto
    <2> HIDE DEF c
    <2> QED BY <2>1, <2>3
  <1>3. c.op = storeCall[t].op /\ c.pc = pc /\ c.v = v /\ c.seen = storeCall[t].seen
    OBVIOUS
  <1> HIDE DEF c
  <1> QED BY <1>1, <1>2, <1>3

(* A write reaches SQLite, under the lock.                                  *)
LEMMA SetSqliteStep == ASSUME StoreInv, NEW t \in StoreThreads, SetSqlite(t) PROVE StoreInv'
  <1> DEFINE v == storeCall[t].v
  <1>1. /\ storeCall[t].pc = "sqlite" /\ LockFree(t) /\ sqlite' = v
        /\ IF storeCfg.primary THEN Finish(t) ELSE Goto(t, "redis", v) /\ UNCHANGED history
        /\ UNCHANGED <<storeCfg, redis, redisUp, storeLock, outages, migrations, missed>>
    BY DEF SetSqlite, At
  <1>2. /\ StoreTypeOK /\ storeCall[t].op \in {"set", "get"} /\ v \in Versions /\ v \in Copies /\ t \in storeCfg.threads
        /\ (storeCall[t].op = "set" => v \in 1 .. sets /\ v \notin acked /\ v # 0) /\ (storeCall[t].op = "get" => v = 0)
        /\ storeCall[t].seen \subseteq acked /\ sets \in 0 .. MaxSets /\ lastGet \in [v : Versions, seen : SUBSET Versions]
        /\ acked \subseteq Versions /\ storeCall[t].seen \subseteq Versions
    <2>1. StoreTypeOK /\ CallFits(storeCall[t]) /\ (storeCall[t].op # "idle" => t \in storeCfg.threads)
      BY DEF StoreInv, CallsFit
    <2>2. storeCall[t] \in StoreCalls /\ sets \in 0 .. MaxSets /\ lastGet \in [v : Versions, seen : SUBSET Versions]
          /\ acked \subseteq Versions
      BY <2>1, StoreCallFields DEF StoreTypeOK, Versions
    <2> QED BY <1>1, <2>1, <2>2, StoreValues DEF CallFits, StoreCalls, Copies, Versions
  <1>3. PICK c \in StoreCalls :
          /\ storeCall' = [storeCall EXCEPT ![t] = c]
          /\ storeCfg.primary => c = IdleCall
          /\ ~storeCfg.primary => c.op = storeCall[t].op /\ c.pc = "redis" /\ c.v = v /\ c.seen = storeCall[t].seen
    <2>1. CASE storeCfg.primary
      BY <1>1, <2>1, IdleFits DEF Finish
    <2>2. CASE ~storeCfg.primary
      BY <1>1, <1>2, <2>2, StoreGoes
    <2> QED BY <2>1, <2>2
  <1>4. /\ storeCall' \in [StoreThreads -> StoreCalls] /\ storeCall'[t] = c
        /\ \A u \in StoreThreads : u # t => storeCall'[u] = storeCall[u]
    BY <1>2, <1>3, StoreMoved
  <1>5. /\ UNCHANGED <<sets, before>>
        /\ acked' = IF storeCfg.primary /\ storeCall[t].op = "set" THEN acked \cup {v} ELSE acked
        /\ lastGet' = IF storeCfg.primary /\ storeCall[t].op = "get" THEN [v |-> v, seen |-> storeCall[t].seen] ELSE lastGet
    BY <1>1 DEF Finish, history
  <1>6. acked \subseteq acked' /\ acked' \subseteq acked \cup {v} /\ (storeCall[t].op = "get" => acked' = acked)
    BY <1>2, <1>5
  <1>7. StoreTypeOK'
    <2>1. lastGet' \in [v : Versions, seen : SUBSET Versions] /\ acked' \subseteq Versions
      BY <1>2, <1>5
    <2> QED BY <1>1, <1>2, <1>4, <1>5, <2>1 DEF StoreTypeOK, StoreCalls, Versions, Copies
  <1>8. \A u \in StoreThreads : u # t => CallFits(storeCall[u])' /\ (storeCall'[u].op # "idle" => u \in storeCfg.threads)
    BY <1>2, <1>4, <1>5 DEF StoreInv, CallsFit, CallFits, WritesApart
  <1>9. CallsFit'
    <2>1. CallFits(storeCall[t])'
      <3>1. CASE storeCfg.primary
        BY <1>3, <1>4, <3>1, IdleFits DEF CallFits
      <3>2. CASE ~storeCfg.primary
        BY <1>2, <1>3, <1>4, <1>5, <3>2 DEF CallFits
      <3> QED BY <3>1, <3>2
    <2> QED BY <1>1, <1>2, <1>8, <2>1 DEF CallsFit
  <1>10. WritesApart'
    BY <1>3, <1>4, IdleFits DEF StoreInv, WritesApart
  <1>11. Past'
    BY <1>2, <1>5, <1>6 DEF StoreInv, Past
  <1>12. storeLock = NoCopy /\ \A u \in StoreThreads : storeCall[u].op # "migrate"
    BY <1>1, <1>2, StoreValues DEF StoreInv, Locked, LockFree
  <1>13. Locked'
    <2>1. \A u \in StoreThreads : storeCall'[u].op # "migrate"
      BY <1>2, <1>3, <1>4, <1>12, IdleFits
    <2>2. \A u \in StoreThreads : storeCall'[u].pc # "clear"
      BY <1>4, <1>9, <2>1 DEF CallsFit, CallFits, StoreCalls
    <2>3. \A u \in StoreThreads : storeLock' # u
      BY <1>1, <1>12, StoreValues
    <2> QED BY <2>1, <2>2, <2>3 DEF Locked
  <1>14. NotOlder'
    <2> SUFFICES ASSUME Durable, v # 0
                 PROVE  /\ \A w \in acked' : v \notin before[w]
                        /\ \A u \in StoreThreads : storeCall'[u].op = "set" /\ storeCall'[u].pc = "redis" /\ ~storeCfg.primary =>
                             v \notin before[storeCall'[u].v]
      BY <1>1, <1>5 DEF NotOlder, Durable, Readable, Superseded
    <2>1. storeCall[t].op = "set" /\ v \notin acked
      BY <1>2
    <2>2. \A w \in Versions : v \notin before[w]
      BY <2>1 DEF StoreInv, Past
    <2>3. \A u \in StoreThreads : storeCall'[u].op = "set" => storeCall'[u].v \in Versions
      <3>1. 1 .. sets \subseteq Versions /\ sets' = sets
        BY <1>2, <1>5, StoreValues DEF Versions
      <3> QED BY <1>9, <3>1 DEF CallsFit, CallFits
    <2> QED BY <1>2, <1>6, <2>2, <2>3
  <1>15. Single'
    <2> SUFFICES ASSUME OneThread PROVE Single'
      BY <1>1 DEF Single, OneThread
    <2>1. \A u \in StoreThreads : u # t => storeCall'[u].op = "idle" /\ storeCall'[u].pc = "idle"
      BY <1>2, <1>4, OthersIdle DEF StoreInv
    <2> QED BY <1>1, <1>3, <1>4, <1>5, <2>1, IdleFits DEF StoreInv, Single
  <1>16. Agreeing'
    <2> SUFFICES ASSUME Durable, OneThread, ~missed PROVE Agreeing'
      BY <1>1 DEF Agreeing, OneThread, Durable
    <2>1. \A u \in StoreThreads : u # t => storeCall'[u].op = "idle" /\ storeCall'[u].pc = "idle"
      BY <1>2, <1>4, OthersIdle DEF StoreInv
    <2>2. CASE storeCfg.primary
      BY <1>1, <1>3, <1>4, <2>1, <2>2, IdleFits DEF StoreInv, Agreeing, Readable
    <2>3. CASE ~storeCfg.primary
      BY <1>1, <1>3, <1>4, <2>3 DEF Agreeing, HalfDone
    <2> QED BY <2>2, <2>3
  <1>17. RowKept'
    <2> SUFFICES ASSUME Durable, OneThread, RowsKept PROVE RowKept'
      BY <1>1 DEF RowKept, OneThread, Durable, RowsKept
    <2>1. \A u \in StoreThreads : u # t => storeCall'[u].op = "idle" /\ storeCall'[u].pc = "idle"
      BY <1>2, <1>4, OthersIdle DEF StoreInv
    <2>2. CASE storeCall[t].op = "get"
      BY <1>1, <1>2, <1>3, <1>4, <1>5, <2>1, <2>2, IdleFits DEF StoreInv, RowKept
    <2>3. CASE storeCall[t].op = "set"
      BY <1>1, <1>2, <1>3, <1>4, <1>5, <2>1, <2>3, IdleFits, StoreValues DEF StoreInv, RowKept, Single, Readable
    <2> QED BY <1>2, <2>2, <2>3
  <1>18. ReadsLatest'
    <2> SUFFICES ASSUME Durable, OneThread, RowsKept, ~missed PROVE \A w \in lastGet'.seen : lastGet'.v \notin before[w]
      BY <1>1, <1>5 DEF ReadsLatest, OneThread, Durable, RowsKept
    <2>1. CASE lastGet' = lastGet
      BY <2>1 DEF StoreInv, ReadsLatest
    <2>2. CASE lastGet' # lastGet
      <3>1. storeCall[t].op = "get" /\ lastGet'.seen = storeCall[t].seen /\ acked = {}
        BY <1>1, <1>5, <2>2 DEF StoreInv, RowKept
      <3> QED BY <1>2, <3>1
    <2> QED BY <2>1, <2>2
  <1> QED BY <1>7, <1>9, <1>10, <1>11, <1>13, <1>14, <1>15, <1>16, <1>17, <1>18 DEF StoreInv

(* What is written to Redis: the value, unless the write fails, which then  *)
(* is missed.                                                               *)
LEMMA RedisWritten ==
  ASSUME NEW v, NEW ok \in BOOLEAN, RedisWrite(v, ok), missed \in BOOLEAN
  PROVE  /\ redis' \in {redis, v} /\ missed' \in BOOLEAN /\ (~missed' => ~missed /\ redis' = v) /\ (missed => missed')
         /\ (ok => redis' = v /\ missed' = missed)
  <1>1. CASE ok
    <2>1. redis' = v /\ missed' = missed
      BY <1>1 DEF RedisWrite
    <2> QED BY <2>1
  <1>2. CASE ~ok
    <2>1. redis' \in {redis, v} /\ missed' = TRUE
      BY <1>2 DEF RedisWrite
    <2> QED BY <1>2, <2>1
  <1> QED BY <1>1, <1>2

(* A write reaches Redis, or fails there and goes to SQLite.                *)
LEMMA SetRedisStep == ASSUME StoreInv, NEW t \in StoreThreads, SetRedis(t) PROVE StoreInv'
  <1> DEFINE v == storeCall[t].v
  <1>1. PICK ok \in BOOLEAN :
          /\ RedisWrite(v, ok)
          /\ IF NeedsSqlite(ok) THEN Goto(t, "sqlite", v) /\ UNCHANGED history ELSE Finish(t)
    BY DEF SetRedis
  <1>2. storeCall[t].pc = "redis" /\ UNCHANGED <<storeCfg, sqlite, redisUp, storeLock, outages, migrations>>
    BY DEF SetRedis, At
  <1>3. /\ StoreTypeOK /\ storeCall[t].op \in {"set", "get"} /\ v \in Versions /\ v \in Copies /\ t \in storeCfg.threads
        /\ (storeCall[t].op = "set" => v \in 1 .. sets /\ v \notin acked /\ v # 0) /\ (storeCall[t].op = "get" => v = 0)
        /\ storeCall[t].seen \subseteq acked /\ sets \in 0 .. MaxSets /\ lastGet \in [v : Versions, seen : SUBSET Versions]
        /\ acked \subseteq Versions /\ storeCall[t].seen \subseteq Versions /\ missed \in BOOLEAN
    <2>1. StoreTypeOK /\ CallFits(storeCall[t]) /\ (storeCall[t].op # "idle" => t \in storeCfg.threads)
      BY DEF StoreInv, CallsFit
    <2>2. storeCall[t] \in StoreCalls /\ sets \in 0 .. MaxSets /\ lastGet \in [v : Versions, seen : SUBSET Versions]
          /\ acked \subseteq Versions /\ missed \in BOOLEAN
      BY <2>1, StoreCallFields DEF StoreTypeOK, Versions
    <2> QED BY <1>2, <2>1, <2>2, StoreValues DEF CallFits, StoreCalls, Copies, Versions
  <1>4. PICK c \in StoreCalls :
          /\ storeCall' = [storeCall EXCEPT ![t] = c]
          /\ ~NeedsSqlite(ok) => c = IdleCall
          /\ NeedsSqlite(ok) => c.op = storeCall[t].op /\ c.pc = "sqlite" /\ c.v = v /\ c.seen = storeCall[t].seen
    <2>1. CASE ~NeedsSqlite(ok)
      BY <1>1, <2>1, IdleFits DEF Finish
    <2>2. CASE NeedsSqlite(ok)
      BY <1>1, <1>3, <2>2, StoreGoes
    <2> QED BY <2>1, <2>2
  <1>5. /\ storeCall' \in [StoreThreads -> StoreCalls] /\ storeCall'[t] = c
        /\ \A u \in StoreThreads : u # t => storeCall'[u] = storeCall[u]
    BY <1>3, <1>4, StoreMoved
  <1>6. /\ UNCHANGED <<sets, before>>
        /\ acked' = IF ~NeedsSqlite(ok) /\ storeCall[t].op = "set" THEN acked \cup {v} ELSE acked
        /\ lastGet' = IF ~NeedsSqlite(ok) /\ storeCall[t].op = "get" THEN [v |-> v, seen |-> storeCall[t].seen] ELSE lastGet
    BY <1>1 DEF Finish, history
  <1>7. acked \subseteq acked' /\ acked' \subseteq acked \cup {v} /\ (storeCall[t].op = "get" => acked' = acked)
    BY <1>3, <1>6
  <1>8. /\ redis' \in {redis, v} /\ missed' \in BOOLEAN /\ (~missed' => ~missed /\ redis' = v) /\ (missed => missed')
    BY <1>1, <1>3, RedisWritten
  <1>9. /\ NeedsSqlite(ok) => storeCfg.primary
        /\ Durable => (NeedsSqlite(ok) <=> storeCfg.primary)
    BY DEF NeedsSqlite, Durable
  <1>10. StoreTypeOK'
    <2>1. lastGet' \in [v : Versions, seen : SUBSET Versions] /\ acked' \subseteq Versions /\ redis' \in Copies
      BY <1>3, <1>6, <1>8 DEF StoreTypeOK
    <2> QED BY <1>2, <1>3, <1>5, <1>6, <1>8, <2>1 DEF StoreTypeOK, StoreCalls, Versions, Copies
  <1>11. CallsFit'
    <2>1. CallFits(storeCall[t])'
      <3>1. CASE ~NeedsSqlite(ok)
        BY <1>4, <1>5, <3>1, IdleFits DEF CallFits
      <3>2. CASE NeedsSqlite(ok)
        BY <1>3, <1>4, <1>5, <1>6, <3>2 DEF CallFits
      <3> QED BY <3>1, <3>2
    <2>2. \A u \in StoreThreads : u # t => CallFits(storeCall[u])' /\ (storeCall'[u].op # "idle" => u \in storeCfg.threads)
      BY <1>3, <1>5, <1>6 DEF StoreInv, CallsFit, CallFits, WritesApart
    <2> QED BY <1>2, <1>3, <2>1, <2>2 DEF CallsFit
  <1>12. WritesApart'
    BY <1>4, <1>5, IdleFits DEF StoreInv, WritesApart
  <1>13. Past'
    BY <1>3, <1>6, <1>7 DEF StoreInv, Past
  <1>14. Locked'
    <2>1. \A u \in StoreThreads : storeCall'[u].op = "migrate" <=> storeCall[u].op = "migrate"
      BY <1>3, <1>4, <1>5, IdleFits
    <2>2. \A u \in StoreThreads : (storeCall'[u].op = "migrate" \/ storeCall'[u].pc = "clear") => storeCall'[u] = storeCall[u]
      BY <1>3, <1>4, <1>5, IdleFits
    <2>3. Readable(redis) => Readable(redis')
      BY <1>3, <1>8, StoreValues DEF Readable
    <2> QED BY <1>2, <2>1, <2>2, <2>3 DEF StoreInv, Locked, Readable
  <1>15. NotOlder'
    <2> SUFFICES ASSUME Durable, Readable(sqlite), sqlite # 0
                 PROVE  /\ \A w \in acked' : sqlite \notin before[w]
                        /\ \A u \in StoreThreads : storeCall'[u].op = "set" /\ storeCall'[u].pc = "redis" /\ ~storeCfg.primary =>
                             sqlite \notin before[storeCall'[u].v]
      BY <1>2, <1>6 DEF NotOlder, Durable, Readable, Superseded
    <2>1. \A w \in acked : sqlite \notin before[w]
      BY DEF StoreInv, NotOlder, Superseded
    <2>2. storeCall[t].op = "set" /\ ~storeCfg.primary => sqlite \notin before[v]
      BY <1>2 DEF StoreInv, NotOlder
    <2>3. \A w \in acked' : sqlite \notin before[w]
      <3>1. CASE acked' = acked
        BY <2>1, <3>1
      <3>2. CASE acked' # acked
        BY <1>6, <1>9, <2>1, <2>2, <3>2
      <3> QED BY <3>1, <3>2
    <2>4. \A u \in StoreThreads : storeCall'[u].op = "set" /\ storeCall'[u].pc = "redis" => storeCall'[u] = storeCall[u]
      BY <1>4, <1>5, IdleFits
    <2> QED BY <2>3, <2>4 DEF StoreInv, NotOlder
  <1>16. Single'
    <2> SUFFICES ASSUME OneThread PROVE Single'
      BY <1>2 DEF Single, OneThread
    <2>1. \A u \in StoreThreads : u # t => storeCall'[u].op = "idle" /\ storeCall'[u].pc = "idle"
      BY <1>3, <1>5, OthersIdle DEF StoreInv
    <2> QED BY <1>2, <1>4, <1>5, <1>6, <2>1, IdleFits DEF StoreInv, Single
  <1>17. Agreeing'
    <2> SUFFICES ASSUME Durable, OneThread, ~missed' PROVE Agreeing'
      BY <1>2 DEF Agreeing, OneThread, Durable
    <2>1. \A u \in StoreThreads : u # t => storeCall'[u].op = "idle" /\ storeCall'[u].pc = "idle"
      BY <1>3, <1>5, OthersIdle DEF StoreInv
    <2>2. redis' = v
      BY <1>8
    <2>3. CASE storeCfg.primary
      BY <1>2, <1>4, <1>5, <1>9, <2>1, <2>2, <2>3 DEF Agreeing, HalfDone
    <2>4. CASE ~storeCfg.primary
      BY <1>2, <1>4, <1>5, <2>2, <2>4 DEF StoreInv, Single, Agreeing
    <2> QED BY <2>3, <2>4
  <1>18. RowKept'
    <2> SUFFICES ASSUME Durable, OneThread, RowsKept PROVE RowKept'
      BY <1>2 DEF RowKept, OneThread, Durable, RowsKept
    <2>1. \A u \in StoreThreads : u # t => storeCall'[u].op = "idle" /\ storeCall'[u].pc = "idle"
      BY <1>3, <1>5, OthersIdle DEF StoreInv
    <2>2. CASE storeCall[t].op = "get"
      BY <1>2, <1>3, <1>4, <1>5, <1>6, <2>1, <2>2, IdleFits DEF StoreInv, RowKept, Readable
    <2>3. CASE storeCall[t].op = "set" /\ storeCfg.primary
      BY <1>2, <1>3, <1>4, <1>5, <1>6, <1>9, <2>1, <2>3, IdleFits DEF StoreInv, RowKept, Readable
    <2>4. CASE storeCall[t].op = "set" /\ ~storeCfg.primary
      <3>1. v = sets /\ sqlite = v /\ acked' = acked \cup {v} /\ v # 0 /\ Readable(sqlite)
        BY <1>2, <1>3, <1>6, <1>9, <2>4, StoreValues DEF StoreInv, Single
      <3> QED BY <1>2, <1>3, <1>4, <1>5, <1>6, <1>9, <2>1, <2>4, <3>1, IdleFits DEF RowKept, Readable
    <2> QED BY <1>3, <2>2, <2>3, <2>4
  <1>19. ReadsLatest'
    <2> SUFFICES ASSUME Durable, OneThread, RowsKept, ~missed' PROVE \A w \in lastGet'.seen : lastGet'.v \notin before[w]
      BY <1>2, <1>6 DEF ReadsLatest, OneThread, Durable, RowsKept
    <2>1. CASE lastGet' = lastGet
      BY <1>8, <2>1 DEF StoreInv, ReadsLatest
    <2>2. CASE lastGet' # lastGet
      <3>1. storeCall[t].op = "get" /\ lastGet'.seen = storeCall[t].seen /\ acked = {}
        BY <1>2, <1>6, <2>2 DEF StoreInv, RowKept
      <3> QED BY <1>3, <3>1
    <2> QED BY <2>1, <2>2
  <1> QED BY <1>10, <1>11, <1>12, <1>13, <1>14, <1>15, <1>16, <1>17, <1>18, <1>19 DEF StoreInv

(* A call of t that changes neither copy nor the history of writes, and is no write: it begins, goes on
   or ends a read, or a migration that copies nothing.                                               *)
LEMMA QuietStep ==
  ASSUME StoreInv, NEW t \in StoreThreads, NEW c \in StoreCalls, storeCall' = [storeCall EXCEPT ![t] = c],
         t \in storeCfg.threads, storeCall[t].op \in {"idle", "get"}, c.op \in {"idle", "get"},
         storeCall[t].pc \in {"idle", "read"},
         c.op = "idle" => c.pc = "idle",
         c.op = "get" => /\ c.pc \in {"read", "repair", "redis", "sqlite"} /\ c.v \in Versions
                         /\ c.pc \in {"redis", "sqlite"} => c.v = 0 /\ c.pc = FirstWrite /\ ~Readable(sqlite)
                         /\ c.pc = "repair" => c.v = sqlite,
         c.seen \subseteq acked, OneThread /\ c.op = "get" => c.seen = acked,
         lastGet' = lastGet \/ (lastGet' = [v |-> redis, seen |-> acked] /\ Readable(redis) /\ storeCall[t].op = "idle"),
         UNCHANGED <<storeCfg, redis, sqlite, redisUp, storeLock, sets, outages, migrations, acked, before, missed>>
  PROVE  StoreInv'
  <1>1. StoreTypeOK
    BY DEF StoreInv
  <1>2. /\ storeCall' \in [StoreThreads -> StoreCalls] /\ storeCall'[t] = c
        /\ \A u \in StoreThreads : u # t => storeCall'[u] = storeCall[u]
    BY <1>1, StoreMoved
  <1>3. redis \in Copies /\ acked \subseteq Versions /\ lastGet \in [v : Versions, seen : SUBSET Versions]
    BY <1>1 DEF StoreTypeOK
  <1>4. StoreTypeOK'
    <2>1. lastGet' \in [v : Versions, seen : SUBSET Versions]
      BY <1>3, StoreValues
    <2> QED BY <1>1, <1>2, <2>1 DEF StoreTypeOK, StoreCalls, Versions, Copies
  <1>5. CallsFit'
    <2>1. CallFits(storeCall[t])'
      BY <1>2 DEF CallFits
    <2>2. \A u \in StoreThreads : u # t => CallFits(storeCall[u])' /\ (storeCall'[u].op # "idle" => u \in storeCfg.threads)
      BY <1>2 DEF StoreInv, CallsFit, CallFits
    <2> QED BY <2>1, <2>2 DEF CallsFit
  <1>6. WritesApart'
    BY <1>2 DEF StoreInv, WritesApart
  <1>7. Past'
    BY DEF StoreInv, Past
  <1>8. c.pc # "clear"
    OBVIOUS
  <1>9. Locked'
    BY <1>2, <1>8 DEF StoreInv, Locked, Readable
  <1>10. NotOlder'
    BY <1>2 DEF StoreInv, NotOlder, Durable, Readable, Superseded
  <1>11. Single'
    <2> SUFFICES ASSUME OneThread PROVE Single'
      BY DEF Single, OneThread
    <2>1. \A u \in StoreThreads : u # t => storeCall'[u].op = "idle" /\ storeCall'[u].pc = "idle"
      BY <1>1, <1>2, OthersIdle DEF StoreInv
    <2> QED BY <1>2, <2>1 DEF Single, FirstWrite
  <1>12. ~HalfDone(t) /\ ~HalfDone(t)'
    <2>1. ~HalfDone(t)
      BY DEF HalfDone
    <2>2. c.pc \notin {"redis", "sqlite"} \/ c.pc = FirstWrite
      OBVIOUS
    <2> QED BY <1>2, <2>1, <2>2 DEF HalfDone, FirstWrite
  <1>13. Agreeing'
    <2>1. \A u \in StoreThreads : HalfDone(u)' <=> HalfDone(u)
      BY <1>2, <1>12 DEF HalfDone
    <2>2. storeCfg.primary => c.pc # "sqlite"
      BY <1>2, <1>12 DEF HalfDone
    <2> QED BY <1>2, <2>1, <2>2 DEF StoreInv, Agreeing, Durable, OneThread, Readable
  <1>14. RowKept'
    BY <1>2 DEF StoreInv, RowKept, Durable, OneThread, RowsKept, Readable
  <1>15. ReadsLatest'
    <2> SUFFICES ASSUME Durable, OneThread, RowsKept, ~missed PROVE \A w \in lastGet'.seen : lastGet'.v \notin before[w]
      BY DEF ReadsLatest, OneThread, Durable, RowsKept
    <2>1. CASE lastGet' = lastGet
      BY <2>1 DEF StoreInv, ReadsLatest
    <2>2. CASE lastGet' # lastGet /\ acked # {}
      <3>1. lastGet'.v = redis /\ lastGet'.seen = acked /\ Readable(redis) /\ storeCall[t].op = "idle"
        BY <2>2
      <3>2. \A u \in StoreThreads : storeCall[u].pc = "idle"
        BY <1>1, <3>1, OthersIdle DEF StoreInv, CallsFit, CallFits
      <3>3. redis = sqlite /\ sqlite # 0 /\ Readable(sqlite)
        BY <2>2, <3>1, <3>2 DEF StoreInv, Agreeing, HalfDone, RowKept
      <3> QED BY <3>1, <3>3 DEF StoreInv, NotOlder, Superseded
    <2>3. CASE lastGet' # lastGet /\ acked = {}
      BY <2>3
    <2> QED BY <2>1, <2>2, <2>3
  <1> QED BY <1>4, <1>5, <1>6, <1>7, <1>9, <1>10, <1>11, <1>13, <1>14, <1>15 DEF StoreInv

(* A read takes the copy of Redis, or goes on to SQLite.                    *)
LEMMA BeginGetStep == ASSUME StoreInv, NEW t \in StoreThreads, BeginGet(t) PROVE StoreInv'
  <1>1. /\ storeCall[t].pc = "idle" /\ t \in storeCfg.threads
        /\ UNCHANGED <<storeCfg, redis, sqlite, redisUp, storeLock, sets, outages, migrations, acked, before, missed>>
    BY DEF BeginGet, At
  <1>2. StoreTypeOK /\ storeCall[t].op = "idle" /\ storeCall[t] \in StoreCalls /\ acked \subseteq Versions
        /\ storeCall[t].seen \subseteq acked
    <2>1. StoreTypeOK /\ CallFits(storeCall[t])
      BY DEF StoreInv, CallsFit
    <2> QED BY <1>1, <2>1, StoreCallFields DEF CallFits, StoreCalls, StoreTypeOK
  <1>3. CASE redisUp /\ Readable(redis)
    <2>1. lastGet' = [v |-> redis, seen |-> acked] /\ storeCall' = storeCall
      BY <1>3 DEF BeginGet
    <2>2. storeCall' = [storeCall EXCEPT ![t] = storeCall[t]]
      BY <1>2, <2>1 DEF StoreTypeOK
    <2> DEFINE c == storeCall[t]
    <2>3. c \in StoreCalls /\ c.op = "idle" /\ c.pc = "idle" /\ c.seen \subseteq acked
      BY <1>1, <1>2
    <2> HIDE DEF c
    <2>4. storeCall' = [storeCall EXCEPT ![t] = c]
      BY <2>2 DEF c
    <2> QED BY <1>1, <1>2, <1>3, <2>1, <2>3, <2>4, QuietStep
  <1>4. CASE ~(redisUp /\ Readable(redis))
    <2> DEFINE c == [op |-> "get", pc |-> "read", v |-> 0, seen |-> acked]
    <2>1. storeCall' = [storeCall EXCEPT ![t] = c] /\ lastGet' = lastGet
      BY <1>4 DEF BeginGet
    <2>2. c \in StoreCalls
      BY <1>2, StoreValues DEF StoreCalls, Copies
    <2>3. c.op = "get" /\ c.pc = "read" /\ c.v = 0 /\ c.seen = acked
      OBVIOUS
    <2> HIDE DEF c
    <2> QED BY <1>1, <1>2, <2>1, <2>2, <2>3, StoreValues, QuietStep
  <1> QED BY <1>3, <1>4

(* A read of SQLite finds a row, or the defaults are to be stored.          *)
LEMMA ReadSqliteStep == ASSUME StoreInv, NEW t \in StoreThreads, ReadSqlite(t) PROVE StoreInv'
  <1>1. /\ storeCall[t].pc = "read" /\ lastGet' = lastGet
        /\ UNCHANGED <<storeCfg, redis, sqlite, redisUp, storeLock, sets, outages, migrations, acked, before, missed>>
        /\ IF Readable(sqlite) THEN Goto(t, "repair", sqlite) ELSE Goto(t, FirstWrite, 0)
    BY DEF ReadSqlite, At, history
  <1>2. StoreTypeOK /\ storeCall[t].op = "get" /\ t \in storeCfg.threads /\ storeCall[t].seen \subseteq acked
        /\ (OneThread => storeCall[t].seen = acked) /\ sqlite \in Copies
    <2>1. StoreTypeOK /\ CallFits(storeCall[t]) /\ (storeCall[t].op # "idle" => t \in storeCfg.threads)
      BY DEF StoreInv, CallsFit
    <2>2. storeCall[t] \in StoreCalls
      BY <2>1, StoreCallFields
    <2>3. storeCall[t].op = "get"
      BY <1>1, <2>1, <2>2 DEF CallFits, StoreCalls
    <2> QED BY <2>1, <2>3 DEF CallFits, StoreInv, Single, StoreTypeOK
  <1>3. PICK c \in StoreCalls :
          /\ storeCall' = [storeCall EXCEPT ![t] = c] /\ c.op = "get" /\ c.seen = storeCall[t].seen
          /\ Readable(sqlite) => c.pc = "repair" /\ c.v = sqlite
          /\ ~Readable(sqlite) => c.pc = FirstWrite /\ c.v = 0
    <2>1. CASE Readable(sqlite)
      BY <1>1, <1>2, <2>1, StoreGoes
    <2>2. CASE ~Readable(sqlite)
      <3>1. FirstWrite \in {"redis", "sqlite"} /\ 0 \in Copies
        BY StoreValues DEF FirstWrite, Copies
      <3> QED BY <1>1, <1>2, <2>2, <3>1, StoreGoes
    <2> QED BY <2>1, <2>2
  <1>4. FirstWrite \in {"redis", "sqlite"}
    BY DEF FirstWrite
  <1>5. c.pc \in {"read", "repair", "redis", "sqlite"} /\ c.v \in Versions
        /\ (c.pc \in {"redis", "sqlite"} => c.v = 0 /\ c.pc = FirstWrite /\ ~Readable(sqlite)) /\ (c.pc = "repair" => c.v = sqlite)
    BY <1>2, <1>3, <1>4, StoreValues
  <1> QED BY <1>1, <1>2, <1>3, <1>5, QuietStep

(* The row read is copied to Redis.                                         *)
LEMMA RepairStep == ASSUME StoreInv, NEW t \in StoreThreads, RepairRedis(t) PROVE StoreInv'
  <1> DEFINE v == storeCall[t].v
  <1>1. PICK ok \in BOOLEAN : RedisWrite(v, ok)
    BY DEF RepairRedis, RepairValue
  <1>2. storeCall[t].pc = "repair" /\ Finish(t) /\ UNCHANGED <<storeCfg, sqlite, redisUp, storeLock, outages, migrations>>
    BY DEF RepairRedis, At
  <1>3. /\ StoreTypeOK /\ storeCall[t].op = "get" /\ v \in Versions /\ t \in storeCfg.threads /\ storeCall[t].seen \subseteq acked
        /\ lastGet \in [v : Versions, seen : SUBSET Versions] /\ storeCall[t].seen \subseteq Versions /\ missed \in BOOLEAN
    <2>1. StoreTypeOK /\ CallFits(storeCall[t]) /\ (storeCall[t].op # "idle" => t \in storeCfg.threads)
      BY DEF StoreInv, CallsFit
    <2>2. storeCall[t] \in StoreCalls /\ lastGet \in [v : Versions, seen : SUBSET Versions]
          /\ acked \subseteq Versions /\ missed \in BOOLEAN
      BY <2>1, StoreCallFields DEF StoreTypeOK
    <2> QED BY <1>2, <2>1, <2>2 DEF CallFits, StoreCalls
  <1>4. /\ storeCall' = [storeCall EXCEPT ![t] = IdleCall] /\ UNCHANGED <<sets, acked, before>>
        /\ lastGet' = [v |-> v, seen |-> storeCall[t].seen]
    BY <1>2, <1>3 DEF Finish
  <1>5. /\ storeCall' \in [StoreThreads -> StoreCalls] /\ storeCall'[t] = IdleCall
        /\ \A u \in StoreThreads : u # t => storeCall'[u] = storeCall[u]
    BY <1>3, <1>4, StoreMoved, IdleFits
  <1>6. /\ redis' \in {redis, v} /\ missed' \in BOOLEAN /\ (~missed' => ~missed /\ redis' = v) /\ (missed => missed')
    BY <1>1, <1>3, RedisWritten
  <1>7. StoreTypeOK'
    <2>1. lastGet' \in [v : Versions, seen : SUBSET Versions] /\ redis' \in Copies
      BY <1>3, <1>4, <1>6 DEF StoreTypeOK, Copies
    <2> QED BY <1>2, <1>3, <1>4, <1>5, <1>6, <2>1 DEF StoreTypeOK, StoreCalls, Versions, Copies
  <1>8. CallsFit'
    BY <1>2, <1>4, <1>5, IdleFits DEF StoreInv, CallsFit, CallFits
  <1>9. WritesApart'
    BY <1>5, IdleFits DEF StoreInv, WritesApart
  <1>10. Past'
    BY <1>3, <1>4 DEF StoreInv, Past
  <1>11. Locked'
    <2>1. Readable(redis) => Readable(redis')
      BY <1>3, <1>6, StoreValues DEF Readable
    <2> QED BY <1>2, <1>3, <1>5, <2>1, IdleFits DEF StoreInv, Locked, Readable
  <1>12. NotOlder'
    BY <1>2, <1>4, <1>5, IdleFits DEF StoreInv, NotOlder, Durable, Readable, Superseded
  <1>13. Single'
    BY <1>2, <1>4, <1>5, IdleFits DEF StoreInv, Single, OneThread
  <1>14. Agreeing'
    <2> SUFFICES ASSUME Durable, OneThread, ~missed' PROVE Agreeing'
      BY <1>2 DEF Agreeing, OneThread, Durable
    <2>1. \A u \in StoreThreads : storeCall'[u].pc = "idle"
      BY <1>3, <1>5, OthersIdle, IdleFits DEF StoreInv
    <2>2. redis' = sqlite
      BY <1>2, <1>6 DEF StoreInv, Single
    <2> QED BY <1>2, <2>1, <2>2 DEF Agreeing
  <1>15. RowKept'
    BY <1>2, <1>4, <1>5, IdleFits DEF StoreInv, RowKept, Durable, OneThread, RowsKept, Readable
  <1>16. ReadsLatest'
    <2> SUFFICES ASSUME Durable, OneThread, RowsKept, ~missed' PROVE \A w \in lastGet'.seen : lastGet'.v \notin before[w]
      BY <1>2, <1>4 DEF ReadsLatest, OneThread, Durable, RowsKept
    <2>1. v = sqlite /\ lastGet'.v = v /\ lastGet'.seen = acked
      BY <1>2, <1>3, <1>4 DEF StoreInv, Single
    <2>2. acked # {} => Readable(sqlite) /\ sqlite # 0
      BY DEF StoreInv, RowKept
    <2> QED BY <2>1, <2>2 DEF StoreInv, NotOlder, Superseded
  <1> QED BY <1>7, <1>8, <1>9, <1>10, <1>11, <1>12, <1>13, <1>14, <1>15, <1>16 DEF StoreInv

(* The migration takes the lock and reads the row.                          *)
LEMMA BeginMigrateStep == ASSUME StoreInv, NEW t \in StoreThreads, BeginMigrate(t) PROVE StoreInv'
  <1> DEFINE c == [op |-> "migrate", pc |-> "copy", v |-> sqlite, seen |-> acked]
  <1>1. /\ storeCall[t].pc = "idle" /\ t \in storeCfg.threads /\ migrations < MaxMigrations /\ LockFree(t)
        /\ storeLock' = t /\ migrations' = migrations + 1 /\ storeCall' = [storeCall EXCEPT ![t] = c]
        /\ UNCHANGED <<storeCfg, redis, sqlite, redisUp, outages, missed, sets, acked, before, lastGet>>
    BY DEF BeginMigrate, At, history
  <1>2. /\ StoreTypeOK /\ storeCall[t].op = "idle" /\ migrations \in 0 .. MaxMigrations /\ sqlite \in Copies
        /\ acked \subseteq Versions
    <2>1. StoreTypeOK /\ CallFits(storeCall[t]) /\ storeCall[t] \in StoreCalls
      BY StoreCallFields DEF StoreInv, CallsFit
    <2> QED BY <1>1, <2>1 DEF CallFits, StoreCalls, StoreTypeOK
  <1>3. c \in StoreCalls /\ c.op = "migrate" /\ c.pc = "copy" /\ c.v = sqlite /\ c.seen = acked
    BY <1>2 DEF StoreCalls
  <1> HIDE DEF c
  <1>4. /\ storeCall' \in [StoreThreads -> StoreCalls] /\ storeCall'[t] = c
        /\ \A u \in StoreThreads : u # t => storeCall'[u] = storeCall[u]
    BY <1>1, <1>2, <1>3, StoreMoved
  <1>5. \A u \in StoreThreads : storeCall[u].op # "migrate"
    BY <1>1, <1>2, StoreValues DEF StoreInv, Locked, LockFree
  <1>6. \A u \in StoreThreads : storeCall[u].pc # "clear"
    BY <1>2, <1>5, StoreCallFields DEF StoreInv, CallsFit, CallFits, StoreCalls
  <1>7. StoreTypeOK'
    <2>1. migrations' \in 0 .. MaxMigrations
      BY <1>1, <1>2, StoreValues
    <2> QED BY <1>1, <1>2, <1>4, <2>1 DEF StoreTypeOK, StoreCalls, Versions, Copies
  <1>8. CallsFit'
    BY <1>1, <1>3, <1>4 DEF StoreInv, CallsFit, CallFits
  <1>9. WritesApart'
    BY <1>3, <1>4 DEF StoreInv, WritesApart
  <1>10. Past'
    BY <1>1 DEF StoreInv, Past
  <1>11. Locked'
    <2>1. migrations' > 0
      BY <1>1, <1>2
    <2> QED BY <1>1, <1>3, <1>4, <1>5, <1>6, <2>1 DEF Locked
  <1>12. NotOlder'
    BY <1>1, <1>3, <1>4 DEF StoreInv, NotOlder, Durable, Readable, Superseded
  <1>13. Single'
    BY <1>1, <1>3, <1>4 DEF StoreInv, Single, OneThread
  <1>14. Agreeing'
    BY <1>1, <1>3, <1>4 DEF StoreInv, Agreeing, HalfDone, Durable, OneThread, Readable
  <1>15. RowsKept' => RowsKept
    BY <1>1, <1>2 DEF RowsKept
  <1>16. RowKept'
    BY <1>1, <1>3, <1>4, <1>15 DEF StoreInv, RowKept, Durable, OneThread, Readable
  <1>17. ReadsLatest'
    BY <1>1, <1>15 DEF StoreInv, ReadsLatest, Durable, OneThread
  <1> QED BY <1>7, <1>8, <1>9, <1>10, <1>11, <1>12, <1>13, <1>14, <1>16, <1>17 DEF StoreInv

(* The migration copies the row it read.                                    *)
LEMMA CopyRowStep == ASSUME StoreInv, NEW t \in StoreThreads, CopyRow(t) PROVE StoreInv'
  <1> DEFINE v == storeCall[t].v
  <1>1. PICK ok \in BOOLEAN :
          /\ RedisWrite(v, ok)
          /\ IF ClearsAfter(ok) THEN Goto(t, "clear", v) /\ UNCHANGED <<storeLock, history>>
             ELSE Finish(t) /\ storeLock' = NoCopy
    BY DEF CopyRow
  <1>2. storeCall[t].pc = "copy" /\ UNCHANGED <<storeCfg, sqlite, redisUp, outages, migrations>>
    BY DEF CopyRow, At
  <1>3. /\ StoreTypeOK /\ storeCall[t].op = "migrate" /\ v \in Copies /\ t \in storeCfg.threads /\ missed \in BOOLEAN
        /\ storeCall[t].seen \subseteq acked /\ storeLock = t /\ v = sqlite
    <2>1. StoreTypeOK /\ CallFits(storeCall[t]) /\ (storeCall[t].op # "idle" => t \in storeCfg.threads)
      BY DEF StoreInv, CallsFit
    <2>2. storeCall[t] \in StoreCalls /\ missed \in BOOLEAN
      BY <2>1, StoreCallFields DEF StoreTypeOK
    <2>3. storeCall[t].op = "migrate"
      BY <1>2, <2>1, <2>2 DEF CallFits, StoreCalls
    <2> QED BY <2>1, <2>2, <2>3 DEF CallFits, StoreCalls, StoreInv, Locked
  <1>4. PICK c \in StoreCalls :
          /\ storeCall' = [storeCall EXCEPT ![t] = c]
          /\ ~ClearsAfter(ok) => c = IdleCall /\ storeLock' = NoCopy
          /\ ClearsAfter(ok) => c.op = "migrate" /\ c.pc = "clear" /\ c.v = v /\ c.seen = storeCall[t].seen /\ storeLock' = storeLock
    <2>1. CASE ~ClearsAfter(ok)
      BY <1>1, <2>1, IdleFits DEF Finish
    <2>2. CASE ClearsAfter(ok)
      BY <1>1, <1>3, <2>2, StoreGoes
    <2> QED BY <2>1, <2>2
  <1>5. /\ storeCall' \in [StoreThreads -> StoreCalls] /\ storeCall'[t] = c
        /\ \A u \in StoreThreads : u # t => storeCall'[u] = storeCall[u]
    BY <1>3, <1>4, StoreMoved
  <1>6. UNCHANGED <<sets, acked, before, lastGet>>
    BY <1>1, <1>3 DEF Finish, history
  <1>7. /\ redis' \in {redis, v} /\ missed' \in BOOLEAN /\ (~missed' => ~missed /\ redis' = v) /\ (missed => missed')
        /\ (ok => redis' = v)
    BY <1>1, <1>3, RedisWritten
  <1>8. \A u \in StoreThreads : u # t => storeCall[u].op # "migrate" /\ storeCall[u].pc # "clear"
    <2>1. \A u \in StoreThreads : u # t => storeCall[u].op # "migrate"
      BY <1>3 DEF StoreInv, Locked
    <2> QED BY <1>3, <2>1, StoreCallFields DEF StoreInv, CallsFit, CallFits, StoreCalls
  <1>9. StoreTypeOK'
    <2>1. redis' \in Copies /\ storeLock' \in StoreThreads \cup {NoCopy}
      BY <1>3, <1>4, <1>7 DEF StoreTypeOK
    <2> QED BY <1>2, <1>3, <1>5, <1>6, <1>7, <2>1 DEF StoreTypeOK, StoreCalls, Versions, Copies
  <1>10. CallsFit'
    <2>1. CallFits(storeCall[t])'
      BY <1>3, <1>4, <1>5, <1>6, IdleFits DEF CallFits
    <2> QED BY <1>2, <1>3, <1>5, <1>6, <2>1 DEF StoreInv, CallsFit, CallFits
  <1>11. WritesApart'
    BY <1>3, <1>4, <1>5, IdleFits DEF StoreInv, WritesApart
  <1>12. Past'
    BY <1>6 DEF StoreInv, Past
  <1>13. Locked'
    <2>1. CASE ~ClearsAfter(ok)
      BY <1>4, <1>5, <1>8, <2>1, IdleFits, StoreValues DEF Locked
    <2>2. CASE ClearsAfter(ok)
      <3>1. storeCfg.clear /\ redis' = sqlite /\ c.v = sqlite /\ c.op = "migrate" /\ storeLock' = t
        BY <1>3, <1>4, <1>7, <2>2 DEF ClearsAfter
      <3>2. migrations > 0
        BY <1>3 DEF StoreInv, Locked
      <3> QED BY <1>2, <1>4, <1>5, <1>8, <2>2, <3>1, <3>2 DEF Locked, Readable
    <2> QED BY <2>1, <2>2
  <1>14. NotOlder'
    BY <1>2, <1>3, <1>4, <1>5, <1>6, IdleFits DEF StoreInv, NotOlder, Durable, Readable, Superseded
  <1>15. Single'
    BY <1>2, <1>3, <1>4, <1>5, <1>6, IdleFits DEF StoreInv, Single, OneThread
  <1>16. Agreeing'
    <2> SUFFICES ASSUME Durable, OneThread, ~missed' PROVE Agreeing'
      BY <1>2 DEF Agreeing, OneThread, Durable
    <2>1. \A u \in StoreThreads : storeCall'[u].pc # "sqlite"
      BY <1>3, <1>4, <1>5, OthersIdle, IdleFits DEF StoreInv
    <2>2. redis' = sqlite
      BY <1>3, <1>7
    <2> QED BY <1>2, <2>1, <2>2 DEF Agreeing
  <1>17. RowKept'
    BY <1>2, <1>3, <1>4, <1>5, <1>6, IdleFits DEF StoreInv, RowKept, Durable, OneThread, RowsKept, Readable
  <1>18. ReadsLatest'
    BY <1>2, <1>6, <1>7 DEF StoreInv, ReadsLatest, Durable, OneThread, RowsKept
  <1> QED BY <1>9, <1>10, <1>11, <1>12, <1>13, <1>14, <1>15, <1>16, <1>17, <1>18 DEF StoreInv

(* The migration deletes the row it has copied.                             *)
LEMMA ClearRowStep == ASSUME StoreInv, NEW t \in StoreThreads, ClearRow(t) PROVE StoreInv'
  <1>1. /\ storeCall[t].pc = "clear" /\ sqlite' = NoCopy /\ storeLock' = NoCopy /\ Finish(t)
        /\ UNCHANGED <<storeCfg, redis, redisUp, outages, migrations, missed>>
    BY DEF ClearRow, At
  <1>2. StoreTypeOK /\ storeCall[t].op = "migrate" /\ t \in storeCfg.threads /\ storeCfg.clear /\ migrations > 0 /\ storeLock = t
    <2>1. StoreTypeOK /\ CallFits(storeCall[t]) /\ (storeCall[t].op # "idle" => t \in storeCfg.threads)
      BY DEF StoreInv, CallsFit
    <2>2. storeCall[t] \in StoreCalls
      BY <2>1, StoreCallFields
    <2>3. storeCall[t].op = "migrate"
      BY <1>1, <2>1, <2>2 DEF CallFits, StoreCalls
    <2> QED BY <1>1, <2>1, <2>3 DEF StoreInv, Locked
  <1>3. storeCall' = [storeCall EXCEPT ![t] = IdleCall] /\ UNCHANGED <<sets, acked, before, lastGet>>
    BY <1>1, <1>2 DEF Finish
  <1>4. /\ storeCall' \in [StoreThreads -> StoreCalls] /\ storeCall'[t] = IdleCall
        /\ \A u \in StoreThreads : u # t => storeCall'[u] = storeCall[u]
    BY <1>2, <1>3, StoreMoved, IdleFits
  <1>5. \A u \in StoreThreads : u # t => storeCall[u].op # "migrate" /\ storeCall[u].pc # "clear"
    <2>1. \A u \in StoreThreads : u # t => storeCall[u].op # "migrate"
      BY <1>2 DEF StoreInv, Locked
    <2> QED BY <1>2, <2>1, StoreCallFields DEF StoreInv, CallsFit, CallFits, StoreCalls
  <1>6. ~Readable(NoCopy)
    BY DEF Readable
  <1>7. StoreTypeOK'
    BY <1>1, <1>2, <1>3, <1>4 DEF StoreTypeOK, StoreCalls, Versions, Copies
  <1>8. CallsFit'
    BY <1>1, <1>3, <1>4, IdleFits DEF StoreInv, CallsFit, CallFits
  <1>9. WritesApart'
    BY <1>4, IdleFits DEF StoreInv, WritesApart
  <1>10. Past'
    BY <1>3 DEF StoreInv, Past
  <1>11. Locked'
    BY <1>1, <1>4, <1>5, IdleFits, StoreValues DEF Locked
  <1>12. NotOlder'
    BY <1>1, <1>6 DEF NotOlder, Readable
  <1>13. Single' /\ Agreeing'
    <2> SUFFICES ASSUME OneThread PROVE Single' /\ Agreeing'
      BY <1>1 DEF Single, Agreeing, OneThread
    <2>1. \A u \in StoreThreads : storeCall'[u].op = "idle" /\ storeCall'[u].pc = "idle"
      BY <1>2, <1>4, OthersIdle, IdleFits DEF StoreInv
    <2> QED BY <1>1, <2>1 DEF Single, Agreeing, Readable
  <1>14. RowKept'
    BY <1>1, <1>2 DEF StoreInv, StoreTypeOK, RowKept, RowsKept
  <1>15. ReadsLatest'
    BY <1>1, <1>3 DEF StoreInv, ReadsLatest, Durable, OneThread, RowsKept
  <1> QED BY <1>7, <1>8, <1>9, <1>10, <1>11, <1>12, <1>13, <1>14, <1>15 DEF StoreInv

(* Redis stops answering and answers again.                                 *)
LEMMA RedisDownStep == ASSUME StoreInv, RedisDown \/ RedisAnswers PROVE StoreInv'
  <1>1. UNCHANGED <<storeCfg, redis, sqlite, storeLock, storeCall, migrations, missed, sets, acked, before, lastGet>>
    BY DEF RedisDown, RedisAnswers, history
  <1>2. redisUp' \in BOOLEAN /\ outages' \in 0 .. MaxOutages
    <2>1. outages \in 0 .. MaxOutages
      BY DEF StoreInv, StoreTypeOK
    <2>2. CASE RedisDown
      <3>1. redisUp' = FALSE /\ outages' = outages + 1 /\ outages < MaxOutages
        BY <2>2 DEF RedisDown
      <3>2. MaxOutages \in Nat
        BY StoreValues
      <3>3. outages + 1 \in 0 .. MaxOutages
        BY <2>1, <3>1, <3>2
      <3> QED BY <3>1, <3>3
    <2>3. CASE RedisAnswers
      <3>1. redisUp' = TRUE /\ outages' = outages
        BY <2>3 DEF RedisAnswers
      <3> QED BY <2>1, <3>1
    <2> QED BY <2>2, <2>3
  <1>3. StoreTypeOK'
    BY <1>1, <1>2 DEF StoreInv, StoreTypeOK, Versions, Copies
  <1>4. CallsFit' /\ WritesApart' /\ Past'
    BY <1>1 DEF StoreInv, CallsFit, CallFits, WritesApart, Past
  <1>5. Locked' /\ NotOlder' /\ Single'
    BY <1>1 DEF StoreInv, Locked, NotOlder, Single, Durable, Readable, Superseded, OneThread
  <1>6. Agreeing' /\ RowKept' /\ ReadsLatest'
    BY <1>1 DEF StoreInv, Agreeing, HalfDone, RowKept, ReadsLatest, Durable, Readable, OneThread, RowsKept
  <1> QED BY <1>3, <1>4, <1>5, <1>6 DEF StoreInv

(* A key that expires leaves a copy of nothing.                             *)
LEMMA KeyExpiresStep == ASSUME StoreInv, KeyExpires PROVE StoreInv'
  <1>1. /\ storeCfg.ttl /\ redis' = NoCopy
        /\ UNCHANGED <<storeCfg, redisUp, outages, sqlite, storeLock, storeCall, migrations, missed, sets, acked, before, lastGet>>
    BY DEF KeyExpires, history
  <1>2. StoreTypeOK'
    BY <1>1 DEF StoreInv, StoreTypeOK, Versions, Copies
  <1>3. CallsFit' /\ WritesApart' /\ Past'
    BY <1>1 DEF StoreInv, CallsFit, CallFits, WritesApart, Past
  <1>4. Locked'
    BY <1>1 DEF StoreInv, Locked, Readable
  <1>5. NotOlder' /\ Single'
    BY <1>1 DEF StoreInv, NotOlder, Single, Durable, Readable, Superseded, OneThread
  <1>6. Agreeing'
    BY <1>1 DEF StoreInv, Agreeing, HalfDone, Durable, Readable, OneThread
  <1>7. RowKept' /\ ReadsLatest'
    BY <1>1 DEF StoreInv, RowKept, ReadsLatest, Durable, Readable, OneThread, RowsKept
  <1> QED BY <1>2, <1>3, <1>4, <1>5, <1>6, <1>7 DEF StoreInv

(* A restart ends every call where it is; a write cut short is a missed     *)
(* one.                                                                     *)
LEMMA RestartStep == ASSUME StoreInv, StoreRestart PROVE StoreInv'
  <1>1. /\ storeCall' = [t \in StoreThreads |-> IdleCall] /\ storeLock' = NoCopy
        /\ missed' = (missed \/ \E t \in StoreThreads : storeCall[t].pc \in {"redis", "sqlite"})
        /\ UNCHANGED <<storeCfg, redis, redisUp, outages, sqlite, migrations, sets, acked, before, lastGet>>
    BY DEF StoreRestart, history
  <1>2. storeCall' \in [StoreThreads -> StoreCalls] /\ \A t \in StoreThreads : storeCall'[t] = IdleCall
    BY <1>1, IdleFits
  <1>3. missed' \in BOOLEAN /\ (~missed' => ~missed /\ \A t \in StoreThreads : storeCall[t].pc \notin {"redis", "sqlite"})
    BY <1>1 DEF StoreInv, StoreTypeOK
  <1>4. \A t \in StoreThreads : storeCall'[t].op = "idle" /\ storeCall'[t].pc = "idle" /\ storeCall'[t].seen = {}
    BY <1>2, IdleFits
  <1>5. StoreTypeOK'
    BY <1>1, <1>2, <1>3 DEF StoreInv, StoreTypeOK, StoreCalls, Versions, Copies
  <1>6. CallsFit' /\ WritesApart' /\ Past'
    BY <1>1, <1>4 DEF StoreInv, CallsFit, CallFits, WritesApart, Past
  <1>7. Locked'
    BY <1>1, <1>4, StoreValues DEF Locked
  <1>8. NotOlder' /\ Single'
    BY <1>1, <1>4 DEF StoreInv, NotOlder, Single, Durable, Readable, Superseded, OneThread
  <1>9. Agreeing'
    BY <1>1, <1>3, <1>4 DEF StoreInv, Agreeing, HalfDone, Durable, Readable, OneThread
  <1>10. RowKept' /\ ReadsLatest'
    BY <1>1, <1>3, <1>4 DEF StoreInv, RowKept, ReadsLatest, Durable, Readable, OneThread, RowsKept
  <1> QED BY <1>5, <1>6, <1>7, <1>8, <1>9, <1>10 DEF StoreInv

(* Nothing happens.                                                         *)
LEMMA StoreStutter == ASSUME StoreInv, UNCHANGED storeVars PROVE StoreInv'
  <1>1. UNCHANGED <<storeCfg, redis, sqlite, redisUp, storeLock, storeCall, sets, outages, migrations, acked, before,
                    missed, lastGet>>
    BY DEF storeVars
  <1>2. StoreTypeOK' /\ CallsFit' /\ WritesApart' /\ Past'
    BY <1>1 DEF StoreInv, StoreTypeOK, Versions, Copies, CallsFit, CallFits, WritesApart, Past
  <1>3. Locked' /\ NotOlder' /\ Single'
    BY <1>1 DEF StoreInv, Locked, NotOlder, Single, Durable, Readable, Superseded, OneThread
  <1>4. Agreeing' /\ RowKept' /\ ReadsLatest'
    BY <1>1 DEF StoreInv, Agreeing, HalfDone, RowKept, ReadsLatest, Durable, Readable, OneThread, RowsKept
  <1> QED BY <1>2, <1>3, <1>4 DEF StoreInv

(* The invariant holds at the start, whatever the copies are.               *)
LEMMA StoreStarts == ASSUME StoreInit PROVE StoreInv
  <1>1. /\ storeCfg \in StoreConfigs /\ redisUp = TRUE /\ storeLock = NoCopy /\ storeCall = [t \in StoreThreads |-> IdleCall]
        /\ sets = 0 /\ outages = 0 /\ migrations = 0 /\ acked = {} /\ before = [v \in Versions |-> {}] /\ missed = FALSE
        /\ lastGet = [v |-> 0, seen |-> {}]
    BY DEF StoreInit
  <1>2. /\ redis \in Copies /\ sqlite \in Copies
        /\ Readable(redis) /\ Readable(sqlite) => redis = sqlite
        /\ Readable(sqlite) => sqlite = 0
    BY StoreValues DEF StoreInit, Copies, Readable
  <1>3. storeCall \in [StoreThreads -> StoreCalls] /\ \A t \in StoreThreads : storeCall[t] = IdleCall
    BY <1>1, IdleFits
  <1>4. \A t \in StoreThreads : storeCall[t].op = "idle" /\ storeCall[t].pc = "idle" /\ storeCall[t].seen = {}
    BY <1>3, IdleFits
  <1>5. lastGet \in [v : Versions, seen : SUBSET Versions] /\ before \in [Versions -> SUBSET Versions]
    BY <1>1, StoreValues
  <1>6. StoreTypeOK
    <2>1. sets \in Versions /\ outages \in 0 .. MaxOutages /\ migrations \in 0 .. MaxMigrations
      BY <1>1, StoreValues
    <2> QED BY <1>1, <1>2, <1>3, <1>5, <2>1 DEF StoreTypeOK, StoreCalls
  <1>7. CallsFit /\ WritesApart
    BY <1>1, <1>4 DEF CallsFit, CallFits, WritesApart
  <1>8. Past
    BY <1>1 DEF Past
  <1>9. Locked
    BY <1>1, <1>4, StoreValues DEF Locked
  <1>10. NotOlder /\ Single
    BY <1>1, <1>2, <1>4 DEF NotOlder, Single
  <1>11. Agreeing
    BY <1>1, <1>2, <1>4 DEF Agreeing
  <1>12. RowKept /\ ReadsLatest
    BY <1>1, <1>4 DEF RowKept, ReadsLatest
  <1> QED BY <1>6, <1>7, <1>8, <1>9, <1>10, <1>11, <1>12 DEF StoreInv

(* Every step keeps the invariant.                                          *)
LEMMA StoreSteps == StoreInv /\ [StoreNext]_storeVars => StoreInv'
  <1> SUFFICES ASSUME StoreInv, [StoreNext]_storeVars PROVE StoreInv'
    OBVIOUS
  <1>1. CASE UNCHANGED storeVars
    BY <1>1, StoreStutter
  <1>2. CASE RedisDown \/ RedisAnswers
    BY <1>2, RedisDownStep
  <1>3. CASE KeyExpires
    BY <1>3, KeyExpiresStep
  <1>4. CASE StoreRestart
    BY <1>4, RestartStep
  <1>5. ASSUME NEW t \in StoreThreads,
               BeginSet(t) \/ SetRedis(t) \/ SetSqlite(t) \/ BeginGet(t) \/ ReadSqlite(t) \/ RepairRedis(t)
               \/ BeginMigrate(t) \/ CopyRow(t) \/ ClearRow(t)
        PROVE  StoreInv'
    BY <1>5, BeginSetStep, SetRedisStep, SetSqliteStep, BeginGetStep, ReadSqliteStep, RepairStep, BeginMigrateStep,
       CopyRowStep, ClearRowStep
  <1> QED BY <1>1, <1>2, <1>3, <1>4, <1>5 DEF StoreNext

(* The invariant implies what the run checks of every state.                *)
LEMMA StoreInvHolds == StoreInv => StoreTypeOK /\ SqliteNeverOlder /\ CopiesAgree /\ ReadsLatest /\ AckedSurvives
  <1> SUFFICES ASSUME StoreInv PROVE StoreTypeOK /\ SqliteNeverOlder /\ CopiesAgree /\ ReadsLatest /\ AckedSurvives
    OBVIOUS
  <1>1. SqliteNeverOlder
    BY DEF StoreInv, NotOlder, SqliteNeverOlder
  <1>2. CopiesAgree
    BY DEF StoreInv, Agreeing, HalfDone, CopiesAgree, StoreQuiet, At
  <1>3. AckedSurvives
    BY DEF StoreInv, RowKept, AckedSurvives
  <1> QED BY <1>1, <1>2, <1>3 DEF StoreInv

(* Only the migration deletes a row, and it knows of the other copy.        *)
LEMMA ClearsKeepCopy ==
  StoreInv /\ [StoreNext]_storeVars => [Readable(sqlite) /\ sqlite' = NoCopy => storeCfg.ttl \/ Readable(redis)]_storeVars
  <1> SUFFICES ASSUME StoreInv, StoreNext, Readable(sqlite), sqlite' = NoCopy
               PROVE  storeCfg.ttl \/ Readable(redis)
    BY DEF storeVars, Readable
  <1>1. sqlite' # sqlite
    BY DEF Readable
  <1>2. PICK t \in StoreThreads : SetSqlite(t) \/ ClearRow(t)
    BY <1>1 DEF StoreNext, BeginSet, SetRedis, BeginGet, ReadSqlite, RepairRedis, BeginMigrate, CopyRow, RedisDown,
                RedisAnswers, KeyExpires, StoreRestart
  <1>3. ~SetSqlite(t)
    <2> SUFFICES ASSUME SetSqlite(t) PROVE FALSE
      OBVIOUS
    <2>1. storeCall[t].pc = "sqlite" /\ storeCall[t].v = NoCopy
      BY DEF SetSqlite, At
    <2>2. StoreTypeOK /\ CallFits(storeCall[t]) /\ storeCall[t] \in StoreCalls /\ sets \in 0 .. MaxSets
      BY StoreCallFields DEF StoreInv, CallsFit, StoreTypeOK, Versions
    <2>3. storeCall[t].v \in Versions
      BY <2>1, <2>2, StoreValues DEF CallFits, StoreCalls, Versions
    <2> QED BY <2>1, <2>3, StoreValues
  <1> QED BY <1>2, <1>3 DEF ClearRow, At, StoreInv, Locked

(* All of it: two copies of the secure state (state_store.py), for any      *)
(* threads, configurations and bounds.                                      *)
THEOREM SecureStateStaysKept == StoreSpec => SecureStateKept
  <1> DEFINE Good == StoreTypeOK /\ SqliteNeverOlder /\ CopiesAgree /\ ReadsLatest /\ AckedSurvives
             Keeps == Readable(sqlite) /\ sqlite' = NoCopy => storeCfg.ttl \/ Readable(redis)
  <1>1. StoreInit => StoreInv
    BY StoreStarts
  <1>2. StoreInv /\ [StoreNext]_storeVars => StoreInv'
    BY StoreSteps
  <1>3. StoreInv => Good
    BY StoreInvHolds
  <1>4. StoreInv /\ [StoreNext]_storeVars => [Keeps]_storeVars
    BY ClearsKeepCopy
  <1>5. SecureStateKept <=> []Good /\ [][Keeps]_storeVars
    BY DEF SecureStateKept, ClearKeepsCopy
  <1> HIDE DEF Good, Keeps
  <1> QED BY <1>1, <1>2, <1>3, <1>4, <1>5, PTL DEF StoreSpec

-----------------------------------------------------------------------------
(* Training and testing of models: StudyInv is inductive. *)

(* A list of lists, one after the other, is made by appending them in turn. *)
ListOfLists(seqs, A) == seqs \in Seq(Seq(A)) /\ Len(seqs) # 0
AppendedInTurn(seqs, A, q) ==
  \E g \in [1 .. Len(seqs) -> Seq(A)] :
    g[1] = seqs[1] /\ (\A i \in 2 .. Len(seqs) : g[i] = g[i - 1] \o seqs[i]) /\ q = g[Len(seqs)]

LEMMA FlattenSteps ==
  ASSUME NEW A, NEW seqs, ListOfLists(seqs, A)
  PROVE  AppendedInTurn(seqs, A, FlattenSeq(seqs))
  <1> DEFINE n == Len(seqs)
             F == [x \in (1 .. n - 1) \X Seq(A) |-> x[2] \o seqs[x[1] + 1]]
             Fits(f) == f = [i \in 1 .. Len(seqs) |-> IF i = 1 THEN seqs[i] ELSE f[i - 1] \o seqs[i]]
  <1>0. n \in Nat \ {0} /\ DOMAIN seqs = 1 .. n /\ \A i \in 1 .. n : seqs[i] \in Seq(A)
    BY DEF ListOfLists
  <1>1. ASSUME NEW i \in 1 .. n - 1, NEW a \in Seq(A)
        PROVE  F[<<i, a>>] = a \o seqs[i + 1] /\ F[<<i, a>>] \in Seq(A)
    <2>1. i + 1 \in 1 .. n
      BY <1>0
    <2>2. seqs[i + 1] \in Seq(A)
      BY <1>0, <2>1
    <2>3. F[<<i, a>>] = a \o seqs[i + 1]
      OBVIOUS
    <2> HIDE DEF F
    <2>4. a \o seqs[i + 1] \in Seq(A)
      BY <2>2
    <2> QED BY <2>3, <2>4
  <1>2. n - 1 \in Nat /\ seqs[1] \in Seq(A)
    BY <1>0
  <1>3. PICK h \in [0 .. n - 1 -> Seq(A)] : FoldedFrom(h, seqs[1], n - 1, F)
    <2> HIDE DEF F
    <2> QED BY <1>1, <1>2, FoldExists
  <1> DEFINE g == [i \in 1 .. n |-> h[i - 1]]
  <1>4. g \in [1 .. n -> Seq(A)]
    <2>1. ASSUME NEW i \in 1 .. n PROVE h[i - 1] \in Seq(A)
      <3>1. i - 1 \in 0 .. n - 1
        OBVIOUS
      <3> QED BY <1>3, <3>1
    <2> QED BY <2>1
  <1>5. g[1] = seqs[1]
    <2>1. h[0] = seqs[1]
      <3>1. 0 \in 0 .. n - 1
        BY <1>2
      <3> HIDE DEF F
      <3> QED BY <1>3, <3>1 DEF FoldedFrom
    <2>2. 1 \in 1 .. n /\ 1 - 1 = 0
      BY <1>0
    <2> QED BY <2>1, <2>2
  <1>6. ASSUME NEW i \in 2 .. n PROVE g[i] = g[i - 1] \o seqs[i]
    <2>1. i - 1 \in 1 .. n - 1 /\ i - 1 \in 0 .. n - 1 /\ i - 1 - 1 \in 0 .. n - 1 /\ i - 1 # 0 /\ (i - 1) + 1 = i
          /\ i \in 1 .. n /\ i - 1 \in 1 .. n
      OBVIOUS
    <2>2. h[i - 1] = F[<<i - 1, h[i - 1 - 1]>>]
      <3> HIDE DEF F
      <3> QED BY <1>3, <2>1 DEF FoldedFrom
    <2>3. h[i - 1 - 1] \in Seq(A)
      BY <1>3, <2>1
    <2>4. h[i - 1] = h[i - 1 - 1] \o seqs[i]
      <3> HIDE DEF F, g
      <3>1. F[<<i - 1, h[i - 1 - 1]>>] = h[i - 1 - 1] \o seqs[(i - 1) + 1]
        BY <1>1, <2>1, <2>3
      <3> QED BY <2>1, <2>2, <3>1
    <2>5. g[i] = h[i - 1] /\ g[i - 1] = h[i - 1 - 1]
      BY <2>1
    <2> HIDE DEF g
    <2> QED BY <2>4, <2>5
  <1> HIDE DEF F, g
  <1>7. Fits(g)
    <2>1. ASSUME NEW i \in 1 .. n PROVE g[i] = IF i = 1 THEN seqs[i] ELSE g[i - 1] \o seqs[i]
      <3>1. CASE i = 1
        BY <1>5, <3>1
      <3>2. CASE i # 1
        <4>1. i \in 2 .. n
          BY <3>2
        <4> QED BY <1>6, <3>2, <4>1
      <3> QED BY <3>1, <3>2
    <2> QED BY <1>4, <2>1
  <1> DEFINE c == CHOOSE f : Fits(f)
  <1>8. Fits(c)
    <2> HIDE DEF Fits
    <2> QED BY <1>7
  <1>9. c \in [1 .. n -> Seq(A)] /\ \A i \in 1 .. n : c[i] = g[i]
    <2>1. DOMAIN c = 1 .. n /\ \A i \in 1 .. n : c[i] = IF i = 1 THEN seqs[i] ELSE c[i - 1] \o seqs[i]
      <3> HIDE DEF c
      <3> QED BY <1>8
    <2> DEFINE S == {k \in 0 .. n - 1 : c[k + 1] = g[k + 1]}
    <2>2. 0 \in S
      <3> HIDE DEF c
      <3>1. 1 \in 1 .. n /\ 0 \in 0 .. n - 1 /\ 0 + 1 = 1
        BY <1>2
      <3>2. c[1] = seqs[1]
        BY <2>1, <3>1
      <3> QED BY <1>5, <3>1, <3>2
    <2>3. ASSUME NEW k \in 1 .. n - 1, k - 1 \in S PROVE k \in S
      <3> HIDE DEF c
      <3>1. c[k] = g[k]
        BY <2>3
      <3>2. k + 1 \in 2 .. n /\ k + 1 \in 1 .. n /\ (k + 1) - 1 = k /\ k + 1 # 1 /\ k \in 0 .. n - 1
        OBVIOUS
      <3>3. c[k + 1] = c[(k + 1) - 1] \o seqs[k + 1]
        BY <2>1, <3>2
      <3>4. g[k + 1] = g[(k + 1) - 1] \o seqs[k + 1]
        BY <1>6, <3>2
      <3>5. c[k + 1] = g[k + 1]
        BY <3>1, <3>2, <3>3, <3>4
      <3> QED BY <3>2, <3>5
    <2>4. 0 .. n - 1 \subseteq S
      <3> HIDE DEF S
      <3> QED BY <1>2, <2>2, <2>3, CountUp
    <2> HIDE DEF c
    <2>5. ASSUME NEW i \in 1 .. n PROVE c[i] = g[i]
      <3>1. i - 1 \in 0 .. n - 1 /\ (i - 1) + 1 = i
        OBVIOUS
      <3>2. c[(i - 1) + 1] = g[(i - 1) + 1]
        BY <2>4, <3>1
      <3> QED BY <3>1, <3>2
    <2>6. c = [i \in 1 .. Len(seqs) |-> IF i = 1 THEN seqs[i] ELSE c[i - 1] \o seqs[i]]
      BY <1>8
    <2>7. c = [i \in 1 .. n |-> c[i]]
      BY <2>6
    <2>8. \A i \in 1 .. n : c[i] \in Seq(A)
      BY <1>4, <2>5
    <2> QED BY <2>5, <2>7, <2>8
  <1>10. FlattenSeq(seqs) = c[n]
    BY <1>0 DEF FlattenSeq
  <1>11. c[n] = g[n]
    <2>1. n \in 1 .. n
      BY <1>0
    <2> HIDE DEF c
    <2> QED BY <1>9, <2>1
  <1> QED BY <1>4, <1>5, <1>6, <1>10, <1>11 DEF AppendedInTurn

(* What a sample is, and samples that count the bars of each symbol one by one. *)
SampleType == [symbol : Nat, bar : Int]
InStep(q) ==
  \A a, b \in DOMAIN q : q[a].symbol = q[b].symbol => q[b].bar - q[a].bar = b - a
UpTo(q, s) == q \in Seq(SampleType) /\ InStep(q) /\ \A a \in DOMAIN q : q[a].symbol <= s

(* The samples of one symbol more, after those of the others. *)
LEMMA SymbolAdded ==
  ASSUME NEW s \in Nat, NEW n \in Nat, NEW f \in Int, NEW q, UpTo(q, s - 1)
  PROVE  UpTo(q \o [k \in 1 .. n |-> [symbol |-> s, bar |-> k + f]], s)
  <1> DEFINE c == [k \in 1 .. n |-> [symbol |-> s, bar |-> k + f]]
             r == q \o c
  <1>1. c \in Seq(SampleType) /\ Len(c) = n
    <2>1. \A k \in 1 .. n : [symbol |-> s, bar |-> k + f] \in SampleType
      BY DEF SampleType
    <2> QED BY <2>1
  <1>2. q \in Seq(SampleType) /\ Len(q) \in Nat /\ DOMAIN q = 1 .. Len(q)
    BY DEF UpTo
  <1>3. r \in Seq(SampleType) /\ Len(r) = Len(q) + n /\ DOMAIN r = 1 .. Len(q) + n
    <2> HIDE DEF c
    <2> QED BY <1>1, <1>2
  <1>4. ASSUME NEW a \in 1 .. Len(q) PROVE r[a] = q[a] /\ q[a].symbol < s /\ q[a].symbol \in Nat /\ q[a].bar \in Int
    <2>1. r[a] = q[a]
      <3> HIDE DEF c
      <3> QED BY <1>1, <1>2, <1>4
    <2>2. q[a] \in SampleType /\ q[a].symbol <= s - 1
      BY <1>2 DEF UpTo
    <2>3. q[a].symbol \in Nat /\ q[a].bar \in Int
      BY <2>2 DEF SampleType
    <2> QED BY <2>1, <2>2, <2>3
  <1>5. ASSUME NEW a \in (Len(q) + 1) .. (Len(q) + n) PROVE r[a].symbol = s /\ r[a].bar = a - Len(q) + f
    <2>1. a - Len(q) \in 1 .. n
      BY <1>2
    <2>2. r[a] = c[a - Len(q)]
      <3> HIDE DEF c
      <3> QED BY <1>1, <1>2, <1>5
    <2> HIDE DEF r
    <2>3. c[a - Len(q)] = [symbol |-> s, bar |-> (a - Len(q)) + f]
      BY <2>1
    <2> QED BY <2>2, <2>3
  <1> HIDE DEF c, r
  <1>6. ASSUME NEW a \in DOMAIN r PROVE r[a].symbol <= s
    <2>1. CASE a \in 1 .. Len(q)
      BY <1>4, <2>1
    <2>2. CASE a \notin 1 .. Len(q)
      <3>1. a \in (Len(q) + 1) .. (Len(q) + n)
        BY <1>2, <1>3, <2>2
      <3> QED BY <1>5, <3>1
    <2> QED BY <2>1, <2>2
  <1>7. ASSUME NEW a \in DOMAIN r, NEW b \in DOMAIN r, r[a].symbol = r[b].symbol PROVE r[b].bar - r[a].bar = b - a
    <2>1. CASE a \in 1 .. Len(q) /\ b \in 1 .. Len(q)
      <3>1. r[a] = q[a] /\ r[b] = q[b]
        BY <1>4, <2>1
      <3> QED BY <1>2, <1>7, <2>1, <3>1 DEF UpTo, InStep
    <2>2. CASE a \in (Len(q) + 1) .. (Len(q) + n) /\ b \in (Len(q) + 1) .. (Len(q) + n)
      <3>1. r[a].bar = a - Len(q) + f /\ r[b].bar = b - Len(q) + f
        BY <1>5, <2>2
      <3> QED BY <1>2, <2>2, <3>1
    <2>3. CASE a \in 1 .. Len(q) /\ b \in (Len(q) + 1) .. (Len(q) + n)
      <3>1. r[a].symbol = q[a].symbol /\ q[a].symbol \in Nat /\ q[a].symbol < s BY <1>4, <2>3
      <3>2. r[b].symbol = s BY <1>5, <2>3
      <3>3. q[a].symbol = s BY <1>7, <3>1, <3>2
      <3>4. s \in Nat /\ s < s BY <3>1, <3>3
      <3>5. FALSE BY <3>4
      <3> QED BY <3>5
    <2>4. CASE b \in 1 .. Len(q) /\ a \in (Len(q) + 1) .. (Len(q) + n)
      <3>1. r[b].symbol = q[b].symbol /\ q[b].symbol \in Nat /\ q[b].symbol < s BY <1>4, <2>4
      <3>2. r[a].symbol = s BY <1>5, <2>4
      <3>3. q[b].symbol = s BY <1>7, <3>1, <3>2
      <3>4. s \in Nat /\ s < s BY <3>1, <3>3
      <3>5. FALSE BY <3>4
      <3> QED BY <3>5
    <2> QED BY <1>2, <1>3, <2>1, <2>2, <2>3, <2>4
  <1>8. InStep(r)
    BY <1>7 DEF InStep
  <1> QED BY <1>3, <1>6, <1>8 DEF UpTo, r, c

(* The samples of any files count the bars of each symbol one by one: they are sorted by the place of
   their last row, and the rows of a symbol follow one another.                                       *)
LEMMA SamplesInStep ==
  ASSUME NEW rows \in Seq(Nat)
  PROVE  SamplesOf(rows) \in Seq(SampleType) /\ InStep(SamplesOf(rows))
  <1> DEFINE n == Len(rows)
             Count(s) == Max({0, rows[s] - SeqLen + 1})
             seqs == [s \in DOMAIN rows |-> [k \in 1 .. Count(s) |-> [symbol |-> s, bar |-> k + SeqLen - 1]]]
  <1>0. SeqLen \in Nat /\ n \in Nat /\ DOMAIN rows = 1 .. n /\ \A s \in 1 .. n : rows[s] \in Nat
    BY TrainingAssumption
  <1>1. ASSUME NEW s \in 1 .. n PROVE Count(s) \in Nat
    <2>1. rows[s] - SeqLen + 1 \in Int
      BY <1>0
    <2> QED BY <2>1, MaxOfTwo
  <1> HIDE DEF Count
  <1>2. ASSUME NEW s \in 1 .. n
        PROVE  seqs[s] = [k \in 1 .. Count(s) |-> [symbol |-> s, bar |-> k + (SeqLen - 1)]]
               /\ seqs[s] \in Seq(SampleType)
    <2>1. Count(s) \in Nat
      BY <1>1
    <2>2. \A k \in 1 .. Count(s) : /\ [symbol |-> s, bar |-> k + (SeqLen - 1)] \in SampleType
                                   /\ k + SeqLen - 1 = k + (SeqLen - 1)
      BY <1>0, <2>1 DEF SampleType
    <2>3. seqs[s] = [k \in 1 .. Count(s) |-> [symbol |-> s, bar |-> k + (SeqLen - 1)]]
      BY <1>0, <2>2
    <2> HIDE DEF seqs
    <2> QED BY <2>1, <2>2, <2>3
  <1>3. seqs \in Seq(Seq(SampleType)) /\ Len(seqs) = n /\ DOMAIN seqs = 1 .. n
    <2>1. DOMAIN seqs = 1 .. n
      BY <1>0
    <2>2. seqs = [s \in 1 .. n |-> seqs[s]]
      BY <1>0
    <2> HIDE DEF seqs
    <2> QED BY <1>0, <1>2, <2>1, <2>2
  <1>4. SamplesOf(rows) = FlattenSeq(seqs)
    BY DEF SamplesOf, Count
  <1> HIDE DEF seqs
  <1>5. CASE n = 0
    <2>1. seqs = <<>>
      BY <1>3, <1>5
    <2>2. SamplesOf(rows) = <<>>
      BY <1>4, <2>1 DEF FlattenSeq
    <2> QED BY <2>2 DEF InStep
  <1>6. CASE n # 0
    <2>0. n \in Nat \ {0}
      BY <1>0, <1>6
    <2>1. PICK g \in [1 .. n -> Seq(SampleType)] :
            /\ g[1] = seqs[1] /\ \A i \in 2 .. n : g[i] = g[i - 1] \o seqs[i]
            /\ FlattenSeq(seqs) = g[n]
      <3>1. ListOfLists(seqs, SampleType)
        BY <1>3, <1>6 DEF ListOfLists
      <3>2. AppendedInTurn(seqs, SampleType, FlattenSeq(seqs))
        BY <3>1, FlattenSteps
      <3> QED BY <1>3, <3>2 DEF AppendedInTurn
    <2> DEFINE S == {k \in 0 .. n - 1 : UpTo(g[k + 1], k + 1)}
    <2>2. 0 \in S
      <3>1. 1 \in 1 .. n /\ 0 \in 0 .. n - 1 /\ 0 + 1 = 1
        BY <2>0
      <3>2. UpTo(<<>>, 0)
        BY DEF UpTo, InStep
      <3>3. UpTo(<<>> \o seqs[1], 1)
        <4>1. UpTo(<<>> \o [k \in 1 .. Count(1) |-> [symbol |-> 1, bar |-> k + (SeqLen - 1)]], 1)
          <5>1. 1 - 1 = 0 /\ Count(1) \in Nat /\ SeqLen - 1 \in Int
            BY <1>0, <1>1, <3>1
          <5> QED BY <3>2, <5>1, SymbolAdded
        <4> QED BY <1>2, <3>1, <4>1
      <3>4. <<>> \o seqs[1] = seqs[1]
        BY <1>2, <3>1
      <3> QED BY <2>1, <3>1, <3>3, <3>4
    <2>3. ASSUME NEW k \in 1 .. n - 1, k - 1 \in S PROVE k \in S
      <3>1. k + 1 \in 2 .. n /\ k + 1 \in 1 .. n /\ (k + 1) - 1 = k /\ (k - 1) + 1 = k /\ k \in 0 .. n - 1
            /\ k + 1 \in Nat
        BY <1>0
      <3>2. UpTo(g[k], k)
        BY <2>3, <3>1
      <3>3. g[k + 1] = g[k] \o seqs[k + 1]
        BY <2>1, <3>1
      <3>4. UpTo(g[k] \o [j \in 1 .. Count(k + 1) |-> [symbol |-> k + 1, bar |-> j + (SeqLen - 1)]], k + 1)
        <4>1. Count(k + 1) \in Nat /\ SeqLen - 1 \in Int
          BY <1>0, <1>1, <3>1
        <4> QED BY <3>1, <3>2, <4>1, SymbolAdded
      <3>5. UpTo(g[k + 1], k + 1)
        BY <1>2, <3>1, <3>3, <3>4
      <3> QED BY <3>1, <3>5
    <2>4. 0 .. n - 1 \subseteq S
      <3> HIDE DEF S
      <3>1. n - 1 \in Nat
        BY <2>0
      <3> QED BY <2>2, <2>3, <3>1, CountUp
    <2>5. UpTo(g[n], n)
      <3>1. n - 1 \in 0 .. n - 1 /\ (n - 1) + 1 = n
        BY <2>0
      <3>2. UpTo(g[(n - 1) + 1], (n - 1) + 1)
        BY <2>4, <3>1
      <3> QED BY <3>1, <3>2
    <2> QED BY <1>4, <2>1, <2>5 DEF UpTo
  <1> QED BY <1>5, <1>6

(* What a behaviour keeps of the job, the fold and the losses; of the split; of the table. *)
JobKept == study = "train" => job \in Jobs /\ (stage = "load" => fold = 0)
FoldKept == InTraining => IF job.walk THEN FoldFits(fold) ELSE SplitAt > 1 /\ SplitAt < RowTotal
BestOf(q, b) ==
  IF q = <<>> THEN b.loss = 0 /\ b.epoch = 0
              ELSE b.epoch \in DOMAIN q /\ b.loss = q[b.epoch] /\ \A i \in DOMAIN q : b.loss <= q[i]
LossesKept ==
  study = "train" =>
    /\ BestOf(losses, best)
    /\ stage \in {"load", "done", "refused"} => losses = <<>>
    /\ stage = "epoch" => SinceBest < Max({1, Patience}) /\ Len(losses) < Max({1, Epochs})
    /\ stage = "tested" => SinceBest = Max({1, Patience}) \/ Len(losses) = Max({1, Epochs})
SplitKept == study = "cv" => cv \in [n : Nat \ {0}, splits : 1 .. 4, purge : 0 .. 2, embargo : 0 .. 2]
TableRuns ==
  [n : Nat, purge : 0 .. 3, splits : 1 .. 3, tools : SUBSET {"lightgbm", "optuna"},
   pc : {"load", "refused", "tune", "fit", "saved"}, tuned : BOOLEAN, scored : BOOLEAN,
   model : {"none", "failed", "tuned", "default", "forest"}, stopped : SUBSET Int]
TableKept ==
  study = "table" => table \in TableRuns /\ (table.pc \notin {"load", "refused"} => ~TableRefused)

StudyInv == TrainingTypeOK /\ JobKept /\ FoldKept /\ LossesKept /\ SplitKept /\ TableKept

(* A limit is at least one. *)
LEMMA LimitIsPositive == ASSUME NEW n \in Int PROVE Max({1, n}) \in Nat \ {0}
  BY MaxOfTwo

(* The rows, sizes and gaps of a job are what the code accepts. *)
LEMMA JobFields ==
  ASSUME job \in Jobs
  PROVE  /\ job.rows \in Seq(Nat) /\ job.walk \in BOOLEAN /\ job.expanding \in BOOLEAN /\ job.purge \in Nat
         /\ job.size \in Nat \ {0, 1} /\ job.test \in Nat \ {0} /\ job.step \in Nat \ {0} /\ RowTotal \in Nat
  <1>1. /\ job.rows \in RowCounts /\ job.walk \in BOOLEAN /\ job.expanding \in BOOLEAN /\ job.purge \in Purges
        /\ job.size \in TrainSizes /\ job.test \in FoldSizes /\ job.step \in FoldSizes
    BY DEF Jobs
  <1>2. job.rows \in Seq(Nat)
    BY <1>1, TrainingAssumption
  <1>3. RowTotal \in Nat
    <2>1. SamplesOf(job.rows) \in Seq(SampleType)
      BY <1>2, SamplesInStep
    <2> QED BY <2>1 DEF RowTotal, Samples
  <1> QED BY <1>1, <1>2, <1>3, TrainingAssumption

(* A fold that is worked on: two spans of samples, the test after the training, both inside the data. *)
LEMMA FoldBounds ==
  ASSUME job \in Jobs, fold \in Nat, FoldKept, InTraining
  PROVE  \E a, b, c, d \in Nat :
           /\ a < b /\ b <= c /\ c < d /\ d <= RowTotal
           /\ TrainAll(fold) = Span(a, b) /\ TestOf(fold) = Span(c, d)
           /\ GapKept => b + job.purge <= c
  <1>0. job.purge \in Nat /\ job.size \in Nat \ {0, 1} /\ job.test \in Nat \ {0} /\ job.step \in Nat \ {0}
        /\ RowTotal \in Nat
    BY JobFields
  <1>1. CASE job.walk
    <2>1. PICK w \in Nat : w = fold * job.step
      BY <1>0
    <2>2. TrainEnd(fold) = job.size + w /\ FoldTestFrom(fold) = job.size + w + job.purge
          /\ job.size + w + job.purge + job.test <= RowTotal
      BY <1>1, <2>1 DEF TrainEnd, FoldTestFrom, FoldFits, FoldKept
    <2> DEFINE a == IF job.expanding THEN 0 ELSE TrainEnd(fold) - job.size
               b == TrainEnd(fold)
               c == FoldTestFrom(fold)
               d == FoldTestFrom(fold) + job.test
    <2>3. a \in Nat /\ b \in Nat /\ c \in Nat /\ d \in Nat /\ a < b /\ b <= c /\ c < d /\ d <= RowTotal
          /\ b + job.purge <= c
      BY <1>0, <2>1, <2>2
    <2>4. TrainAll(fold) = Span(a, b) /\ TestOf(fold) = Span(c, d)
      BY <1>1 DEF TrainAll, TestOf
    <2> QED BY <2>3, <2>4
  <1>2. CASE ~job.walk
    <2>1. SplitAt \in Nat /\ SplitAt > 1 /\ SplitAt < RowTotal
      BY <1>0, <1>2 DEF SplitAt, FoldKept
    <2>2. SplitTestFrom \in Nat /\ SplitAt <= SplitTestFrom /\ SplitTestFrom < RowTotal
          /\ (GapKept => SplitAt + job.purge <= SplitTestFrom)
      BY <1>0, <1>2, <2>1 DEF SplitTestFrom, GapKept
    <2>3. TrainAll(fold) = Span(0, SplitAt) /\ TestOf(fold) = Span(SplitTestFrom, RowTotal)
      BY <1>2 DEF TrainAll, TestOf
    <2>4. 0 \in Nat /\ 0 < SplitAt
      BY <2>1
    <2> QED BY <1>0, <2>1, <2>2, <2>3, <2>4
  <1> QED BY <1>1, <1>2

(* So no label reaches into the test of its symbol ... *)
LEMMA LabelsEnd == StudyInv => LabelsEndBeforeTest
  <1> SUFFICES ASSUME StudyInv, InTraining, job.purge >= Horizon, GapKept,
                      NEW i \in TrainAll(fold), NEW j \in TestOf(fold), Samples[i].symbol = Samples[j].symbol
               PROVE  Samples[i].bar + Horizon < Samples[j].bar
    BY DEF LabelsEndBeforeTest
  <1>1. job \in Jobs /\ fold \in Nat /\ FoldKept
    BY DEF StudyInv, JobKept, InTraining, TrainingTypeOK
  <1>2. PICK a, b, c, d \in Nat :
          /\ a < b /\ b <= c /\ c < d /\ d <= RowTotal
          /\ TrainAll(fold) = Span(a, b) /\ TestOf(fold) = Span(c, d)
          /\ GapKept => b + job.purge <= c
    BY <1>1, FoldBounds
  <1>3. Samples \in Seq(SampleType) /\ InStep(Samples)
    BY <1>1, JobFields, SamplesInStep DEF Samples
  <1>4. i \in DOMAIN Samples /\ j \in DOMAIN Samples /\ i \in Nat /\ j \in Nat /\ i + job.purge < j
    <2>1. i \in (a + 1) .. b /\ j \in (c + 1) .. d /\ b + job.purge <= c
      BY <1>2 DEF Span
    <2>2. DOMAIN Samples = 1 .. RowTotal /\ RowTotal \in Nat
      BY <1>3 DEF RowTotal
    <2>3. job.purge \in Nat
      BY <1>1, JobFields
    <2> QED BY <1>2, <2>1, <2>2, <2>3
  <1>5. Samples[j].bar - Samples[i].bar = j - i
    BY <1>3, <1>4 DEF InStep
  <1>6. Samples[i].bar \in Int /\ Samples[j].bar \in Int
    <2>1. Samples[i] \in SampleType /\ Samples[j] \in SampleType
      BY <1>3, <1>4
    <2> QED BY <2>1 DEF SampleType
  <1>7. job.purge \in Nat /\ Horizon \in Nat
    BY <1>1, JobFields, TrainingAssumption
  <1> QED BY <1>4, <1>5, <1>6, <1>7

(* ... and what trains, what validates and what tests are apart. *)
LEMMA FoldsAreApart == StudyInv => FoldsApart
  <1> SUFFICES ASSUME StudyInv, InTraining
               PROVE  /\ TrainAll(fold) \cap TestOf(fold) = {} /\ TrainOf(fold) \cap ValOf(fold) = {}
                      /\ TrainOf(fold) # {} /\ TestOf(fold) # {}
                      /\ TrainAll(fold) \cup TestOf(fold) \subseteq 1 .. RowTotal
    BY DEF FoldsApart
  <1>1. job \in Jobs /\ fold \in Nat /\ FoldKept
    BY DEF StudyInv, JobKept, InTraining, TrainingTypeOK
  <1>2. PICK a, b, c, d \in Nat :
          /\ a < b /\ b <= c /\ c < d /\ d <= RowTotal
          /\ TrainAll(fold) = Span(a, b) /\ TestOf(fold) = Span(c, d)
    BY <1>1, FoldBounds
  <1>0. RowTotal \in Nat
    BY <1>1, JobFields
  <1>3. TrainAll(fold) = (a + 1) .. b /\ TestOf(fold) = (c + 1) .. d
    BY <1>2 DEF Span
  <1>4. TrainAll(fold) \cap TestOf(fold) = {}
    BY <1>2, <1>3
  <1>5. TrainAll(fold) # {} /\ TestOf(fold) # {}
    <2>1. b \in (a + 1) .. b /\ d \in (c + 1) .. d
      BY <1>2
    <2> QED BY <1>3, <2>1
  <1>6. TrainAll(fold) \cup TestOf(fold) \subseteq 1 .. RowTotal
    BY <1>0, <1>2, <1>3
  <1>7. CASE OwnValidation(fold)
    <2>1. Cardinality(TrainAll(fold)) = b - a
      BY <1>2, <1>3, FS_Interval
    <2>2. PICK v \in Nat : v = ValCount(fold) /\ v > 0 /\ b - a - v >= 1
      <3>1. ValCount(fold) \in Nat
        BY <1>2, <2>1 DEF ValCount
      <3> QED BY <1>7, <2>1, <3>1 DEF OwnValidation
    <2>3. Max(TrainAll(fold)) = b
      <3>1. b \in TrainAll(fold) /\ \A y \in TrainAll(fold) : b >= y
        BY <1>2, <1>3
      <3>2. \A x \in TrainAll(fold) : (\A y \in TrainAll(fold) : x >= y) => x = b
        <4>1. \A x \in TrainAll(fold) : x \in Int /\ x <= b
          BY <1>2, <1>3
        <4> QED BY <1>2, <3>1, <4>1
      <3> QED BY <3>1, <3>2 DEF Max
    <2>4. ValOf(fold) = {i \in TrainAll(fold) : i > b - v} /\ TrainOf(fold) = TrainAll(fold) \ ValOf(fold)
      BY <1>7, <2>2, <2>3 DEF ValOf, TrainOf
    <2>5. a + 1 \in TrainAll(fold) /\ ~(a + 1 > b - v)
      BY <1>2, <1>3, <2>2
    <2>6. TrainOf(fold) # {} /\ TrainOf(fold) \cap ValOf(fold) = {}
      BY <2>4, <2>5
    <2> QED BY <1>4, <1>5, <1>6, <2>6
  <1>8. CASE ~OwnValidation(fold)
    <2>1. ValOf(fold) = TestOf(fold) /\ TrainOf(fold) = TrainAll(fold)
      BY <1>8 DEF ValOf, TrainOf
    <2> QED BY <1>4, <1>5, <1>6, <2>1
  <1> QED BY <1>7, <1>8

(* The best loss is the smallest of the history, and its epoch the one that had it. *)
LEMMA LossesEnd == StudyInv => StopsInTime
  <1> SUFFICES ASSUME StudyInv, InTraining, losses # <<>>
               PROVE  /\ best.loss = Min(ToSet(losses)) /\ losses[best.epoch] = best.loss
                      /\ stage = "epoch" => SinceBest < Max({1, Patience})
                      /\ stage = "tested" => SinceBest = Max({1, Patience}) \/ Len(losses) = Max({1, Epochs})
    BY DEF StopsInTime
  <1>1. study = "train" /\ LossesKept /\ losses \in Seq(Losses)
    BY DEF StudyInv, InTraining, TrainingTypeOK
  <1>2. best.epoch \in DOMAIN losses /\ best.loss = losses[best.epoch] /\ \A i \in DOMAIN losses : best.loss <= losses[i]
    BY <1>1 DEF LossesKept, BestOf
  <1>3. best.loss = Min(ToSet(losses))
    <2>1. ToSet(losses) = {losses[i] : i \in DOMAIN losses}
      BY DEF ToSet
    <2>2. best.loss \in ToSet(losses) /\ (\A y \in ToSet(losses) : best.loss <= y) /\ ToSet(losses) \subseteq Int
      <3>1. ASSUME NEW i \in DOMAIN losses PROVE losses[i] \in Int
        <4>1. losses[i] \in Losses
          BY <1>1, <3>1
        <4>2. Losses \subseteq Nat
          BY TrainingAssumption
        <4>3. losses[i] \in Nat
          BY <4>1, <4>2, Zenon
        <4> QED BY <4>3
      <3> QED BY <1>2, <2>1, <3>1
    <2>3. \A x \in ToSet(losses) : (\A y \in ToSet(losses) : x <= y) => x = best.loss
      <3> SUFFICES ASSUME NEW x \in ToSet(losses), \A y \in ToSet(losses) : x <= y PROVE x = best.loss
        OBVIOUS
      <3>1. x \in Int /\ best.loss \in Int /\ x <= best.loss /\ best.loss <= x
        BY <2>2
      <3> QED BY <3>1
    <2> QED BY <2>2, <2>3 DEF Min
  <1> QED BY <1>1, <1>2, <1>3 DEF LossesKept

(* Every sample is tested by one fold of the tabular split: folds of a length that fits as often as
   there are splits, the last one with what is left.                                                *)
FoldsFit(n, s, L) == s * L <= n
InFold(n, s, L, k, i) == k * L <= i /\ i <= (IF k = s - 1 THEN n ELSE k * L + L) - 1

LEMMA OneFold ==
  ASSUME NEW n \in Nat \ {0}, NEW s \in 1 .. 4, NEW L \in Nat \ {0}, FoldsFit(n, s, L), NEW i \in 0 .. n - 1
  PROVE  \E m \in 0 .. s - 1 : \A k \in 0 .. s - 1 : InFold(n, s, L, k, i) <=> k = m
  <1> USE DEF InFold, FoldsFit
  <1>1. CASE s = 1
    <2> WITNESS 0 \in 0 .. s - 1
    <2> QED BY <1>1
  <1>2. CASE s = 2
    <2>1. PICK m \in 0 .. s - 1 : m = IF i < L THEN 0 ELSE 1
      BY <1>2
    <2> WITNESS m \in 0 .. s - 1
    <2>2. \A k \in 0 .. s - 1 : k = 0 \/ k = 1
      BY <1>2
    <2> QED BY <1>2, <2>1, <2>2
  <1>3. CASE s = 3
    <2>1. PICK m \in 0 .. s - 1 : m = IF i < L THEN 0 ELSE IF i < 2 * L THEN 1 ELSE 2
      BY <1>3
    <2> WITNESS m \in 0 .. s - 1
    <2>2. \A k \in 0 .. s - 1 : k = 0 \/ k = 1 \/ k = 2
      BY <1>3
    <2> QED BY <1>3, <2>1, <2>2
  <1>4. CASE s = 4
    <2>1. PICK m \in 0 .. s - 1 : m = IF i < L THEN 0 ELSE IF i < 2 * L THEN 1 ELSE IF i < 3 * L THEN 2 ELSE 3
      BY <1>4
    <2> WITNESS m \in 0 .. s - 1
    <2>2. \A k \in 0 .. s - 1 : k = 0 \/ k = 1 \/ k = 2 \/ k = 3
      BY <1>4
    <2> QED BY <1>4, <2>1, <2>2
  <1> QED BY <1>1, <1>2, <1>3, <1>4

LEMMA SplitIsPartition == StudyInv => CvPartition
  <1> SUFFICES ASSUME StudyInv, study = "cv", cv.n >= cv.splits
               PROVE  /\ \A i \in 0 .. (cv.n - 1) : Cardinality({k \in 0 .. (cv.splits - 1) : i \in CvTest(k)}) = 1
                      /\ \A k \in 0 .. (cv.splits - 1) : \A i \in CvTrain(k), j \in CvTest(k) :
                           i < j - cv.purge \/ i > j + Max({cv.purge, (cv.n * cv.embargo) \div 10})
    BY DEF CvPartition
  <1> DEFINE n == cv.n
             s == cv.splits
             L == FoldLength
  <1>1. n \in Nat \ {0} /\ s \in 1 .. 4 /\ cv.purge \in 0 .. 2 /\ cv.embargo \in 0 .. 2 /\ n >= s
    BY DEF StudyInv, SplitKept
  <1>2. L \in Nat \ {0} /\ s * L <= n
    <2> DEFINE d == n \div s
    <2>1. d \in Nat /\ d >= 1 /\ s * d <= n
      <3>1. CASE s = 1
        BY <1>1, <3>1
      <3>2. CASE s = 2
        BY <1>1, <3>2
      <3>3. CASE s = 3
        BY <1>1, <3>3
      <3>4. CASE s = 4
        BY <1>1, <3>4
      <3> QED BY <1>1, <3>1, <3>2, <3>3, <3>4
    <2>2. L = Max({1, d})
      BY DEF FoldLength
    <2> HIDE DEF d, L, s, n
    <2>3. L = d
      BY <2>1, <2>2, MaxOfTwo
    <2> QED BY <2>1, <2>3
  <1>3. ASSUME NEW k \in 0 .. s - 1
        PROVE  /\ k * L \in Nat /\ CvFrom(k) = k * L /\ CvTo(k) \in Nat
               /\ CvTo(k) = IF k = s - 1 THEN n ELSE k * L + L
               /\ CvTest(k) = (k * L) .. (CvTo(k) - 1)
    <2>1. k \in Nat /\ k * L \in Nat
      BY <1>1, <1>2
    <2> QED BY <1>1, <1>2, <2>1 DEF CvFrom, CvTo, CvTest
  <1>4. ASSUME NEW i \in 0 .. n - 1 PROVE Cardinality({k \in 0 .. s - 1 : i \in CvTest(k)}) = 1
    <2> HIDE DEF n, s, L
    <2>1. PICK m \in 0 .. s - 1 : \A k \in 0 .. s - 1 : InFold(n, s, L, k, i) <=> k = m
      <3>1. FoldsFit(n, s, L)
        BY <1>2 DEF FoldsFit
      <3> QED BY <1>1, <1>2, <3>1, OneFold
    <2>2. ASSUME NEW k \in 0 .. s - 1 PROVE i \in CvTest(k) <=> k = m
      <3>1. i \in CvTest(k) <=> (k * L <= i /\ i <= CvTo(k) - 1)
        BY <1>1, <1>3
      <3> QED BY <1>3, <2>1, <3>1 DEF InFold
    <2>3. {k \in 0 .. s - 1 : i \in CvTest(k)} = {m}
      BY <2>2
    <2> QED BY <2>3, FS_Singleton
  <1>5. ASSUME NEW k \in 0 .. s - 1, NEW i \in CvTrain(k), NEW j \in CvTest(k)
        PROVE  i < j - cv.purge \/ i > j + Max({cv.purge, (cv.n * cv.embargo) \div 10})
    <2>1. PICK e \in Nat : e = (n * cv.embargo) \div 10
      <3>1. n * cv.embargo \in Nat
        BY <1>1
      <3> QED BY <3>1
    <2>2. PICK g \in Nat : g = Max({cv.purge, e}) /\ g >= cv.purge
      BY <1>1, <2>1, MaxOfTwo
    <2>3. CvAfter(k) = Min({n, CvTo(k) + g})
      BY <2>1, <2>2 DEF CvAfter
    <2>4. CvAfter(k) = IF n <= CvTo(k) + g THEN n ELSE CvTo(k) + g
      <3>1. CvTo(k) + g \in Int /\ n \in Int
        BY <1>1, <1>3
      <3> HIDE DEF n
      <3> QED BY <2>3, <3>1, MinOfTwo
    <2>5. i \in 0 .. n - 1 /\ (i < CvFrom(k) - cv.purge \/ i >= CvAfter(k))
      BY DEF CvTrain
    <2>6. j \in (k * L) .. (CvTo(k) - 1)
      BY <1>3
    <2> HIDE DEF n, s, L
    <2>7. i < j - cv.purge \/ i > j + g
      BY <1>1, <1>3, <2>2, <2>4, <2>5, <2>6
    <2>8. g = Max({cv.purge, (n * cv.embargo) \div 10})
      BY <2>1, <2>2
    <2> QED BY <2>7, <2>8 DEF n
  <1> QED BY <1>4, <1>5

(* The windows end at the last training row, one after the other. *)
LEMMA WindowIs ==
  ASSUME StudyInv, study = "table", HeldFrom > 0, NEW k \in 0 .. (table.splits - 1)
  PROVE  /\ WindowFrom(k) \in Int /\ WindowFrom(k) = HeldFrom - (table.splits - k) * WindowSize
         /\ WindowSize \in Nat \ {0} /\ HeldFrom \in Nat
         /\ WindowOf(k) = WindowFrom(k) .. (WindowFrom(k) + WindowSize - 1)
         /\ Before(k) = IF WindowFrom(k) - table.purge >= 0 THEN 0 .. (WindowFrom(k) - table.purge - 1) ELSE {}
         /\ WindowFrom(k) + WindowSize <= HeldFrom
  <1>1. table.n \in Nat /\ table.purge \in 0 .. 3 /\ table.splits \in 1 .. 3
    BY DEF StudyInv, TableKept, TableRuns
  <1>2. HeldFrom \in Nat
    BY <1>1 DEF HeldFrom
  <1>3. WindowSize \in Nat \ {0}
    <2>1. HeldFrom \div (table.splits + 1) \in Int
      <3>1. table.splits + 1 \in Nat \ {0}
        BY <1>1
      <3> QED BY <1>2, <3>1
    <2> QED BY <2>1, MaxOfTwo DEF WindowSize
  <1>4. WindowFrom(k) \in Int /\ WindowFrom(k) = HeldFrom - (table.splits - k) * WindowSize
    <2>1. PICK w \in Nat : w = WindowSize
      BY <1>3
    <2>2. PICK h \in Nat : h = HeldFrom
      BY <1>2
    <2>3. h - table.splits * w + k * w = h - (table.splits - k) * w /\ h - table.splits * w + k * w \in Int
      BY <1>1
    <2> QED BY <2>1, <2>2, <2>3 DEF WindowFrom
  <1>5. WindowFrom(k) + WindowSize <= HeldFrom
    <2>1. PICK w \in Nat \ {0} : w = WindowSize
      BY <1>3
    <2>2. table.splits - k \in Nat \ {0}
      BY <1>1
    <2>3. (table.splits - k) * w >= w
      <3>1. CASE table.splits - k = 1
        BY <3>1
      <3>2. CASE table.splits - k = 2
        BY <3>2
      <3>3. CASE table.splits - k = 3
        BY <3>3
      <3> QED BY <1>1, <3>1, <3>2, <3>3
    <2>4. (table.splits - k) * w \in Int
      BY <2>2
    <2> QED BY <1>2, <1>4, <2>1, <2>3, <2>4
  <1>6. Min({WindowFrom(k) + WindowSize, HeldFrom}) = WindowFrom(k) + WindowSize
    BY <1>2, <1>3, <1>4, <1>5, MinOfTwo
  <1>7. WindowOf(k) = WindowFrom(k) .. (WindowFrom(k) + WindowSize - 1)
    <2>1. PICK m : m = Min({WindowFrom(k) + WindowSize, HeldFrom})
      OBVIOUS
    <2>2. WindowOf(k) = WindowFrom(k) .. (m - 1)
      BY <2>1 DEF WindowOf
    <2>3. m = WindowFrom(k) + WindowSize
      BY <1>6, <2>1
    <2> QED BY <1>3, <1>4, <2>2, <2>3
  <1>8. Before(k) = IF WindowFrom(k) - table.purge >= 0 THEN 0 .. (WindowFrom(k) - table.purge - 1) ELSE {}
    <2>1. PICK z \in Int : z = WindowFrom(k) - table.purge
      BY <1>1, <1>4
    <2>2. Max({0, z}) = IF 0 >= z THEN 0 ELSE z
      BY MaxOfTwo
    <2>3. 0 .. (Max({0, z}) - 1) = IF z >= 0 THEN 0 .. (z - 1) ELSE {}
      BY <2>2
    <2> QED BY <2>1, <2>3 DEF Before
  <1> QED BY <1>2, <1>3, <1>4, <1>5, <1>7, <1>8

LEMMA TableIsApart == StudyInv => TableApart
  <1> SUFFICES ASSUME StudyInv, study = "table", table.pc \notin {"load", "refused"}
               PROVE  /\ TableTrain # {} /\ TableTest # {} /\ TableTest \subseteq 0 .. (table.n - 1)
                      /\ \A i \in TableTrain, j \in TableTest : i < j
                      /\ \A k \in Windows : /\ Before(k) \cup WindowOf(k) \subseteq TableTrain
                                            /\ \A i \in Before(k), j \in WindowOf(k) : i + table.purge < j
                      /\ Windows # {} => HeldFrom - 1 \in UNION {WindowOf(k) : k \in Windows}
                      /\ \A k, l \in Windows : k # l => WindowOf(k) \cap WindowOf(l) = {}
    BY DEF TableApart
  <1>1. table.n \in Nat /\ table.purge \in 0 .. 3 /\ table.splits \in 1 .. 3 /\ ~TableRefused
    BY DEF StudyInv, TableKept, TableRuns
  <1>2. HeldFrom \in Nat /\ HeldFrom > 0 /\ HeldFrom < table.n
    BY <1>1 DEF HeldFrom, TableRefused
  <1>3. TestsFrom \in Nat /\ HeldFrom <= TestsFrom /\ TestsFrom < table.n
    BY <1>1, <1>2 DEF TestsFrom
  <1>4. TableTrain # {} /\ TableTest # {} /\ TableTest \subseteq 0 .. (table.n - 1)
        /\ \A i \in TableTrain, j \in TableTest : i < j
    <2>1. 0 \in TableTrain /\ TestsFrom \in TableTest
      BY <1>1, <1>2, <1>3 DEF TableTrain, TableTest
    <2>2. TableTest \subseteq 0 .. (table.n - 1)
      BY <1>1, <1>3 DEF TableTest
    <2>3. \A i \in TableTrain, j \in TableTest : i < j
      BY <1>1, <1>2, <1>3 DEF TableTrain, TableTest
    <2> QED BY <2>1, <2>2, <2>3
  <1> DEFINE H == HeldFrom
             w == WindowSize
             From(k) == WindowFrom(k)
  <1>5. ASSUME NEW k \in Windows
        PROVE  /\ k \in 0 .. (table.splits - 1)
               /\ From(k) \in Int /\ w \in Nat \ {0} /\ From(k) = H - (table.splits - k) * w
               /\ WindowOf(k) = From(k) .. (From(k) + w - 1) /\ From(k) - table.purge > 0 /\ From(k) + w <= H
               /\ Before(k) = 0 .. (From(k) - table.purge - 1)
    <2>1. k \in 0 .. (table.splits - 1) /\ Before(k) # {}
      BY DEF Windows
    <2>2. /\ From(k) \in Int /\ w \in Nat \ {0} /\ WindowOf(k) = From(k) .. (From(k) + w - 1) /\ From(k) + w <= H
          /\ From(k) = H - (table.splits - k) * w
          /\ Before(k) = IF From(k) - table.purge >= 0 THEN 0 .. (From(k) - table.purge - 1) ELSE {}
      BY <1>2, <2>1, WindowIs
    <2> HIDE DEF H, w, From
    <2> QED BY <1>1, <2>1, <2>2
  <1>6. ASSUME NEW k \in Windows
        PROVE  /\ Before(k) \cup WindowOf(k) \subseteq TableTrain
               /\ \A i \in Before(k), j \in WindowOf(k) : i + table.purge < j
    <2>1. TableTrain = 0 .. (H - 1)
      BY DEF TableTrain
    <2> HIDE DEF H, w, From
    <2>5. PICK f \in Int, v \in Nat \ {0}, p \in Nat, h \in Nat :
            /\ WindowOf(k) = f .. (f + v - 1) /\ f - p > 0 /\ f + v <= h /\ Before(k) = 0 .. (f - p - 1)
            /\ p = table.purge /\ h = H
      <3>1. /\ From(k) \in Int /\ w \in Nat \ {0} /\ WindowOf(k) = From(k) .. (From(k) + w - 1)
            /\ From(k) - table.purge > 0 /\ From(k) + w <= H /\ Before(k) = 0 .. (From(k) - table.purge - 1)
        BY <1>5
      <3>2. table.purge \in Nat /\ H \in Nat
        BY <1>1, <1>2 DEF H
      <3> QED BY <3>1, <3>2
    <2>2. WindowOf(k) \subseteq 0 .. (H - 1)
      BY <2>5
    <2>3. Before(k) \subseteq 0 .. (H - 1)
      BY <2>5
    <2>4. \A i \in Before(k), j \in WindowOf(k) : i + table.purge < j
      BY <2>5
    <2> QED BY <2>1, <2>2, <2>3, <2>4
  <1>7. ASSUME Windows # {} PROVE HeldFrom - 1 \in UNION {WindowOf(k) : k \in Windows}
    <2>1. PICK k \in Windows : TRUE
      BY <1>7
    <2> DEFINE l == table.splits - 1
    <2>2. l \in 0 .. (table.splits - 1) /\ table.splits - l = 1
      BY <1>1
    <2>3. /\ From(l) \in Int /\ w \in Nat \ {0} /\ WindowOf(l) = From(l) .. (From(l) + w - 1)
          /\ From(l) = H - (table.splits - l) * w
          /\ Before(l) = IF From(l) - table.purge >= 0 THEN 0 .. (From(l) - table.purge - 1) ELSE {}
      BY <1>2, <2>2, WindowIs
    <2>4. From(l) = H - w
      <3> HIDE DEF H, w, From, l
      <3> QED BY <2>2, <2>3
    <2>5. From(k) <= From(l)
      <3>1. table.splits - k \in 1 .. 3
        BY <1>1, <1>5
      <3>2. w \in Nat \ {0} /\ From(k) = H - (table.splits - k) * w /\ H \in Nat
        BY <1>2, <1>5
      <3> HIDE DEF H, w, From, l
      <3>3. table.splits - k = 1 \/ table.splits - k = 2 \/ table.splits - k = 3
        BY <3>1
      <3>4. (table.splits - k) * w >= w /\ (table.splits - k) * w \in Int
        <4>1. ASSUME NEW x \in 1 .. 3 PROVE x * w >= w /\ x * w \in Int
          <5>1. x = 1 \/ x = 2 \/ x = 3
            OBVIOUS
          <5> QED BY <3>2, <5>1
        <4> QED BY <3>1, <4>1
      <3> QED BY <2>4, <3>2, <3>4
    <2>6. Before(l) # {} /\ H - 1 \in WindowOf(l)
      <3>1. From(k) - table.purge > 0 /\ From(k) \in Int
        BY <1>5
      <3> HIDE DEF H, w, From, l
      <3>2. From(l) - table.purge > 0
        BY <1>1, <2>3, <2>5, <3>1
      <3>3. 0 \in 0 .. (From(l) - table.purge - 1)
        BY <1>1, <2>3, <3>2
      <3> QED BY <1>1, <1>2, <2>3, <2>4, <3>2, <3>3 DEF H
    <2>7. l \in Windows
      BY <2>2, <2>6 DEF Windows
    <2> QED BY <2>6, <2>7
  <1>8. ASSUME NEW k \in Windows, NEW l \in Windows, k # l PROVE WindowOf(k) \cap WindowOf(l) = {}
    <2>1. w \in Nat \ {0} /\ H \in Nat
      BY <1>2, <1>5
    <2>2. ASSUME NEW x \in Windows, NEW y \in Windows, x < y PROVE From(x) + w <= From(y)
      <3>1. table.splits - x \in 1 .. 3 /\ table.splits - y \in 1 .. 3 /\ table.splits - y < table.splits - x
        <4>1. x \in 0 .. (table.splits - 1) /\ y \in 0 .. (table.splits - 1)
          BY <1>5
        <4> QED BY <1>1, <2>2, <4>1
      <3>2. From(x) = H - (table.splits - x) * w /\ From(y) = H - (table.splits - y) * w
        BY <1>5
      <3> HIDE DEF H, w, From
      <3>3. ASSUME NEW a \in 1 .. 3, NEW b \in 1 .. 3, b < a PROVE H - a * w + w <= H - b * w
        <4>1. (a = 2 /\ b = 1) \/ (a = 3 /\ b = 1) \/ (a = 3 /\ b = 2)
          BY <3>3
        <4> QED BY <2>1, <4>1
      <3> QED BY <3>1, <3>2, <3>3
    <2>3. k \in Int /\ l \in Int
      BY <1>1, <1>5
    <2>4. WindowOf(k) = From(k) .. (From(k) + w - 1) /\ WindowOf(l) = From(l) .. (From(l) + w - 1)
          /\ From(k) \in Int /\ From(l) \in Int
      BY <1>5
    <2>5. From(k) + w <= From(l) \/ From(l) + w <= From(k)
      <3>1. k < l \/ l < k
        BY <1>8, <2>3
      <3> QED BY <2>2, <3>1
    <2> HIDE DEF H, w, From
    <2> QED BY <2>1, <2>4, <2>5
  <1> QED BY <1>4, <1>6, <1>7, <1>8

(* A price more changes no label that was given: the bars it looks at are there already. *)
LEMMA LabelSettles ==
  ASSUME NEW p \in Seq(PriceLevels), NEW x \in PriceLevels, NEW t \in Labelled(p)
  PROVE  LabelAt(Append(p, x), t) = LabelAt(p, t)
  <1> DEFINE q == Append(p, x)
  <1>1. Horizon \in Nat /\ MinHistory \in Nat
    BY TrainingAssumption
  <1>2. Len(p) \in Nat /\ Len(q) = Len(p) + 1 /\ \A i \in 1 .. Len(p) : q[i] = p[i]
    OBVIOUS
  <1> HIDE DEF q
  <1>3. t \in 1 .. Len(p) /\ t + Horizon <= Len(p) /\ t \in Nat
    BY <1>1, <1>2 DEF Labelled
  <1>4. LastBar(p, t) = t + Horizon /\ LastBar(q, t) = t + Horizon
    <2>1. t + Horizon \in Int /\ Len(p) \in Int /\ Len(q) \in Int
      BY <1>1, <1>2, <1>3
    <2>2. Min({t + Horizon, Len(p)}) = t + Horizon
      BY <1>3, <2>1, MinOfTwo
    <2>3. Min({t + Horizon, Len(q)}) = t + Horizon
      <3>1. t + Horizon <= Len(q)
        BY <1>2, <1>3, <2>1
      <3> QED BY <2>1, <3>1, MinOfTwo
    <2> QED BY <2>2, <2>3 DEF LastBar
  <1>5. Hits(q, t) = Hits(p, t)
    <2>1. \A i \in (t + 1) .. (t + Horizon) : q[i] = p[i]
      BY <1>1, <1>2, <1>3
    <2>2. q[t] = p[t]
      BY <1>2, <1>3
    <2>3. Hits(q, t) = {i \in (t + 1) .. (t + Horizon) : HitsProfit(q, i, t) \/ HitsStop(q, i, t)}
      BY <1>4 DEF Hits
    <2>4. Hits(p, t) = {i \in (t + 1) .. (t + Horizon) : HitsProfit(p, i, t) \/ HitsStop(p, i, t)}
      BY <1>4 DEF Hits
    <2> QED BY <2>1, <2>2, <2>3, <2>4 DEF HitsProfit, HitsStop
  <1>6. Exit(q, t) = Exit(p, t)
    BY <1>4, <1>5 DEF Exit
  <1>7. Exit(p, t) \in 1 .. Len(p)
    <2>1. CASE Hits(p, t) = {}
      BY <1>1, <1>2, <1>3, <1>4, <2>1 DEF Exit
    <2>2. CASE Hits(p, t) # {}
      <3>1. Hits(p, t) \subseteq (t + 1) .. (t + Horizon)
        BY <1>4 DEF Hits
      <3>2. Hits(p, t) \subseteq Nat
        BY <1>1, <1>3, <3>1
      <3>3. \E m \in Hits(p, t) : \A k \in Hits(p, t) : m <= k
        BY <2>2, <3>2, LeastNatural
      <3>4. Min(Hits(p, t)) \in Hits(p, t)
        BY <3>3 DEF Min
      <3>5. Exit(p, t) \in (t + 1) .. (t + Horizon)
        BY <2>2, <3>1, <3>4 DEF Exit
      <3> QED BY <1>1, <1>2, <1>3, <3>5
    <2> QED BY <2>1, <2>2
  <1>8. q[Exit(p, t)] = p[Exit(p, t)] /\ q[t] = p[t]
    BY <1>2, <1>3, <1>7
  <1>9. LabelAt(q, t) = LabelAt(p, t)
    BY <1>6, <1>8 DEF LabelAt
  <1> QED BY <1>9 DEF q

LEMMA LabelsStay ==
  StudyInv /\ [TrainingNext]_trainingVars =>
    [\A t \in Labelled(series) : LabelAt(series', t) = LabelAt(series, t)]_trainingVars
  <1> SUFFICES ASSUME StudyInv, TrainingNext, NEW t \in Labelled(series)
               PROVE  LabelAt(series', t) = LabelAt(series, t)
    BY DEF trainingVars
  <1>1. series \in Seq(PriceLevels)
    BY DEF StudyInv, TrainingTypeOK
  <1>2. CASE \E x \in PriceLevels : Observe(x)
    <2>1. PICK x \in PriceLevels : series' = Append(series, x)
      BY <1>2 DEF Observe
    <2> QED BY <1>1, <2>1, LabelSettles
  <1>3. CASE ~(\E x \in PriceLevels : Observe(x))
    <2>1. series' = series
      BY <1>3 DEF TrainingNext, LoadSamples, TestFold, Epoch, NextSplit
    <2> QED BY <2>1
  <1> QED BY <1>2, <1>3

(* A study begins with nothing done. *)
LEMMA TrainingStarts == TrainingInit => StudyInv
  <1> SUFFICES ASSUME TrainingInit PROVE StudyInv
    OBVIOUS
  <1>1. stage = "load" /\ losses = <<>> /\ series = <<>> /\ fold = 0 /\ best = [loss |-> 0, epoch |-> 0]
    BY DEF TrainingInit
  <1>2. Max({1, Epochs}) \in Nat \ {0}
    BY LimitIsPositive, TrainingAssumption
  <1>3. TrainingTypeOK
    <2>1. best.loss = 0 /\ best.epoch = 0 /\ 0 \in 0 .. Max({1, Epochs})
      BY <1>1, <1>2
    <2> QED BY <1>1, <2>1 DEF TrainingTypeOK
  <1>4. JobKept
    BY <1>1 DEF TrainingInit, JobKept
  <1>5. FoldKept
    BY <1>1 DEF FoldKept, InTraining
  <1>6. LossesKept
    BY <1>1 DEF LossesKept, BestOf
  <1>7. SplitKept
    BY DEF TrainingInit, SplitKept, Splits
  <1>8. TableKept
    <2> SUFFICES ASSUME study = "table" PROVE table \in TableRuns /\ table.pc = "load"
      BY DEF TableKept
    <2>1. table \in Tables
      BY DEF TrainingInit
    <2>2. table.pc = "load"
      BY <2>1 DEF Tables
    <2>3. Tables \subseteq TableRuns
      <3>1. TableSizes \subseteq Nat
        BY TrainingAssumption
      <3> QED BY <3>1 DEF Tables, TableRuns
    <2> QED BY <2>1, <2>2, <2>3
  <1> QED BY <1>3, <1>4, <1>5, <1>6, <1>7, <1>8 DEF StudyInv

(* What an action that leaves a study alone keeps of it. *)
LEMMA TrainUntouched ==
  ASSUME StudyInv, UNCHANGED <<study, job, fold, stage, losses, best>>
  PROVE  JobKept' /\ FoldKept' /\ LossesKept'
  <1>1. JobKept'
    BY DEF StudyInv, JobKept
  <1>2. FoldKept'
    BY DEF StudyInv, FoldKept, InTraining, FoldFits, FoldTestFrom, TrainEnd, RowTotal, Samples, SplitAt
  <1>3. LossesKept'
    BY DEF StudyInv, LossesKept, SinceBest
  <1> QED BY <1>1, <1>2, <1>3

LEMMA SplitUntouched == ASSUME StudyInv, UNCHANGED <<study, cv>> PROVE SplitKept'
  BY DEF StudyInv, SplitKept
LEMMA TableUntouched == ASSUME StudyInv, UNCHANGED <<study, table>> PROVE TableKept'
  BY DEF StudyInv, TableKept, TableRefused, HeldFrom

(* A price, the loading of the samples, ... *)
LEMMA ObserveStep == ASSUME StudyInv, NEW x \in PriceLevels, Observe(x) PROVE StudyInv'
  <1>1. UNCHANGED <<study, job, fold, stage, losses, best>> /\ UNCHANGED <<study, cv>> /\ UNCHANGED <<study, table>>
    BY DEF Observe
  <1>2. JobKept' /\ FoldKept' /\ LossesKept' /\ SplitKept' /\ TableKept'
    BY <1>1, TrainUntouched, SplitUntouched, TableUntouched
  <1>3. TrainingTypeOK'
    BY DEF Observe, StudyInv, TrainingTypeOK
  <1> QED BY <1>2, <1>3 DEF StudyInv

LEMMA LoadStep == ASSUME StudyInv, LoadSamples PROVE StudyInv'
  <1>1. /\ study = "train" /\ stage = "load" /\ UNCHANGED <<study, series, job, fold, losses, best, tested, cv, table>>
        /\ stage' = IF RowTotal = 0 \/ Refused THEN "refused" ELSE "epoch"
    BY DEF LoadSamples
  <1>2. SplitKept' /\ TableKept'
    BY <1>1, SplitUntouched, TableUntouched
  <1>3. TrainingTypeOK' /\ JobKept'
    BY <1>1 DEF StudyInv, TrainingTypeOK, JobKept
  <1>4. job \in Jobs /\ losses = <<>> /\ BestOf(losses, best)
    BY <1>1 DEF StudyInv, JobKept, LossesKept
  <1>5. FoldKept'
    <2> SUFFICES ASSUME stage' = "epoch"
                 PROVE  IF job.walk THEN FoldFits(fold) ELSE SplitAt > 1 /\ SplitAt < RowTotal
      BY <1>1 DEF FoldKept, InTraining, FoldFits, FoldTestFrom, TrainEnd, RowTotal, Samples, SplitAt
    <2>1. ~Refused
      BY <1>1
    <2>2. RowTotal \in Nat /\ SplitAt \in Nat
      BY <1>4, JobFields DEF SplitAt
    <2>3. fold = 0
      BY <1>1 DEF StudyInv, JobKept
    <2> QED BY <1>4, <2>1, <2>2, <2>3 DEF Refused
  <1>6. LossesKept'
    <2>1. BestOf(losses', best')
      BY <1>1, <1>4
    <2>2. Max({1, Patience}) \in Nat \ {0} /\ Max({1, Epochs}) \in Nat \ {0}
      BY LimitIsPositive, TrainingAssumption
    <2>3. SinceBest' = 0 /\ Len(losses') = 0
      BY <1>1, <1>4 DEF SinceBest, BestOf
    <2> QED BY <1>1, <1>4, <2>1, <2>2, <2>3 DEF LossesKept
  <1> QED BY <1>2, <1>3, <1>5, <1>6 DEF StudyInv

(* ... an epoch, which is the best so far or one more without improvement, ... *)
LEMMA EpochStep == ASSUME StudyInv, NEW l \in Losses, Epoch(l) PROVE StudyInv'
  <1>1. /\ study = "train" /\ stage = "epoch" /\ losses' = Append(losses, l)
        /\ best' = IF Improves(l) THEN [loss |-> l, epoch |-> Len(losses) + 1] ELSE best
        /\ stage' = IF Stops(IF Improves(l) THEN 0 ELSE SinceBest + 1, Len(losses) + 1) THEN "tested" ELSE "epoch"
        /\ UNCHANGED <<study, series, job, fold, tested, cv, table>>
    BY DEF Epoch
  <1>2. SplitKept' /\ TableKept'
    BY <1>1, SplitUntouched, TableUntouched
  <1>3. JobKept'
    BY <1>1 DEF StudyInv, JobKept
  <1>4. FoldKept'
    <2>1. FoldKept /\ InTraining
      BY <1>1 DEF StudyInv, InTraining
    <2>2. UNCHANGED <<job, fold>>
      BY <1>1
    <2> QED BY <2>1, <2>2 DEF FoldKept, FoldFits, FoldTestFrom, TrainEnd, RowTotal, Samples, SplitAt
  <1> DEFINE n == Len(losses)
             M == Max({1, Epochs})
             P == Max({1, Patience})
  <1>5. M \in Nat \ {0} /\ P \in Nat \ {0}
    BY LimitIsPositive, TrainingAssumption
  <1>6. losses \in Seq(Losses) /\ n \in Nat /\ n < M /\ SinceBest < P /\ BestOf(losses, best) /\ best.loss \in Losses \cup {0}
        /\ DOMAIN losses = 1 .. n /\ (losses = <<>> <=> n = 0)
    BY <1>1 DEF StudyInv, TrainingTypeOK, LossesKept
  <1>7. Losses \subseteq Nat \ {0} /\ l \in Nat \ {0}
    BY TrainingAssumption
  <1>8. best.epoch \in 0 .. n /\ SinceBest = n - best.epoch
    BY <1>6 DEF BestOf, SinceBest
  <1>9. losses' \in Seq(Losses) /\ Len(losses') = n + 1 /\ DOMAIN losses' = 1 .. n + 1 /\ losses' # <<>>
        /\ losses'[n + 1] = l /\ \A i \in 1 .. n : losses'[i] = losses[i]
    BY <1>1, <1>6
  <1>10. \A i \in 1 .. n : losses[i] \in Nat
    <2> SUFFICES ASSUME NEW i \in 1 .. n PROVE losses[i] \in Nat
      OBVIOUS
    <2>1. losses[i] \in Losses
      BY <1>6
    <2> QED BY <1>7, <2>1
  <1> HIDE DEF n, M, P
  <1>11. CASE Improves(l)
    <2>1. best' = [loss |-> l, epoch |-> n + 1]
      BY <1>1, <1>11 DEF n
    <2>2. best'.loss = l /\ best'.epoch = n + 1
      BY <2>1
    <2>3. \A i \in 1 .. n : l <= losses[i]
      <3>1. CASE n = 0
        BY <3>1
      <3>2. CASE n # 0
        <4>1. best.epoch \in 1 .. n /\ best.loss = losses[best.epoch] /\ \A i \in 1 .. n : best.loss <= losses[i]
          BY <1>6, <3>2 DEF BestOf
        <4>2. losses[best.epoch] \in Losses
          BY <1>6, <4>1
        <4>3. best.loss \in Nat \ {0}
          BY <1>7, <4>1, <4>2
        <4>4. l < best.loss
          BY <1>11, <4>3 DEF Improves
        <4> QED BY <1>7, <1>10, <4>1, <4>3, <4>4
      <3> QED BY <3>1, <3>2
    <2>4. BestOf(losses', best')
      <3>1. n + 1 \in 1 .. n + 1
        BY <1>6
      <3>2. ASSUME NEW i \in 1 .. n + 1 PROVE l <= losses'[i]
        <4>1. CASE i = n + 1
          BY <1>7, <1>9, <4>1
        <4>2. CASE i # n + 1
          <5>1. i \in 1 .. n
            BY <1>6, <4>2
          <5> QED BY <1>9, <2>3, <5>1
        <4> QED BY <4>1, <4>2
      <3> QED BY <1>9, <2>2, <3>1, <3>2 DEF BestOf
    <2>5. SinceBest' = 0
      BY <1>6, <1>9, <2>2 DEF SinceBest
    <2>6. stage' = IF n + 1 = M THEN "tested" ELSE "epoch"
      <3>1. stage' = IF Stops(0, n + 1) THEN "tested" ELSE "epoch"
        BY <1>1, <1>11 DEF n
      <3>2. Stops(0, n + 1) <=> n + 1 = M
        BY <1>5 DEF Stops, M, P
      <3> QED BY <3>1, <3>2
    <2>7. LossesKept'
      <3>1. stage' = "epoch" => SinceBest' < P /\ Len(losses') < M
        BY <1>5, <1>6, <1>9, <2>5, <2>6
      <3>2. stage' = "tested" => Len(losses') = M
        BY <1>9, <2>6
      <3>3. stage' \in {"epoch", "tested"}
        BY <2>6
      <3> QED BY <2>4, <3>1, <3>2, <3>3 DEF LossesKept, M, P
    <2>8. TrainingTypeOK'
      <3>1. best'.loss \in Losses \cup {0} /\ best'.epoch \in 0 .. M
        BY <1>5, <1>6, <2>2
      <3>2. series' \in Seq(PriceLevels) /\ fold' \in Nat
        BY <1>1 DEF StudyInv, TrainingTypeOK
      <3> QED BY <1>9, <2>6, <3>1, <3>2 DEF TrainingTypeOK, M
    <2> QED BY <1>2, <1>3, <1>4, <2>7, <2>8 DEF StudyInv
  <1>12. CASE ~Improves(l)
    <2>1. best' = best
      BY <1>1, <1>12
    <2>2. n # 0 /\ best.loss <= l
      <3>1. best.loss # 0 /\ ~(l < best.loss)
        BY <1>12 DEF Improves
      <3>2. n # 0
        BY <1>6, <3>1 DEF BestOf
      <3>3. best.loss \in Nat
        <4>1. best.loss \in Losses
          BY <1>6, <3>1
        <4> QED BY <1>7, <4>1
      <3> QED BY <1>7, <3>1, <3>2, <3>3
    <2>3. best.epoch \in 1 .. n /\ best.loss = losses[best.epoch] /\ \A i \in 1 .. n : best.loss <= losses[i]
      BY <1>6, <2>2 DEF BestOf
    <2>4. BestOf(losses', best')
      <3>1. best.epoch \in 1 .. n + 1 /\ best.loss = losses'[best.epoch]
        BY <1>6, <1>9, <2>3
      <3>2. ASSUME NEW i \in 1 .. n + 1 PROVE best.loss <= losses'[i]
        <4>1. CASE i = n + 1
          BY <1>9, <2>2, <4>1
        <4>2. CASE i # n + 1
          <5>1. i \in 1 .. n
            BY <1>6, <4>2
          <5> QED BY <1>9, <2>3, <5>1
        <4> QED BY <4>1, <4>2
      <3> QED BY <1>9, <2>1, <3>1, <3>2 DEF BestOf
    <2>5. SinceBest' = SinceBest + 1 /\ SinceBest \in Nat
      <3>1. SinceBest' = (n + 1) - best.epoch
        BY <1>9, <2>1 DEF SinceBest
      <3> QED BY <1>6, <1>8, <3>1
    <2>6. stage' = IF SinceBest + 1 >= P \/ n + 1 = M THEN "tested" ELSE "epoch"
      <3>1. stage' = IF Stops(SinceBest + 1, n + 1) THEN "tested" ELSE "epoch"
        BY <1>1, <1>12 DEF n
      <3> QED BY <3>1 DEF Stops, M, P
    <2>7. LossesKept'
      <3>1. stage' = "epoch" => SinceBest' < P /\ Len(losses') < M
        BY <1>5, <1>6, <1>9, <2>5, <2>6
      <3>2. stage' = "tested" => SinceBest' = P \/ Len(losses') = M
        BY <1>5, <1>6, <1>9, <2>5, <2>6
      <3>3. stage' \in {"epoch", "tested"}
        BY <2>6
      <3> QED BY <2>4, <3>1, <3>2, <3>3 DEF LossesKept, M, P
    <2>8. TrainingTypeOK'
      <3>1. best'.loss \in Losses \cup {0} /\ best'.epoch \in 0 .. M
        BY <1>5, <1>6, <2>1, <2>3
      <3>2. series' \in Seq(PriceLevels) /\ fold' \in Nat
        BY <1>1 DEF StudyInv, TrainingTypeOK
      <3> QED BY <1>9, <2>6, <3>1, <3>2 DEF TrainingTypeOK, M
    <2> QED BY <1>2, <1>3, <1>4, <2>7, <2>8 DEF StudyInv
  <1> QED BY <1>11, <1>12

(* ... the test of a fold, after which the next one fits or there is none, ... *)
LEMMA TestStep == ASSUME StudyInv, TestFold PROVE StudyInv'
  <1>1. /\ study = "train" /\ stage = "tested" /\ UNCHANGED <<study, series, job, cv, table>>
        /\ fold' = fold + 1 /\ stage' = IF LastFold(fold) THEN "done" ELSE "epoch"
        /\ losses' = <<>> /\ best' = [loss |-> 0, epoch |-> 0]
    BY DEF TestFold
  <1>2. SplitKept' /\ TableKept'
    BY <1>1, SplitUntouched, TableUntouched
  <1>3. Max({1, Epochs}) \in Nat \ {0} /\ Max({1, Patience}) \in Nat \ {0}
    BY LimitIsPositive, TrainingAssumption
  <1>4. best'.loss = 0 /\ best'.epoch = 0 /\ Len(losses') = 0
    BY <1>1
  <1>5. TrainingTypeOK'
    BY <1>1, <1>3, <1>4 DEF StudyInv, TrainingTypeOK
  <1>6. JobKept'
    BY <1>1 DEF StudyInv, JobKept
  <1>7. FoldKept'
    <2> SUFFICES ASSUME stage' = "epoch"
                 PROVE  job.walk /\ FoldFits(fold + 1)
      BY <1>1 DEF FoldKept, InTraining, FoldFits, FoldTestFrom, TrainEnd, RowTotal, Samples, SplitAt
    <2> QED BY <1>1 DEF LastFold
  <1>8. LossesKept'
    BY <1>1, <1>3, <1>4 DEF LossesKept, BestOf, SinceBest
  <1> QED BY <1>2, <1>5, <1>6, <1>7, <1>8 DEF StudyInv

(* ... the next number of samples to split, ... *)
LEMMA SplitStep == ASSUME StudyInv, NextSplit PROVE StudyInv'
  <1>1. study = "cv" /\ cv' = [cv EXCEPT !.n = @ + 1]
        /\ UNCHANGED <<study, series, job, fold, stage, losses, best, tested, table>>
    BY DEF NextSplit
  <1>2. JobKept' /\ FoldKept' /\ LossesKept' /\ TableKept'
    BY <1>1, TrainUntouched, TableUntouched
  <1>3. TrainingTypeOK'
    BY <1>1 DEF StudyInv, TrainingTypeOK
  <1>4. SplitKept'
    <2>1. cv \in [n : Nat \ {0}, splits : 1 .. 4, purge : 0 .. 2, embargo : 0 .. 2]
      BY <1>1 DEF StudyInv, SplitKept
    <2>2. cv.n + 1 \in Nat \ {0}
      BY <2>1
    <2>3. cv' \in [n : Nat \ {0}, splits : 1 .. 4, purge : 0 .. 2, embargo : 0 .. 2]
      BY <1>1, <2>1, <2>2
    <2> QED BY <2>3 DEF SplitKept
  <1> QED BY <1>2, <1>3, <1>4 DEF StudyInv

(* ... and what the tabular trainer does, which never changes the rows. *)
LEMMA TableStepKeeps ==
  ASSUME StudyInv, TableStep, UNCHANGED <<study, series, job, fold, stage, losses, best, tested, cv>>
  PROVE  StudyInv'
  <1>1. JobKept' /\ FoldKept' /\ LossesKept' /\ SplitKept'
    BY TrainUntouched, SplitUntouched
  <1>2. TrainingTypeOK'
    BY DEF StudyInv, TrainingTypeOK
  <1>3. TableKept'
    <2> SUFFICES ASSUME study = "table"
                 PROVE  table' \in TableRuns /\ (table'.pc \notin {"load", "refused"} => ~TableRefused')
      BY DEF TableKept
    <2>1. table \in TableRuns /\ (table.pc \notin {"load", "refused"} => ~TableRefused)
      BY DEF StudyInv, TableKept
    <2>2. table'.n = table.n => (TableRefused' <=> TableRefused)
      BY DEF TableRefused, HeldFrom
    <2>3. CASE LoadTable
      <3>1. table' = [table EXCEPT !.pc = IF TableRefused THEN "refused" ELSE "tune"]
        BY <2>3 DEF LoadTable
      <3>2. table' \in TableRuns /\ table'.n = table.n /\ table'.pc = IF TableRefused THEN "refused" ELSE "tune"
        BY <2>1, <3>1 DEF TableRuns
      <3> QED BY <2>2, <3>2
    <2>4. CASE SaveTable
      <3>1. table.pc = "fit" /\ table' = [table EXCEPT !.pc = "saved"]
        BY <2>4 DEF SaveTable
      <3>2. table' \in TableRuns /\ table'.n = table.n
        BY <2>1, <3>1 DEF TableRuns
      <3> QED BY <2>1, <2>2, <3>1, <3>2
    <2>5. ASSUME NEW raises \in BOOLEAN, TuneTable(raises)
          PROVE  table' \in TableRuns /\ (table'.pc \notin {"load", "refused"} => ~TableRefused')
      <3>1. PICK found \in BOOLEAN, scored \in BOOLEAN :
              table' = [table EXCEPT !.pc = "fit", !.tuned = found, !.scored = scored]
        BY <2>5 DEF TuneTable
      <3>2. table' \in TableRuns /\ table'.n = table.n
        BY <2>1, <3>1 DEF TableRuns
      <3>3. table.pc = "tune"
        BY <2>5 DEF TuneTable
      <3> QED BY <2>1, <2>2, <3>2, <3>3
    <2>6. ASSUME NEW raises \in BOOLEAN, NEW stopsEarly \in BOOLEAN, FitTuned(raises, stopsEarly)
          PROVE  table' \in TableRuns /\ (table'.pc \notin {"load", "refused"} => ~TableRefused')
      <3>1. TableTest \subseteq Int
        <4>1. HeldFrom \in Int /\ TestsFrom \in Int
          BY <2>1 DEF TableRuns, HeldFrom, TestsFrom
        <4> QED BY <4>1 DEF TableTest
      <3>2. PICK x \in SUBSET Int : \/ table' = [table EXCEPT !.model = "failed"]
                                    \/ table' = [table EXCEPT !.model = "tuned", !.stopped = x]
        BY <2>6, <3>1 DEF FitTuned
      <3>3. table' \in TableRuns /\ table'.n = table.n
        BY <2>1, <3>2 DEF TableRuns
      <3>4. table.pc = "fit"
        BY <2>6 DEF FitTuned
      <3> QED BY <2>1, <2>2, <3>3, <3>4
    <2>7. ASSUME NEW raises \in BOOLEAN, FitDefault(raises)
          PROVE  table' \in TableRuns /\ (table'.pc \notin {"load", "refused"} => ~TableRefused')
      <3>1. PICK m \in {"forest", "default"} : table' = [table EXCEPT !.model = m]
        BY <2>7 DEF FitDefault
      <3>2. table' \in TableRuns /\ table'.n = table.n
        BY <2>1, <3>1 DEF TableRuns
      <3>3. table.pc = "fit"
        BY <2>7 DEF FitDefault
      <3> QED BY <2>1, <2>2, <3>2, <3>3
    <2> QED BY <2>3, <2>4, <2>5, <2>6, <2>7 DEF TableStep
  <1> QED BY <1>1, <1>2, <1>3 DEF StudyInv

LEMMA TrainingSteps == StudyInv /\ [TrainingNext]_trainingVars => StudyInv'
  <1> SUFFICES ASSUME StudyInv, [TrainingNext]_trainingVars PROVE StudyInv'
    OBVIOUS
  <1>1. CASE UNCHANGED trainingVars
    <2>1. UNCHANGED <<study, job, fold, stage, losses, best>> /\ UNCHANGED <<study, cv>> /\ UNCHANGED <<study, table>>
      BY <1>1 DEF trainingVars
    <2>2. JobKept' /\ FoldKept' /\ LossesKept' /\ SplitKept' /\ TableKept'
      BY <2>1, TrainUntouched, SplitUntouched, TableUntouched
    <2>3. TrainingTypeOK'
      BY <1>1 DEF trainingVars, StudyInv, TrainingTypeOK
    <2> QED BY <2>2, <2>3 DEF StudyInv
  <1>2. CASE \E x \in PriceLevels : Observe(x)
    BY <1>2, ObserveStep
  <1>3. CASE LoadSamples
    BY <1>3, LoadStep
  <1>4. CASE TestFold
    BY <1>4, TestStep
  <1>5. CASE \E l \in Losses : Epoch(l)
    BY <1>5, EpochStep
  <1>6. CASE NextSplit
    BY <1>6, SplitStep
  <1>7. CASE TableStep /\ UNCHANGED <<study, series, job, fold, stage, losses, best, tested, cv>>
    BY <1>7, TableStepKeeps
  <1> QED BY <1>1, <1>2, <1>3, <1>4, <1>5, <1>6, <1>7 DEF TrainingNext

(* All of it: labels that no later price changes and that end before the test where the purge gap is
   the horizon, folds and windows apart, training that stops in time with its smallest loss, a split
   that tests every sample once (barriers.py, labeler.py, transformer_baselines.py, walk_forward.py,
   cv.py and trainer.py), for datasets of any size and every value of the constants.               *)
THEOREM TrainingIsSound == TrainingSpec => TrainingSound
  <1> DEFINE Good == TrainingTypeOK /\ LabelsEndBeforeTest /\ FoldsApart /\ StopsInTime /\ CvPartition /\ TableApart
             Settles == \A t \in Labelled(series) : LabelAt(series', t) = LabelAt(series, t)
  <1>1. TrainingInit => StudyInv
    BY TrainingStarts
  <1>2. StudyInv /\ [TrainingNext]_trainingVars => StudyInv'
    BY TrainingSteps
  <1>3. StudyInv => Good
    BY LabelsEnd, FoldsAreApart, LossesEnd, SplitIsPartition, TableIsApart DEF StudyInv
  <1>4. StudyInv /\ [TrainingNext]_trainingVars => [Settles]_trainingVars
    BY LabelsStay
  <1>5. TrainingSound <=> []Good /\ [][Settles]_trainingVars
    BY DEF TrainingSound, LabelsSettle
  <1> HIDE DEF Good, Settles
  <1> QED BY <1>1, <1>2, <1>3, <1>4, <1>5, PTL DEF TrainingSpec
=============================================================================
