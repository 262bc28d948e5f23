-------------------------- MODULE ProjectionLearning --------------------------
(***************************************************************************)
(* The projection learning of src/api/frontend_routes.py for one symbol    *)
(* and timeframe: every projection request judges the previous prediction  *)
(* when it is old enough, replaces it by its own, and saves the state to a *)
(* file through a temporary file.  Whether a judged prediction had the     *)
(* right direction, and how near it came, depends on the prices and is     *)
(* open here; the calibrated confidence is left out.  Time is in units of  *)
(* 300 s, the least age the code accepts, the reliability in millionths,   *)
(* to which the code rounds it.                                            *)
(***************************************************************************)
EXTENDS Integers

CONSTANTS Timeframes,     \* the timeframe in units of 300 s, one chosen per behaviour
          MaxWait,        \* four hours
          Magnitudes,     \* how near a prediction comes to the return, in percent
          MaxClock, MaxRequests

ASSUME LearningAssumption ==
  /\ Timeframes \subseteq Nat \ {0} /\ {MaxWait, MaxClock} \subseteq Nat \ {0}
  /\ MaxRequests \in Nat /\ \A m \in Magnitudes : m \in Nat /\ m <= 100

VARIABLES candles,     \* there are candles: the anchor is the latest one, not the time of the request
          timeframe, now,
          candle,      \* the time of the latest candle
          spoilt,      \* history: a candle was late, or one request did not get it
          record, saved, loaded, requests

learningVars == <<candles, timeframe, now, candle, spoilt, record, saved, loaded, requests>>

LowestReliability == 300000
StartReliability == 580000
HighestReliability == 980000
Reliabilities == {r \in Nat : LowestReliability <= r /\ r <= HighestReliability}

\* The latest prediction is its anchor time, 0 for none.
NoRecord == [observations |-> 0, wins |-> 0, losses |-> 0, reliability |-> StartReliability, last |-> 0]
LearningRecords ==
  [observations : 0 .. MaxRequests, wins : 0 .. MaxRequests, losses : 0 .. MaxRequests,
   reliability : Reliabilities, last : 0 .. MaxClock]

LearningTypeOK ==
  /\ candles \in BOOLEAN /\ timeframe \in Timeframes /\ now \in 1 .. MaxClock /\ candle \in 1 .. now
  /\ spoilt \in BOOLEAN /\ loaded \in BOOLEAN
  /\ record \in LearningRecords /\ saved \in LearningRecords /\ requests \in 0 .. MaxRequests

LearningInit ==
  /\ candles \in BOOLEAN /\ timeframe \in Timeframes /\ now = 1 /\ candle = 1 /\ spoilt = FALSE
  /\ record = NoRecord /\ saved = NoRecord /\ loaded = FALSE /\ requests = 0

\* evaluation_after_seconds: the timeframe, at least 300 s and at most four hours (MaxWait, 48 units in the code).
EvaluationAfter == IF timeframe < 1 THEN 1 ELSE IF timeframe > MaxWait THEN MaxWait ELSE timeframe

\* _ensure_projection_learning_state_loaded: the file is read once per process.
Current == IF loaded THEN record ELSE saved

DueEarly(rec) == rec.last > 0                                              \* mutant
Due(rec) == rec.last > 0 /\ now >= rec.last + EvaluationAfter

\* The score of a judged prediction, 72 % for its direction and 28 % for how near it came, and the
\* reliability that follows the scores.
Score(won, near) == (IF won THEN 720000 ELSE 0) + 2800 * near
Clamp(x) ==
  IF x < LowestReliability THEN LowestReliability ELSE IF x > HighestReliability THEN HighestReliability ELSE x
Reliability(old, won, near) == Clamp((88 * old + 12 * Score(won, near) + 50) \div 100)

\* The record after a request anchored at a time: a prediction that is due is judged.
After(rec, won, near, anchor) ==
  IF ~Due(rec) THEN [rec EXCEPT !.last = anchor]
  ELSE [observations |-> rec.observations + 1,
        wins |-> rec.wins + (IF won THEN 1 ELSE 0), losses |-> rec.losses + (IF won THEN 0 ELSE 1),
        reliability |-> Reliability(rec.reliability, won, near), last |-> anchor]

\* get_ai_projection takes the time of the latest candle for the anchor, or its own when it gets none;
\* saving replaces the file as a whole, and a failure to save is ignored.
Project ==
  /\ requests < MaxRequests /\ requests' = requests + 1
  /\ \E fetched \in IF candles THEN BOOLEAN ELSE {FALSE} :
       /\ spoilt' = (spoilt \/ (candles /\ ~fetched))
       /\ \E won \in BOOLEAN, near \in Magnitudes :
            record' = After(Current, won, near, IF fetched THEN candle ELSE now)
  /\ saved' \in {record', saved}
  /\ loaded' = TRUE
  /\ UNCHANGED <<candles, timeframe, now, candle>>

\* Time passes; the next candle is there when the timeframe of the last one is over, or late (as over a
\* weekend).
Pass ==
  /\ now < MaxClock /\ now' = now + 1
  /\ \/ candles /\ now' >= candle + timeframe /\ candle' = now' /\ UNCHANGED spoilt
     \/ UNCHANGED candle /\ spoilt' = (spoilt \/ (candles /\ now' >= candle + timeframe))
  /\ UNCHANGED <<candles, timeframe, record, saved, loaded, requests>>

LearningRestart ==
  loaded /\ loaded' = FALSE
  /\ UNCHANGED <<candles, timeframe, now, candle, spoilt, record, saved, requests>>

LearningNext == Project \/ Pass \/ LearningRestart

LearningSpec == LearningInit /\ [][LearningNext]_learningVars

-----------------------------------------------------------------------------
\* Every observation is a win or a loss, through restarts and lost saves, and the reliability tells the
\* same story: without a win it is not above where it starts, without a loss not below.
ReliabilityIsEarned ==
  \A rec \in {record, saved} :
    /\ rec.observations = rec.wins + rec.losses
    /\ rec.wins = 0 => rec.reliability <= StartReliability
    /\ rec.losses = 0 => rec.reliability >= StartReliability

\* Requests alone teach nothing: two judgements are apart by the evaluation time, through restarts and
\* lost saves, while predictions are anchored at the time they are asked for, or at candles of at most
\* four hours that come in time.  (Anchored at a candle that is late, or of a longer timeframe, every
\* request counts once the candle is old enough.)
ObservationsTakeTime ==
  ~candles \/ (timeframe <= MaxWait /\ ~spoilt) => record.observations * EvaluationAfter <= now

\* All of it: what is learnt from judged predictions (frontend_routes.py).
LearningIsHonest == LearningTypeOK /\ ReliabilityIsEarned /\ ObservationsTakeTime
=============================================================================
