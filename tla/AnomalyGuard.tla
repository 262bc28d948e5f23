---------------------------- MODULE AnomalyGuard ----------------------------
(* execution/anomaly_guard.py and the AnomalyRiskManager of ml/anomaly_detector.py it asks.  What a *)
(* detector says of the last sample is a vote; shares of a position are counted in 24ths, so that    *)
(* the multiplier of one to four detectors is exact.  The risk manager is also used alone, with its  *)
(* autoencoder; the guard switches that off.                                                         *)
EXTENDS Integers, FiniteSets

CONSTANTS
  Fractions,         \* target fractions tried (negative: a sale)
  MaxEvaluations,    \* bound: evaluations and fits
  NoResult

ASSUME GuardAssumption == Fractions \subseteq Int

VARIABLES
  guarded,     \* the guard is in front of the risk manager
  fitted,      \* _is_fitted of the guard
  detectors,   \* the fitted detectors that look at features
  disk,        \* what save() stored: a set of detectors, or NoResult
  mimo,        \* mimo_veto_active
  guardStats,  \* the counters
  result,      \* of the last evaluation: what was asked, what was decided
  anomalies    \* len(anomaly_history)

guardVars == <<guarded, fitted, detectors, disk, mimo, guardStats, result, anomalies>>

Counters == {"evaluations", "pass", "reduce", "veto", "mimo"}
Evaluations == guardStats["evaluations"]

-----------------------------------------------------------------------------
(* detect_anomalies: the fitted detectors and, with more than 100 prices or volumes, a test of each. *)
Majority(votes, total) == votes >= total \div 2 + 1
Veto(votes, total) == 5 * votes >= 4 * total      \* score at least veto_threshold, 0.8
Moderate(votes, total) == 5 * votes >= 2 * total  \* ... reduce_threshold, 0.4

\* 1 - score / 2 when the majority votes for an anomaly.  The floors of 0.1 in both files never bind.
Multiplier(votes, total) == IF Majority(votes, total) THEN 24 - (12 * votes) \div total ELSE 24

Adjusted(fraction, votes, total) ==
  IF Veto(votes, total) THEN 0
  ELSE IF Moderate(votes, total) THEN fraction * Multiplier(votes, total)
  ELSE 24 * fraction
DecisionReduceFirst(votes, total) ==                                          \* mutant
  IF Moderate(votes, total) THEN "reduce" ELSE IF Veto(votes, total) THEN "veto" ELSE "pass"
Decision(votes, total) ==
  IF Veto(votes, total) THEN "veto" ELSE IF Moderate(votes, total) THEN "reduce" ELSE "pass"

Result(fraction, decision, adjusted, votes, total) ==
  [asked |-> 24 * fraction, decision |-> decision, adjusted |-> adjusted, votes |-> votes, total |-> total]

\* Detectors heard on this call: those fitted, and the tests of the series that were long enough.
Heard(series) == detectors \cup series

Counted(names) == [c \in Counters |-> IF c \in names THEN guardStats[c] + 1 ELSE guardStats[c]]

\* evaluate(): the supervisor's veto comes first and asks nobody.
EvaluateMimo(fraction) ==
  /\ guarded /\ mimo /\ Evaluations < MaxEvaluations
  /\ result' = Result(fraction, "veto", 0, 0, 0)
  /\ guardStats' = Counted({"evaluations", "mimo"})
  /\ UNCHANGED <<guarded, fitted, detectors, disk, mimo, anomalies>>

\* ... not fitted, or the detection raised: the trade goes through as it is.
EvaluateOpen(fraction) ==
  /\ guarded /\ ~mimo /\ Evaluations < MaxEvaluations
  /\ result' = Result(fraction, "pass", 24 * fraction, 0, 0)
  /\ guardStats' = Counted({"evaluations", "pass"})
  /\ UNCHANGED <<guarded, fitted, detectors, disk, mimo, anomalies>>

\* ... or the detectors are heard.
Evaluate(fraction, series, votes) ==
  /\ guarded /\ ~mimo /\ fitted /\ Evaluations < MaxEvaluations
  /\ votes \subseteq Heard(series)
  /\ LET n == Cardinality(votes)
         total == Cardinality(Heard(series))
     IN  /\ result' = Result(fraction, Decision(n, total), Adjusted(fraction, n, total), n, total)
         /\ guardStats' = Counted({"evaluations", Decision(n, total)})
         /\ anomalies' = IF Majority(n, total) THEN anomalies + 1 ELSE anomalies
  /\ UNCHANGED <<guarded, fitted, detectors, disk, mimo>>

\* The risk manager alone: adjust_position_size() of what detect_anomalies() returned.
AdjustPositionSize(fraction, series, votes) ==
  /\ ~guarded /\ Evaluations < MaxEvaluations
  /\ votes \subseteq Heard(series)
  /\ LET n == Cardinality(votes)
         total == Cardinality(Heard(series))
         agreed == total > 0 /\ Majority(n, total)
     IN  /\ result' = Result(fraction, IF agreed THEN "reduce" ELSE "pass",
                             IF agreed THEN fraction * Multiplier(n, total) ELSE 24 * fraction, n, total)
         /\ anomalies' = IF agreed THEN anomalies + 1 ELSE anomalies
  /\ guardStats' = Counted({"evaluations"})
  /\ UNCHANGED <<guarded, fitted, detectors, disk, mimo>>

-----------------------------------------------------------------------------
\* fit(): the forest first; a failure there leaves a detector fitted earlier, and the guard unfitted.
\* The autoencoder is made anew, and dropped when its training fails.
Fit ==
  /\ detectors' \in IF guarded THEN {{"forest"}} ELSE {{"forest"}, {"forest", "autoencoder"}}
  /\ fitted' = TRUE
  /\ UNCHANGED <<guarded, disk, mimo, guardStats, result, anomalies>>
FitFails ==
  /\ fitted' = FALSE
  /\ UNCHANGED <<guarded, detectors, disk, mimo, guardStats, result, anomalies>>

UpdateMimoVeto ==
  /\ guarded /\ mimo' = ~mimo
  /\ UNCHANGED <<guarded, fitted, detectors, disk, guardStats, result, anomalies>>

\* The forest and the history are stored; the autoencoder is not, and one that is there stays.
SaveDetectors ==
  /\ ~guarded /\ disk' = detectors \cap {"forest"}
  /\ UNCHANGED <<guarded, fitted, detectors, mimo, guardStats, result, anomalies>>
LoadDetectors ==
  /\ ~guarded /\ disk # NoResult
  /\ detectors' = (detectors \ {"forest"}) \cup disk
  /\ UNCHANGED <<guarded, fitted, disk, mimo, guardStats, result, anomalies>>

GuardInit ==
  /\ guarded \in BOOLEAN /\ fitted = FALSE /\ detectors = {} /\ disk = NoResult /\ mimo = FALSE
  /\ guardStats = [c \in Counters |-> 0] /\ result = NoResult /\ anomalies = 0

GuardNext ==
  \/ \E f \in Fractions : EvaluateMimo(f) \/ EvaluateOpen(f)
  \/ \E f \in Fractions, s \in SUBSET {"price", "volume"} :
       \E v \in SUBSET Heard(s) : Evaluate(f, s, v) \/ AdjustPositionSize(f, s, v)
  \/ Fit \/ FitFails \/ UpdateMimoVeto \/ SaveDetectors \/ LoadDetectors

GuardSpec == GuardInit /\ [][GuardNext]_guardVars

-----------------------------------------------------------------------------
\* A position is never made larger or turned round, and a veto leaves none of it.
NeverLarger ==
  result # NoResult =>
    /\ result.adjusted * result.asked >= 0
    /\ result.adjusted * result.adjusted <= result.asked * result.asked
    /\ result.decision = "veto" => result.adjusted = 0

\* One more detector that sees an anomaly never lets more of the position through.
MoreVotesLessTrade ==
  result # NoResult /\ result.votes < result.total /\ guarded /\ result.asked > 0 =>
    Adjusted(result.asked \div 24, result.votes + 1, result.total) <= result.adjusted

\* A single detector never reduces: it passes a trade or stops it.
OneDetectorIsAVeto == result # NoResult /\ guarded /\ result.total = 1 => result.decision # "reduce"

\* Every evaluation of the guard is counted once more, by what it decided.
StatsAddUp ==
  guarded => Evaluations = guardStats["pass"] + guardStats["reduce"] + guardStats["veto"] + guardStats["mimo"]

GuardSound == NeverLarger /\ MoreVotesLessTrade /\ OneDetectorIsAVeto /\ StatsAddUp

\* "REDUCE: anomaly detected, reduce position size".  Fails: the score of two detectors of which one
\* votes is 0.5, over the threshold, but half of the votes is no majority and the multiplier stays 1.
ReduceReduces ==
  result # NoResult /\ guarded /\ result.decision = "reduce" => result.adjusted # result.asked
=============================================================================
