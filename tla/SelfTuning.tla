------------------------------ MODULE SelfTuning ------------------------------
(* Models that keep themselves up to date: tuned by a pipeline, and learnt sample by sample.        *)
(* The pipeline that tunes the agents by itself (ml/continuous_automl.py): a run of trials, the    *)
(* walk-forward validation against the baseline, the registry on disk and the promotion, and the    *)
(* scheduler thread.  A run is split where another thread may come between: there is no lock.       *)
(* Ratios are in hundredths; an episode's return is a small number.                                 *)
EXTENDS Integers, Sequences, SequencesExt, FiniteSets, FiniteSetsExt
CONSTANTS TuneLoops,      \* scheduler threads that may come to be
          Caller,         \* the thread of a caller of run_optimization
          EpisodeReturns, \* what an evaluation episode can return
          Baselines,      \* baseline_metrics of a new pipeline
          Kept,           \* models the registry keeps (10)
          MaxTuneRuns, MaxDeaths
ASSUME TuneAssumption ==
  /\ EpisodeReturns \subseteq Int /\ Baselines \subseteq [calmar : Int, sharpe : Int, win : Int]
  /\ Kept \in Nat /\ Kept >= 2 /\ MaxTuneRuns \in Nat
VARIABLES tuner, tuned, candidate, registry, disk, baseline, firstBaseline, tuneStop, tuneRunning,
          tuneClock, tuneRuns, deaths, overlap, worsened

tuneVars == <<tuner, tuned, candidate, registry, disk, baseline, firstBaseline, tuneStop, tuneRunning,
              tuneClock, tuneRuns, deaths, overlap, worsened>>

Tuners == TuneLoops \cup {Caller}
NoVersion == <<0, 0>>
NoModels == [models |-> <<>>, production |-> NoVersion]
NoMetrics == [calmar |-> 0, sharpe |-> 0, win |-> 0]
Busy == {t \in Tuners : tuner[t] \notin {"off", "waiting"}}

TuneInit ==
  /\ tuner = [t \in Tuners |-> "off"] /\ candidate = [t \in Tuners |-> NoMetrics]
  /\ tuned = [t \in Tuners |-> NoVersion]
  /\ registry = NoModels /\ disk = NoModels
  /\ baseline \in Baselines /\ firstBaseline = baseline
  /\ tuneStop = FALSE /\ tuneRunning = FALSE /\ tuneClock = 1
  /\ tuneRuns = 0
  /\ deaths = 0 /\ overlap \in BOOLEAN /\ worsened = FALSE

--------------------------------------------------------------------------------
(* The measures of an evaluation *)

Least(r) == IF r[1] < r[2] THEN r[1] ELSE r[2]
Magnitude(n) == IF n < 0 THEN -n ELSE n
Huge == 1000

\* calmar: the mean over the absolute value of the worst episode, be that a loss or a gain.
Calmar(r) ==
  IF Least(r) = 0 THEN (IF r[1] + r[2] > 0 THEN Huge ELSE 0)
  ELSE (50 * (r[1] + r[2])) \div Magnitude(Least(r))

\* sharpe: of two episodes, the mean over half the distance.
Sharpe(r) ==
  LET sum == r[1] + r[2] IN
  IF r[1] = r[2] THEN (IF sum > 0 THEN Huge ELSE IF sum < 0 THEN -Huge ELSE 0)
  ELSE (100 * sum) \div Magnitude(r[1] - r[2])

WinRate(r) == (IF r[1] > 0 THEN 50 ELSE 0) + (IF r[2] > 0 THEN 50 ELSE 0)

\* A split whose training or evaluation fails counts as zeros.
SplitMetrics == {[calmar |-> Calmar(r), sharpe |-> Sharpe(r), win |-> WinRate(r)] : r \in EpisodeReturns \X EpisodeReturns}
                \cup {NoMetrics}

\* The averages of a walk-forward of two splits.  Every split trains and evaluates in the same environment.
WalkForwards ==
  {[calmar |-> (a.calmar + b.calmar) \div 2, sharpe |-> (a.sharpe + b.sharpe) \div 2, win |-> (a.win + b.win) \div 2] :
     a \in SplitMetrics, b \in SplitMetrics}

\* run_walk_forward_validation: 10% more calmar, 5% more sharpe than the baseline, 45% of episodes won.
BetterByCalmar(m) == 10 * m.calmar >= 11 * baseline.calmar /\ m.win >= 45   \* mutant
BetterThanBaseline(m) ==
  /\ 10 * m.calmar >= 11 * baseline.calmar
  /\ 20 * m.sharpe >= 21 * baseline.sharpe
  /\ m.win >= 45

--------------------------------------------------------------------------------
(* run_optimization *)

EndOf(t) == IF t = Caller THEN "off" ELSE "looking"

BeginRun(t) ==
  /\ tuneRuns < MaxTuneRuns /\ (overlap \/ Busy = {})
  /\ tuner' = [tuner EXCEPT ![t] = "trials"]
  /\ tuneRuns' = tuneRuns + 1
  /\ UNCHANGED <<tuned, candidate, registry, disk, baseline, firstBaseline, tuneStop, tuneRunning,
                 tuneClock, deaths, overlap, worsened>>

\* The study: a trial that fails is answered with -999, so its parameters may be the best; when every
\* trial was pruned there are none and the run ends with an error.  It takes more than a second.
Optimize(t, allPruned) ==
  /\ tuner[t] = "trials"
  /\ tuner' = [tuner EXCEPT ![t] = IF allPruned THEN EndOf(t) ELSE "studied"]
  /\ tuneClock' = tuneClock + 1
  /\ UNCHANGED <<tuned, candidate, registry, disk, baseline, firstBaseline, tuneStop, tuneRunning,
                 tuneRuns, deaths, overlap, worsened>>

Validate(t, m) ==
  /\ tuner[t] = "studied"
  /\ tuner' = [tuner EXCEPT ![t] = IF BetterThanBaseline(m) THEN "better" ELSE EndOf(t)]
  /\ candidate' = [candidate EXCEPT ![t] = IF BetterThanBaseline(m) THEN m ELSE @]
  /\ UNCHANGED <<tuned, registry, disk, baseline, firstBaseline, tuneStop, tuneRunning, tuneClock,
                 tuneRuns, deaths, overlap, worsened>>

\* The version is the number of models listed and the second; the list is cut to its last ones.
VersionNow == <<Len(registry.models) + 1, tuneClock>>
NewestKept(models) == IF Len(models) > Kept THEN SubSeq(models, Len(models) - Kept + 1, Len(models)) ELSE models

RegisterModel(t) ==
  LET entry == [version |-> VersionNow, metrics |-> candidate[t], production |-> FALSE]
      after == [models |-> NewestKept(Append(registry.models, entry)), production |-> registry.production]
  IN /\ tuner[t] = "better"
     /\ registry' = after /\ disk' = after /\ tuned' = [tuned EXCEPT ![t] = VersionNow]
     /\ tuner' = [tuner EXCEPT ![t] = "registered"]
     /\ UNCHANGED <<candidate, baseline, firstBaseline, tuneStop, tuneRunning, tuneClock,
                    tuneRuns, deaths, overlap, worsened>>

OfVersion(v) == {i \in DOMAIN registry.models : registry.models[i].version = v}

\* promote_to_production: first every model is demoted, in memory ...
Demote(t) ==
  /\ tuner[t] = "registered"
  /\ registry' = IF OfVersion(tuned[t]) = {} THEN registry
                 ELSE [models |-> [i \in DOMAIN registry.models |-> [registry.models[i] EXCEPT !.production = FALSE]],
                       production |-> registry.production]
  /\ tuner' = [tuner EXCEPT ![t] = "demoted"]
  /\ UNCHANGED <<tuned, candidate, disk, baseline, firstBaseline, tuneStop, tuneRunning,
                 tuneClock, tuneRuns, deaths, overlap, worsened>>

InService == {i \in DOMAIN registry.models : registry.models[i].version = registry.production}

\* ... then the first of that version is promoted and the file is written; the answer is not looked at,
\* and what was validated is the new baseline.
Promote(t) ==
  LET of == OfVersion(tuned[t])
      i  == CHOOSE j \in of : \A k \in of : j <= k
      after == [models |-> [registry.models EXCEPT ![i].production = TRUE], production |-> tuned[t]]
  IN /\ tuner[t] = "demoted"
     /\ IF of = {} THEN UNCHANGED <<registry, disk>> ELSE registry' = after /\ disk' = after
     /\ baseline' = candidate[t]
     /\ worsened' = (worsened \/ \E k \in InService :
                       \/ candidate[t].calmar < registry.models[k].metrics.calmar
                       \/ candidate[t].sharpe < registry.models[k].metrics.sharpe)
     /\ tuner' = [tuner EXCEPT ![t] = EndOf(t)]
     /\ candidate' = [candidate EXCEPT ![t] = NoMetrics] /\ tuned' = [tuned EXCEPT ![t] = NoVersion]
     /\ UNCHANGED <<firstBaseline, tuneStop, tuneRunning, tuneClock, tuneRuns, deaths, overlap>>

--------------------------------------------------------------------------------
(* The scheduler and the process *)

TuneRest == <<tuned, candidate, registry, disk, baseline, firstBaseline, tuneClock, tuneRuns,
              deaths, overlap, worsened>>

\* start clears the event that an earlier loop, still in a run, would have looked at.
StartTuning(t) ==
  /\ ~tuneRunning /\ tuner[t] = "off" /\ (overlap \/ \A l \in TuneLoops : tuner[l] = "off")
  /\ tuneStop' = FALSE /\ tuneRunning' = TRUE /\ tuner' = [tuner EXCEPT ![t] = "waiting"]
  /\ UNCHANGED TuneRest

\* stop waits for the thread, but not for ever.
StopTuning == tuneRunning /\ tuneStop' = TRUE /\ tuneRunning' = FALSE /\ UNCHANGED <<tuner, TuneRest>>

LoopLooks(t) ==
  /\ tuner[t] \in {"waiting", "looking"} /\ (tuner[t] = "waiting" => tuneStop)
  /\ tuner' = [tuner EXCEPT ![t] = IF tuneStop THEN "off" ELSE "waiting"]
  /\ UNCHANGED <<tuneStop, tuneRunning, TuneRest>>

\* What is read back: the file, or nothing when the process died while it was written.
Die ==
  /\ deaths < MaxDeaths /\ deaths' = deaths + 1
  /\ \E broken \in {FALSE, \E t \in Tuners : tuner[t] \in {"better", "demoted"}} :
       registry' = IF broken THEN NoModels ELSE disk
  /\ disk' = registry' /\ baseline' = firstBaseline
  /\ tuner' = [t \in Tuners |-> "off"] /\ candidate' = [t \in Tuners |-> NoMetrics] /\ tuned' = [t \in Tuners |-> NoVersion]
  /\ tuneStop' = FALSE /\ tuneRunning' = FALSE
  /\ UNCHANGED <<firstBaseline, tuneClock, tuneRuns, overlap, worsened>>

TuneNext ==
  \/ tuner[Caller] = "off" /\ BeginRun(Caller)
  \/ \E t \in TuneLoops : tuner[t] = "waiting" /\ ~tuneStop /\ BeginRun(t)
  \/ \E t \in Tuners, allPruned \in BOOLEAN : Optimize(t, allPruned)
  \/ \E t \in Tuners, m \in WalkForwards : Validate(t, m)
  \/ \E t \in Tuners : RegisterModel(t) \/ Demote(t) \/ Promote(t)
  \/ \E t \in TuneLoops : StartTuning(t) \/ LoopLooks(t)
  \/ StopTuning \/ Die

TuneSpec == TuneInit /\ [][TuneNext]_tuneVars

--------------------------------------------------------------------------------
(* Properties: of one run at a time, unless said otherwise *)

TuneTypeOK ==
  /\ tuner \in [Tuners -> {"off", "waiting", "looking", "trials", "studied", "better", "registered", "demoted"}]
  /\ Len(registry.models) <= Kept /\ tuneRuns <= MaxTuneRuns

Flagged == {i \in DOMAIN registry.models : registry.models[i].production}

\* Between promotions the model flagged as production is the one the metadata names: exactly one, once
\* one was promoted, whatever was cut from the list and wherever the process died.
OneInProduction ==
  ~overlap /\ (\A t \in Tuners : tuner[t] # "demoted") => Flagged = InService /\ Cardinality(Flagged) <= 1

\* The baseline a run has to beat is the first one or what the model in production was validated with.
BaselineIsProduction ==
  ~overlap => baseline = firstBaseline \/ \E i \in InService : baseline = registry.models[i].metrics

\* Versions name one model each, also when the list is full and the number repeats.
VersionsDiffer ==
  ~overlap => \A i, j \in DOMAIN registry.models : i # j => registry.models[i].version # registry.models[j].version

\* While the process lives, and from a baseline that is not negative, a model is only replaced by one
\* that is no worse in calmar and in sharpe.
OnlyBetterReplaces ==
  ~overlap /\ deaths = 0 /\ firstBaseline.calmar >= 0 /\ firstBaseline.sharpe >= 0 => ~worsened

\* Nothing gets into the registry that did not win: a walk-forward of failed splits is no candidate, for
\* any baseline and with any overlap.
WinnersOnly == \A i \in DOMAIN registry.models : registry.models[i].metrics.win >= 45

AutoMLSound == TuneTypeOK /\ OneInProduction /\ BaselineIsProduction /\ VersionsDiffer /\ OnlyBetterReplaces /\ WinnersOnly

(* Fail, and documented: two overlapping runs, which a stop that timed out and a start allow, are both   *)
(* validated against the old baseline and may leave two models flagged; after a restart the baseline     *)
(* is the first one again, whatever is in production; better in every episode may be worse in calmar,    *)
(* since the worst episode divides even when it is a gain.                                               *)
OnlyBetterOverlapping == deaths = 0 /\ firstBaseline.calmar >= 0 => ~worsened
OnlyBetterAfterRestart == ~overlap /\ firstBaseline.calmar >= 0 => ~worsened
OneFlagged == Cardinality(Flagged) <= 1
CalmarIsMonotone ==
  \A r, s \in EpisodeReturns \X EpisodeReturns : r[1] >= s[1] /\ r[2] >= s[2] => Calmar(r) >= Calmar(s)

--------------------------------------------------------------------------------
(* Learning sample by sample (ml/online_learner.py): the learner with its accuracy, the drift      *)
(* detector, the checkpoints a step writes, and the dashboard the answers are logged to            *)
(* (ml/online_dashboard.py).  A checkpoint is written in place: a crash or an error leaves it torn. *)
(* What River computes is open: a prediction is right or wrong, a drift is detected or not.         *)
CONSTANTS Interval,       \* checkpoint_interval (1000)
          Grace,          \* samples before a drift can be detected (10)
          MarkEvery,      \* samples between two records of the performance (100)
          Threshold,      \* performance_threshold, in hundredths
          RecentWindow,   \* history_window of the dashboard (1000)
          MaxSamples,     \* samples a pipeline has learnt
          MaxOnlineSteps,       \* steps of one process
          MaxLives
ASSUME OnlineAssumption ==
  /\ {Interval, MarkEvery, MaxLives} \subseteq Nat \ {0}
  /\ {Grace, RecentWindow, MaxSamples, MaxOnlineSteps} \subseteq Nat /\ Threshold \in Int
VARIABLES learner, detector, step, files, dash, lastSaved, lives, lostSaves

onlineVars == <<learner, detector, step, files, dash, lastSaved, lives, lostSaves>>

NewLearner == [n |-> 0, right |-> 0, judged |-> 0, marks |-> <<>>]
NewDetector == [total |-> 0, since |-> 0, points |-> <<>>]
NoDashboard == [open |-> FALSE, synced |-> FALSE, total |-> 0, recent |-> <<>>, drifts |-> <<>>, last |-> "none"]
NoAnswer == [pc |-> "idle", right |-> FALSE, drift |-> FALSE, retrain |-> "no"]
NoFile == [at |-> "none", marks |-> <<>>]

OnlineInit ==
  /\ learner = NewLearner /\ detector = NewDetector /\ step = NoAnswer /\ dash = NoDashboard
  /\ files = [n \in 1 .. MaxSamples |-> NoFile] /\ lastSaved = 0
  /\ lives = 1 /\ lostSaves = 0

--------------------------------------------------------------------------------
(* The pipeline *)

Accuracy(l) == IF l.judged = 0 THEN 0 ELSE (100 * l.right) \div l.judged

\* partial_fit: a model that has learnt nothing predicts nothing, and that is not judged.
Learnt(l, right) ==
  LET after == [n |-> l.n + 1, right |-> IF l.n > 0 /\ right THEN l.right + 1 ELSE l.right,
                judged |-> IF l.n = 0 THEN l.judged ELSE l.judged + 1, marks |-> l.marks]
  IN IF after.n % MarkEvery = 0 THEN [after EXCEPT !.marks = Append(@, Accuracy(after))] ELSE after

MayDrift == detector.total + 1 >= Grace

DetectedKeepingCount(drift) ==                                             \* mutant
  [total |-> detector.total + 1, since |-> detector.since + 1,
   points |-> IF drift THEN Append(detector.points, detector.total + 1) ELSE detector.points]
Detected(drift) ==
  [total |-> detector.total + 1, since |-> IF drift THEN 0 ELSE detector.since + 1,
   points |-> IF drift THEN Append(detector.points, detector.total + 1) ELSE detector.points]

\* should_retrain: the accuracy comes first.
ShouldRetrain(l, d) ==
  IF Accuracy(l) < Threshold THEN "performance" ELSE IF d.since = 0 THEN "drift" ELSE "no"

SaveIsDue(n) == n - lastSaved >= Interval

\* train_step, up to the opening of the checkpoint it is time for.
TrainStep(right, drift) ==
  LET l == Learnt(learner, right)
      d == Detected(drift)
  IN /\ step.pc = "idle" /\ learner.n < MaxSamples /\ detector.total < MaxOnlineSteps
     /\ drift => MayDrift
     /\ learner' = l /\ detector' = d
     /\ step' = [pc |-> IF SaveIsDue(l.n) THEN "saving" ELSE "answered",
                 right |-> right, drift |-> drift, retrain |-> ShouldRetrain(l, d)]
     /\ files' = IF SaveIsDue(l.n) THEN [files EXCEPT ![l.n].at = "torn"] ELSE files
     /\ UNCHANGED <<dash, lastSaved, lives, lostSaves>>

SaveEnds ==
  /\ step.pc = "saving"
  /\ files' = [files EXCEPT ![learner.n] = [at |-> "whole", marks |-> learner.marks]]
  /\ lastSaved' = learner.n
  /\ step' = [step EXCEPT !.pc = "answered"]
  /\ UNCHANGED <<learner, detector, dash, lives, lostSaves>>

SavedAfterFailure == learner.n                                             \* mutant
SavedUpToAfterFailure == lastSaved

\* An error in the save leaves train_step without an answer: the sample is learnt, the save not counted.
SaveFails ==
  /\ step.pc = "saving"
  /\ lostSaves' = lostSaves + 1 /\ lastSaved' = SavedUpToAfterFailure
  /\ step' = NoAnswer
  /\ UNCHANGED <<learner, detector, files, dash, lives>>

\* load_checkpoint: the accuracy and the sample of the last checkpoint are not in the file.  A torn file raises.
LoadCheckpoint(n) ==
  /\ step.pc = "idle" /\ files[n].at = "whole" /\ n # learner.n
  /\ learner' = [learner EXCEPT !.n = n, !.marks = files[n].marks]
  /\ UNCHANGED <<detector, step, files, dash, lastSaved, lives, lostSaves>>

\* The process ends, in a save or not, and another one begins with a new pipeline.
RestartPipeline ==
  /\ lives < MaxLives /\ learner.n > 0
  /\ lives' = lives + 1
  /\ learner' = NewLearner /\ detector' = NewDetector /\ step' = NoAnswer /\ dash' = NoDashboard
  /\ lastSaved' = 0 /\ lostSaves' = 0
  /\ UNCHANGED files

--------------------------------------------------------------------------------
(* The dashboard *)

\* OnlineLearningDashboard, or create_dashboard_from_pipeline: its history is not cut to the window.
OpenDashboard(sync) ==
  /\ step.pc = "idle" /\ ~dash.open /\ lives = 1
  /\ dash' = [NoDashboard EXCEPT !.open = TRUE, !.synced = sync, !.total = IF sync THEN learner.n ELSE 0,
                !.recent = IF sync THEN [i \in DOMAIN learner.marks |-> [correct |-> "unknown", accuracy |-> learner.marks[i]]]
                           ELSE <<>>]
  /\ UNCHANGED <<learner, detector, step, files, lastSaved, lives, lostSaves>>

Rolled(s) == IF Len(s) > RecentWindow THEN Tail(s) ELSE s

\* log_prediction: the reason it records is its own.
Logged ==
  LET number == dash.total + 1 IN
  [dash EXCEPT !.total = number,
     !.recent = Rolled(Append(@, [correct |-> IF step.right THEN "yes" ELSE "no", accuracy |-> Accuracy(learner)])),
     !.drifts = IF step.drift THEN Append(@, number) ELSE @,
     !.last = IF step.retrain = "no" THEN @ ELSE IF step.drift THEN "drift" ELSE "performance"]

\* The caller hands the answer to its dashboard, when it has one.
LogPrediction ==
  /\ step.pc = "answered"
  /\ dash' = IF dash.open THEN Logged ELSE dash
  /\ step' = NoAnswer
  /\ UNCHANGED <<learner, detector, files, lastSaved, lives, lostSaves>>

OnlineNext ==
  \/ \E right, drift \in BOOLEAN : TrainStep(right, drift)
  \/ SaveEnds \/ SaveFails \/ LogPrediction \/ RestartPipeline
  \/ \E n \in 1 .. MaxSamples : LoadCheckpoint(n)
  \/ \E sync \in BOOLEAN : OpenDashboard(sync)

OnlineSpec == OnlineInit /\ [][OnlineNext]_onlineVars

\* get_current_metrics: among the last ones, the labelled ones that were right.
RecentAccuracy ==
  LET labelled == {i \in DOMAIN dash.recent : dash.recent[i].correct # "unknown"} IN
  IF labelled = {} THEN 0
  ELSE (100 * Cardinality({i \in labelled : dash.recent[i].correct = "yes"})) \div Cardinality(labelled)

\* get_performance_trend: the sign of the line of least squares through the accuracies of the history
\* (a slope within 0.001 is stable: less than a hundredth over the window here).
Trend ==
  LET m == Len(dash.recent)
      weighted == [i \in 1 .. m |-> (2 * i - m - 1) * dash.recent[i].accuracy]
      slope == MapThenSumSet(LAMBDA i : weighted[i], 1 .. m)
  IN IF m < 2 THEN "insufficient" ELSE IF slope > 0 THEN "improving" ELSE IF slope < 0 THEN "degrading" ELSE "stable"

\* get_drift_statistics: the distances its average is taken of; get_drift_info has its own.
Distances(s) == [i \in 1 .. Len(s) - 1 |-> s[i + 1] - s[i]]

--------------------------------------------------------------------------------
(* Properties *)

OnlineTypeOK ==
  /\ learner.n \in 0 .. MaxSamples /\ learner.right <= learner.judged /\ detector.since <= detector.total
  /\ step.pc \in {"idle", "saving", "answered"} /\ lastSaved \in 0 .. MaxSamples
  /\ lives \in 1 .. MaxLives /\ lostSaves \in Nat

Wholes == {n \in 1 .. MaxSamples : files[n].at = "whole"}

\* However often the pipeline crashed in a save and was resumed or begun anew: beyond the first interval
\* there is always a whole checkpoint at most an interval old, and every save that failed since costs one
\* sample more, not an interval, unless the process went back behind what it has saved itself
\* (online_learner.py, train_step).
CheckpointNear ==
  learner.n > Interval + lostSaves /\ lastSaved <= learner.n =>
    \E n \in Wholes : n <= learner.n /\ learner.n - n <= Interval + lostSaves

\* A drift is counted from where it was found, and only the very step that found one is answered with
\* it as the reason to retrain.
DriftIsNow ==
  /\ detector.points # <<>> => detector.since = detector.total - Last(detector.points)
  /\ step.retrain = "drift" => step.drift /\ Last(detector.points) = detector.total

\* Until a save fails, a dashboard puts the drifts as far apart as the
\* detector does, whatever sample it counts from.
DistancesAgree ==
  lostSaves = 0 /\ step.pc = "idle" /\ dash.open =>
    \E k \in 0 .. Len(detector.points) :
      Distances(dash.drifts) = Distances(SubSeq(detector.points, k + 1, Len(detector.points)))

\* A trend needs a change that way somewhere in the history.
TrendFollows ==
  /\ Trend = "degrading" => \E i \in 2 .. Len(dash.recent) : dash.recent[i].accuracy < dash.recent[i - 1].accuracy
  /\ Trend = "improving" => \E i \in 2 .. Len(dash.recent) : dash.recent[i].accuracy > dash.recent[i - 1].accuracy

\* All of it: the pipeline can be resumed near where it was, and tells drifts where they were.
OnlineSound == OnlineTypeOK /\ CheckpointNear /\ DriftIsNow /\ DistancesAgree /\ TrendFollows

\* The models that are kept up to date by themselves: tuned by the AutoML pipeline, and online.
ModelsSound == AutoMLSound /\ OnlineSound

(* Fail, and documented: *)

\* There is a checkpoint near wherever the pipeline was resumed: load_checkpoint leaves the number of the
\* last one, so nothing is saved until the count has passed it again, over files that earlier crashes tore.
NearAfterGoingBack ==
  learner.n > Interval + lostSaves => \E n \in Wholes : n <= learner.n /\ learner.n - n <= Interval + lostSaves

\* A pipeline begun anew counts from 0 and writes over the files of the one before.
WholesStay == [][Wholes \subseteq Wholes']_onlineVars

\* A resumed pipeline is asked to retrain although what it resumes was good: the accuracy is not in the file.
ResumedAsGood == learner.marks # <<>> /\ Last(learner.marks) >= Threshold => ShouldRetrain(learner, detector) # "performance"

\* The history brought along from the pipeline is never cut.
WithinWindow == Len(dash.recent) <= RecentWindow

\* A dashboard that shows only what it brought along says that nothing was right.
RecentIsKnown == dash.recent # <<>> /\ learner.judged = learner.right /\ learner.judged > 0 => RecentAccuracy > 0

\* The dashboard's reason and the pipeline's.
ReasonsAgree == step.retrain = "performance" => ~step.drift

\* The dashboard's numbers are the pipeline's.
NumbersAgree == dash.synced /\ step.pc = "idle" => dash.total = learner.n
================================================================================
