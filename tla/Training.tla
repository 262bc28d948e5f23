------------------------------- MODULE Training -------------------------------
(* From price series to a tested model: the labels of ml/barriers.py and ml/labeler.py, the sample  *)
(* order and the splits of ml/transformer_baselines.py, ml/walk_forward.py and ml/cv.py, the loop   *)
(* with early stopping.  Weights are the number of the epoch that made them; a loss is one of a few  *)
(* values.  Labels, splits and training are explored apart (study).                                  *)
EXTENDS Integers, Sequences, FiniteSets, FiniteSetsExt, SequencesExt

CONSTANTS
  PriceLevels,       \* prices tried, in tenths of a percent of the first one
  Horizon,           \* max_horizon of the labeler, in bars
  MinHistory,        \* min_observations
  MaxSeries,         \* bound: bars of a series
  RowCounts,         \* datasets tried: rows per symbol, in the order of the files
  SeqLen,            \* rows in a sample
  Purges,            \* purge gaps tried
  TrainSizes,        \* min_train_size
  FoldSizes,         \* fold_test_size
  Losses,            \* validation losses an epoch may have
  Epochs, Patience,  \* of the training loop
  CvSizes,           \* bound: samples of the tabular split
  TableSizes         \* rows of the tabular trainer's datasets tried

\* The code raises for a horizon below one bar, a sample below two rows, fewer than two rows to train on,
\* an empty test or step and a negative gap; zero is no loss, but the infinity a training begins with.
ASSUME TrainingAssumption ==
  /\ Horizon \in Nat \ {0} /\ MinHistory \in Nat /\ MaxSeries \in Nat /\ SeqLen \in Nat \ {0, 1}
  /\ PriceLevels \subseteq Nat \ {0} /\ Losses \subseteq Nat \ {0}
  /\ RowCounts \subseteq Seq(Nat) /\ TableSizes \subseteq Nat /\ Purges \subseteq Nat
  /\ TrainSizes \subseteq Nat \ {0, 1} /\ FoldSizes \subseteq Nat \ {0}
  /\ Epochs \in Int /\ Patience \in Int /\ CvSizes \in Nat

VARIABLES
  study,    \* "labels", "train", "cv" or "table"
  series,   \* labels: the prices so far
  job,      \* train: the dataset and the parameters
  fold,     \* ... the index of the fold
  stage,    \* ... "load", "epoch", "tested", "done" or "refused"
  losses,   \* ... the history of validation losses of the fold
  best,     \* ... best_val_loss (0: infinite) and the epoch of it
  tested,   \* ... the weights the last fold tested, and the best ones
  cv,       \* cv: the split of ml/cv.py
  table     \* table: a run of the tabular trainer

trainingVars == <<study, series, job, fold, stage, losses, best, tested, cv, table>>

-----------------------------------------------------------------------------
(* TripleBarrierLabeler.apply_barriers: take profit at +3%, stop loss at -2%, whichever comes first; *)
(* else what the last bar says, with half a percent either way for neutral.                         *)
HitsProfit(p, i, t) == 100 * p[i] >= 103 * p[t]
HitsStop(p, i, t)   == 100 * p[i] <= 98 * p[t]

LastBarFar(p, t) == Len(p)                                                  \* mutant
LastBar(p, t) == Min({t + Horizon, Len(p)})
Hits(p, t) == {i \in (t + 1) .. LastBar(p, t) : HitsProfit(p, i, t) \/ HitsStop(p, i, t)}
Exit(p, t) == IF Hits(p, t) = {} THEN LastBar(p, t) ELSE Min(Hits(p, t))

LabelAt(p, t) ==
  LET out == Exit(p, t)
      gain == 1000 * (p[out] - p[t])
  IN  [bars |-> out - t,
       label |-> IF gain > 5 * p[t] THEN 1 ELSE IF gain < -5 * p[t] THEN -1 ELSE 0]

\* label_series: the bars that get a row; a series that is too short gets none.
Labelled(p) == IF Len(p) < MinHistory + Horizon THEN {} ELSE (MinHistory + 1) .. (Len(p) - Horizon)

Observe(x) ==
  /\ study = "labels" /\ Len(series) < MaxSeries
  /\ series' = Append(series, x)
  /\ UNCHANGED <<study, job, fold, stage, losses, best, tested, cv, table>>

-----------------------------------------------------------------------------
(* prepare_sequence_data, build_sequence_dataset: a sample ends at every row that has SeqLen - 1 rows *)
(* of its symbol before it; the samples are sorted by the position of that row in the file.           *)
SamplesOf(rows) ==
  FlattenSeq([s \in DOMAIN rows |-> [k \in 1 .. Max({0, rows[s] - SeqLen + 1}) |->
                                       [symbol |-> s, bar |-> k + SeqLen - 1]]])
Samples == SamplesOf(job.rows)
RowTotal == Len(Samples)
Span(a, b) == (a + 1) .. b          \* the samples of the slice [a:b]

\* evaluate_transformer_walk_forward, build_walk_forward_windows: the fold after k others.
TrainEnd(k) == job.size + k * job.step
FoldTestFrom(k) == TrainEnd(k) + job.purge
FoldFits(k) == FoldTestFrom(k) + job.test <= RowTotal

\* prepare_sequence_data: one split at four fifths; a purge that would leave no test is given up.
SplitAt == (4 * RowTotal) \div 5
SplitTestFrom == IF SplitAt + job.purge >= RowTotal THEN SplitAt ELSE SplitAt + job.purge

TrainAll(k) ==
  IF job.walk THEN Span(IF job.expanding THEN 0 ELSE TrainEnd(k) - job.size, TrainEnd(k))
              ELSE Span(0, SplitAt)
TestUnpurged(k) ==                                                          \* mutant
  IF job.walk THEN Span(TrainEnd(k), TrainEnd(k) + job.test) ELSE Span(SplitTestFrom, RowTotal)
TestOf(k) ==
  IF job.walk THEN Span(FoldTestFrom(k), FoldTestFrom(k) + job.test) ELSE Span(SplitTestFrom, RowTotal)

\* The end of the training samples validates; when there are too few, the test does.
ValCount(k) ==
  LET n == Cardinality(TrainAll(k)) IN IF n \div 10 < 1 /\ n >= 20 THEN 1 ELSE n \div 10
OwnValidation(k) == ValCount(k) > 0 /\ Cardinality(TrainAll(k)) - ValCount(k) >= 1
ValOf(k) ==
  IF OwnValidation(k) THEN {i \in TrainAll(k) : i > Max(TrainAll(k)) - ValCount(k)} ELSE TestOf(k)
TrainOf(k) == IF OwnValidation(k) THEN TrainAll(k) \ ValOf(k) ELSE TrainAll(k)

Refused == IF job.walk THEN ~FoldFits(0) ELSE SplitAt <= 1 \/ SplitAt >= RowTotal

\* A walk ends with the first fold that does not fit, a plain training after its only one.
LastFold(k) == ~job.walk \/ ~FoldFits(k + 1)

LoadSamples ==
  /\ study = "train" /\ stage = "load"
  /\ stage' = IF RowTotal = 0 \/ Refused THEN "refused" ELSE "epoch"
  /\ UNCHANGED <<study, series, job, fold, losses, best, tested, cv, table>>

(* One epoch: the loop keeps model.state_dict() as the best state when the loss improves ...         *)
Improves(l) == best.loss = 0 \/ l < best.loss
SinceBest == Len(losses) - best.epoch
StopsLate(n, epoch) == n > Max({1, Patience}) \/ epoch = Max({1, Epochs})    \* mutant
Stops(n, epoch) == n >= Max({1, Patience}) \/ epoch = Max({1, Epochs})

Epoch(l) ==
  /\ study = "train" /\ stage = "epoch"
  /\ losses' = Append(losses, l)
  /\ best' = IF Improves(l) THEN [loss |-> l, epoch |-> Len(losses) + 1] ELSE best
  /\ stage' = IF Stops(IF Improves(l) THEN 0 ELSE SinceBest + 1, Len(losses) + 1) THEN "tested" ELSE "epoch"
  /\ UNCHANGED <<study, series, job, fold, tested, cv, table>>

(* ... but a state_dict refers to the tensors that later epochs change in place: loading it gives the *)
(* model the weights it has, those of the last epoch.                                                *)
Restored == Len(losses)

TestFold ==
  /\ study = "train" /\ stage = "tested"
  /\ tested' = [weights |-> Restored, best |-> best.epoch]
  /\ fold' = fold + 1 /\ stage' = IF LastFold(fold) THEN "done" ELSE "epoch"
  /\ losses' = <<>> /\ best' = [loss |-> 0, epoch |-> 0]
  /\ UNCHANGED <<study, series, job, cv, table>>

-----------------------------------------------------------------------------
(* ml/cv.py: fold k of splits, samples counted from 0; what is tested and what is trained on.        *)
FoldLength == Max({1, cv.n \div cv.splits})
CvFrom(k) == k * FoldLength
CvToShort(k) == CvFrom(k) + FoldLength                                       \* mutant
CvTo(k) == IF k = cv.splits - 1 THEN cv.n ELSE CvFrom(k) + FoldLength
CvTest(k) == CvFrom(k) .. (CvTo(k) - 1)
CvAfter(k) == Min({cv.n, CvTo(k) + Max({cv.purge, (cv.n * cv.embargo) \div 10})})
CvTrain(k) == {i \in 0 .. (cv.n - 1) : i < CvFrom(k) - cv.purge \/ i >= CvAfter(k)}

NextSplit ==
  /\ study = "cv" /\ cv.n < CvSizes /\ cv' = [cv EXCEPT !.n = @ + 1]
  /\ UNCHANGED <<study, series, job, fold, stage, losses, best, tested, table>>

-----------------------------------------------------------------------------
(* ml/trainer.py, train_model: rows counted from 0, a fifth at the end held out after the purge gap,   *)
(* unless that would leave nothing to test.                                                           *)
HeldFrom == (4 * table.n) \div 5
TableTrain == 0 .. (HeldFrom - 1)
TestsFrom == IF HeldFrom + table.purge >= table.n THEN HeldFrom ELSE HeldFrom + table.purge
TableTest == TestsFrom .. (table.n - 1)

\* PurgedTimeSeriesSplit: windows at the end of the training rows, each trained on what comes before it.
WindowSize == Max({1, HeldFrom \div (table.splits + 1)})
WindowFrom(k) == HeldFrom - table.splits * WindowSize + k * WindowSize
WindowOf(k) == WindowFrom(k) .. (Min({WindowFrom(k) + WindowSize, HeldFrom}) - 1)
BeforeUnpurged(k) == 0 .. (Max({0, WindowFrom(k)}) - 1)                      \* mutant
Before(k) == 0 .. (Max({0, WindowFrom(k) - table.purge}) - 1)
Windows == {k \in 0 .. (table.splits - 1) : Before(k) # {} /\ WindowOf(k) # {}}

TableRefused == HeldFrom <= 0 \/ HeldFrom >= table.n

LoadTable ==
  /\ study = "table" /\ table.pc = "load"
  /\ table' = [table EXCEPT !.pc = IF TableRefused THEN "refused" ELSE "tune"]

\* The search needs both libraries and may raise; without any window every trial scores 0.
TuneTable(raises) ==
  /\ table.pc = "tune"
  /\ LET found == table.tools = {"lightgbm", "optuna"} /\ ~raises
     IN table' = [table EXCEPT !.pc = "fit", !.tuned = found, !.scored = found /\ Windows # {}]

\* The tuned model stops on the rows held out, where the library still takes that argument.
FitTuned(raises, stopsEarly) ==
  /\ table.pc = "fit" /\ table.tuned /\ table.model = "none"
  /\ table' = IF raises THEN [table EXCEPT !.model = "failed"]
              ELSE [table EXCEPT !.model = "tuned", !.stopped = IF stopsEarly THEN TableTest ELSE {}]

\* Without a tuned model: the defaults of LightGBM, or a forest.
FitDefault(raises) ==
  /\ table.pc = "fit" /\ IF table.tuned THEN table.model = "failed" ELSE table.model = "none"
  /\ table' = [table EXCEPT !.model = IF raises \/ "lightgbm" \notin table.tools THEN "forest" ELSE "default"]

\* Tested, saved and registered; only the saving may stop it.
SaveTable ==
  /\ table.pc = "fit" /\ table.model \in {"tuned", "default", "forest"}
  /\ table' = [table EXCEPT !.pc = "saved"]

TableStep ==
  \/ LoadTable \/ SaveTable
  \/ \E raises, stopsEarly \in BOOLEAN : TuneTable(raises) \/ FitTuned(raises, stopsEarly) \/ FitDefault(raises)

\* The jobs and the splits tried; where they are not what is studied, any one will do.
Jobs == [rows : RowCounts, walk : BOOLEAN, expanding : BOOLEAN, purge : Purges,
         size : TrainSizes, test : FoldSizes, step : FoldSizes]
Splits == [n : {1}, splits : 1 .. 4, purge : 0 .. 2, embargo : 0 .. 2]
Tables == [n : TableSizes, purge : 0 .. 3, splits : 1 .. 3, tools : SUBSET {"lightgbm", "optuna"},
           pc : {"load"}, tuned : {FALSE}, scored : {FALSE}, model : {"none"}, stopped : {{}}]

TrainingInit ==
  /\ study \in {"labels", "train", "cv", "table"}
  /\ series = <<>> /\ fold = 0 /\ stage = "load" /\ losses = <<>> /\ tested = [weights |-> 0, best |-> 0]
  /\ best = [loss |-> 0, epoch |-> 0]
  /\ IF study = "train" THEN job \in Jobs ELSE job = CHOOSE j \in Jobs : TRUE
  /\ IF study = "cv" THEN cv \in Splits ELSE cv = CHOOSE s \in Splits : TRUE
  /\ IF study = "table" THEN table \in Tables ELSE table = CHOOSE x \in Tables : TRUE

TrainingNext ==
  \/ \E x \in PriceLevels : Observe(x)
  \/ LoadSamples \/ TestFold \/ \E l \in Losses : Epoch(l)
  \/ NextSplit
  \/ TableStep /\ UNCHANGED <<study, series, job, fold, stage, losses, best, tested, cv>>

TrainingSpec == TrainingInit /\ [][TrainingNext]_trainingVars

TrainingTypeOK ==
  /\ series \in Seq(PriceLevels) /\ losses \in Seq(Losses) /\ fold \in Nat
  /\ stage \in {"load", "epoch", "tested", "done", "refused"}
  /\ best.loss \in Losses \cup {0} /\ best.epoch \in 0 .. Max({1, Epochs})

-----------------------------------------------------------------------------
\* A label, once given, is not changed by any later price: it looks at most Horizon bars ahead, and
\* the series is labelled only as far as that.
LabelsSettle ==
  [][\A t \in Labelled(series) : LabelAt(series', t) = LabelAt(series, t)]_trainingVars

InTraining == study = "train" /\ stage \in {"epoch", "tested"}
GapKept == job.walk \/ SplitAt + job.purge < RowTotal

\* With a purge gap of the horizon, the bars a training or validation label of a symbol was computed
\* from end before the first test sample of that symbol (where the gap fits the data).
LabelsEndBeforeTest ==
  InTraining /\ job.purge >= Horizon /\ GapKept =>
    \A i \in TrainAll(fold), j \in TestOf(fold) :
      Samples[i].symbol = Samples[j].symbol => Samples[i].bar + Horizon < Samples[j].bar

\* No sample trains and tests a fold, and none of them lies outside the data; the validation samples
\* are not trained on.
FoldsApart ==
  InTraining =>
    /\ TrainAll(fold) \cap TestOf(fold) = {} /\ TrainOf(fold) \cap ValOf(fold) = {}
    /\ TrainOf(fold) # {} /\ TestOf(fold) # {}
    /\ TrainAll(fold) \cup TestOf(fold) \subseteq 1 .. RowTotal

\* Training stops as soon as the loss has not improved for Patience epochs, never earlier unless the
\* epochs are over, and reports the smallest loss of the history.
StopsInTime ==
  InTraining /\ losses # <<>> =>
    /\ best.loss = Min(ToSet(losses)) /\ losses[best.epoch] = best.loss
    /\ stage = "epoch" => SinceBest < Max({1, Patience})
    /\ stage = "tested" => SinceBest = Max({1, Patience}) \/ Len(losses) = Max({1, Epochs})

\* With enough samples the folds of the tabular split test every sample once, and no training sample is
\* nearer to a tested one than the purge on its left or the larger of purge and embargo on its right.
CvPartition ==
  study = "cv" /\ cv.n >= cv.splits =>
    /\ \A i \in 0 .. (cv.n - 1) : Cardinality({k \in 0 .. (cv.splits - 1) : i \in CvTest(k)}) = 1
    /\ \A k \in 0 .. (cv.splits - 1) : \A i \in CvTrain(k), j \in CvTest(k) :
         i < j - cv.purge \/ i > j + Max({cv.purge, (cv.n * cv.embargo) \div 10})

\* The tabular trainer tunes on the training rows alone, in windows that follow one another to their
\* end, each later than what it is trained on by more than the purge gap; the rows held out are others.
TableApart ==
  study = "table" /\ table.pc \notin {"load", "refused"} =>
    /\ TableTrain # {} /\ TableTest # {} /\ TableTest \subseteq 0 .. (table.n - 1)
    /\ \A i \in TableTrain, j \in TableTest : i < j
    /\ \A k \in Windows : /\ Before(k) \cup WindowOf(k) \subseteq TableTrain
                          /\ \A i \in Before(k), j \in WindowOf(k) : i + table.purge < j
    /\ Windows # {} => HeldFrom - 1 \in UNION {WindowOf(k) : k \in Windows}
    /\ \A k, l \in Windows : k # l => WindowOf(k) \cap WindowOf(l) = {}

\* A model that is saved as tuned was fitted with what the search found.  This fails: a tuned fit that
\* raises is replaced by the defaults, and the flag stays.
TunedIsTuned == table.pc = "saved" /\ table.tuned => table.model = "tuned"

\* The search compares scores.  This fails for few rows: without a window every trial scores 0.
TunedByScores == table.tuned => table.scored

\* What is reported was measured on rows the model has not seen.  This fails: the tuned model stops on them.
HeldOutUnseen == table.pc = "saved" => table.stopped \cap TableTest = {}

\* The model a fold tests and saves is the one with the smallest loss.  This fails: the best state is
\* not a copy.
BestIsTested == tested.weights = tested.best

\* Folds are chronological: what is trained on is not later than what is tested.  This fails for files
\* with more than one symbol, which come one symbol after the other.
ChronologicalFolds ==
  InTraining => \A i \in TrainAll(fold), j \in TestOf(fold) : Samples[i].bar <= Samples[j].bar

\* All of it: labels, splits and training.
TrainingSound ==
  [](TrainingTypeOK /\ LabelsEndBeforeTest /\ FoldsApart /\ StopsInTime /\ CvPartition /\ TableApart) /\ LabelsSettle
=============================================================================
