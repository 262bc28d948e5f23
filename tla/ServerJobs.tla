------------------------------- MODULE ServerJobs -------------------------------
(* What the API server runs itself (api/server.py): the services its lifespan starts and stops, with *)
(* the trainings of the trainer service and of the requests (ml/service.py); the backtests with      *)
(* their history; the stream of a chart.  A behaviour studies one of them.  What the event loop *)
(* runs without an await is one action; the trainings run in threads.  src/tasks.py does not exist,  *)
(* so a dispatch to Celery always falls back to the local run.                                       *)
EXTENDS Integers, Sequences, SequencesExt, FiniteSets, FiniteSetsExt
CONSTANTS TrainRequests,        \* training requests that may run at the same time
          InitialBalance,
          Closes,          \* prices of the rows; 0 is a missing price, NoNumber no number
          NoNumber,
          MaxRows,
          KeptRuns,        \* runs the history keeps (10)
          MaxRuns,
          Frames,          \* timeframes of a chart
          MaxAsked         \* messages of a viewer
ASSUME ServerAssumption ==
  Closes \subseteq Int /\ NoNumber \in Int /\ KeptRuns \in Nat \ {0} /\ "ping" \notin Frames
  /\ Frames # {} /\ "trainer" \notin TrainRequests /\ InitialBalance \in Nat
VARIABLES study, halted,
          phase, thread, toldStop, remembered, pending, startedLate,  \* the lifespan; startedLate: the
                                                                      \* trainer began after its stop
          job, dataset, model,                       \* the trainings; the model written last
          book, history, runs,                       \* the backtests
          answer,                                    \* how the last request was answered
          viewer                                     \* the stream of a chart

serverVars == <<study, halted, phase, thread, toldStop, remembered, pending, startedLate,
                job, dataset, model, book, history, runs, answer, viewer>>
lifespanVars == <<phase, thread, toldStop, remembered, pending, startedLate>>
trainingVars == <<job, dataset, model>>
backtestVars == <<book, history, runs>>

Services == {"market", "trainer", "automl", "ghost"}
Trainings == TrainRequests \cup {"trainer"}
ServiceAlive(s) == thread[s] \notin {"none", "ended"}
NoTraining == [pc |-> "none", data |-> "none", beside |-> FALSE]
NoTrade == [in |-> 0, out |-> 0, pnl |-> 0]
NewBook == [pc |-> "idle", cash |-> InitialBalance, qty |-> 0, entry |-> 0, curve |-> <<InitialBalance>>,
            trades |-> <<>>, wins |-> 0, losses |-> 0, pnl |-> 0, rows |-> 0, last |-> 0, priced |-> FALSE,
            have |-> {}, source |-> {}]
NoViewer == [pc |-> "idle", frame |-> "none", asked |-> <<>>, heard |-> 0, sent |-> <<>>]

ServerInit ==
  /\ study \in {"lifespan", "training", "backtest", "history", "chart"} /\ halted = FALSE
  /\ phase = (IF study = "lifespan" THEN "market" ELSE "up")
  /\ remembered \in (IF study = "training" THEN {{}, {"trainer"}} ELSE {{}})
  /\ thread = [s \in Services |-> IF s \in remembered THEN "top" ELSE "none"]
  /\ toldStop = [s \in Services |-> FALSE] /\ pending = FALSE /\ startedLate = FALSE
  /\ job = [w \in Trainings |-> NoTraining]
  /\ dataset = "none" /\ model = NoTraining
  /\ book = NewBook /\ history = [torn |-> FALSE, runs |-> <<>>, saved |-> 0] /\ runs = 0
  /\ answer = "none" /\ viewer = NoViewer

ToggleHalt ==
  halted' = ~halted /\ UNCHANGED <<study, lifespanVars, trainingVars, backtestVars, answer, viewer>>

--------------------------------------------------------------------------------
(* The lifespan: a service that cannot be started is skipped, and the next one is started. *)

StartMarket(fails) ==
  /\ phase = "market" /\ phase' = "trainer"
  /\ IF fails THEN UNCHANGED <<thread, remembered>>
     ELSE thread' = [thread EXCEPT !["market"] = "listen"] /\ remembered' = remembered \cup {"market"}
  /\ UNCHANGED <<toldStop, pending, startedLate>>

\* The trainer's start is handed to a thread of the executor; with Celery there is no trainer.
StartTrainer(skipped) ==
  /\ phase = "trainer" /\ phase' = "machines"
  /\ pending' = ~skipped /\ remembered' = IF skipped THEN remembered ELSE remembered \cup {"trainer"}
  /\ UNCHANGED <<thread, toldStop, startedLate>>

\* The AutoML scheduler is started and forgotten, the ghost machine stands by; the schedulers whose
\* functions cannot be imported are skipped.
StartMachines(fails) ==
  /\ phase = "machines" /\ phase' = "up"
  /\ thread' = IF fails THEN thread ELSE [thread EXCEPT !["automl"] = "wait", !["ghost"] = "standby"]
  /\ UNCHANGED <<toldStop, remembered, pending, startedLate>>

\* MLTrainerService.start: the event is cleared, whoever has set it.
ExecutorStartsTrainer ==
  /\ pending /\ pending' = FALSE /\ startedLate' = toldStop["trainer"]
  /\ toldStop' = [toldStop EXCEPT !["trainer"] = FALSE]
  /\ thread' = [thread EXCEPT !["trainer"] = "top"]
  /\ UNCHANGED <<phase, remembered>>

\* The routes of the ghost machine.
GhostRoute ==
  /\ phase = "up" /\ ServiceAlive("ghost")
  /\ thread' = [thread EXCEPT !["ghost"] = IF @ = "standby" THEN "loop" ELSE "standby"]
  /\ UNCHANGED <<phase, toldStop, remembered, pending, startedLate>>

\* uvicorn lets the requests end before the lifespan goes on.
BeginShutdown ==
  /\ phase = "up" /\ \A r \in TrainRequests : job[r].pc = "none"
  /\ phase' = "stop market" /\ UNCHANGED <<thread, toldStop, remembered, pending, startedLate>>

StoppedIfBoth(s) ==                                    \* mutant
  IF {"market", "trainer"} \subseteq remembered THEN [toldStop EXCEPT ![s] = TRUE] ELSE toldStop
Stopped(s) == IF s \in remembered THEN [toldStop EXCEPT ![s] = TRUE] ELSE toldStop

\* The stop waits two seconds for the thread, or less when that ends before.
StopService(s, now, next) ==
  /\ phase = now /\ phase' = next /\ toldStop' = Stopped(s)
  /\ UNCHANGED <<thread, remembered, pending, startedLate>>

StopMarket == StopService("market", "stop market", "stop trainer")
StopTrainer == StopService("trainer", "stop trainer", "over")

\* A loop ends when it sees its event.
ServiceEnds(s) ==
  /\ thread[s] \in {"listen", "top", "sleep"} /\ toldStop[s]
  /\ thread' = [thread EXCEPT ![s] = "ended"]
  /\ UNCHANGED <<phase, toldStop, remembered, pending, startedLate>>

\* The process ends, after the lifespan or by a crash, and another begins.
ProcessEnds ==
  /\ phase' = "market" /\ remembered' = {} /\ pending' = FALSE /\ startedLate' = FALSE
  /\ thread' = [s \in Services |-> "none"] /\ toldStop' = [s \in Services |-> FALSE]

LifespanStep ==
  \/ \E fails \in BOOLEAN : StartMarket(fails) \/ StartTrainer(fails) \/ StartMachines(fails)
  \/ ExecutorStartsTrainer \/ GhostRoute \/ ProcessEnds \/ BeginShutdown \/ StopMarket \/ StopTrainer
  \/ \E s \in Services : ServiceEnds(s)

--------------------------------------------------------------------------------
(* The trainings: one dataset file for all *)

Training == {w \in Trainings : job[w].pc # "none"}
WithTraining(w) ==
  [v \in Trainings |-> IF v = w THEN [pc |-> "begun", data |-> "none", beside |-> Training # {}]
                       ELSE IF v \in Training THEN [pc |-> job[v].pc, data |-> job[v].data, beside |-> TRUE]
                       ELSE job[v]]

LoopTrains ==
  /\ thread["trainer"] = "top" /\ ~toldStop["trainer"]
  /\ thread' = [thread EXCEPT !["trainer"] = "train"] /\ job' = WithTraining("trainer")
  /\ UNCHANGED <<phase, toldStop, remembered, pending, startedLate, dataset, model, answer>>

LoopTurns ==
  /\ thread["trainer"] \in {"train", "sleep"} /\ job["trainer"].pc = "none"
  /\ thread["trainer"] = "sleep" => ~toldStop["trainer"]
  /\ thread' = [thread EXCEPT !["trainer"] = IF @ = "train" THEN "sleep" ELSE "top"]
  /\ UNCHANGED <<phase, toldStop, remembered, pending, startedLate, trainingVars, answer>>

\* The switch's 423 is caught with the other exceptions and answered as an error of the server.
TriggerTraining(r) ==
  /\ phase = "up" /\ job[r].pc = "none"
  /\ IF halted THEN answer' = "500" /\ UNCHANGED job
     ELSE job' = WithTraining(r) /\ UNCHANGED answer
  /\ UNCHANGED <<lifespanVars, dataset, model>>

DatasetKept(w) == IF dataset = "none" THEN w ELSE dataset                  \* mutant
DatasetOf(w) == w

BuildDataset(w) ==
  /\ job[w].pc = "begun" /\ dataset' = DatasetOf(w)
  /\ job' = [job EXCEPT ![w].pc = "built"]
  /\ UNCHANGED <<lifespanVars, model, answer>>

FitModel(w) ==
  /\ job[w].pc = "built"
  /\ job' = [job EXCEPT ![w] = [pc |-> "fitted", data |-> dataset, beside |-> @.beside]]
  /\ UNCHANGED <<lifespanVars, dataset, model, answer>>

AnswerOf(w) ==
  IF w = "trainer" THEN answer ELSE IF "trainer" \in remembered THEN "scheduled" ELSE "trained"

\* The model is written and announced, and the request is answered only now.
SaveModel(w) ==
  /\ job[w].pc = "fitted"
  /\ model' = [job[w] EXCEPT !.pc = w]
  /\ job' = [job EXCEPT ![w] = NoTraining]
  /\ answer' = AnswerOf(w)
  /\ UNCHANGED <<lifespanVars, dataset>>

\* No data, or an exception: an event at most.  The request is answered as if it had trained.
TrainingFails(w) ==
  /\ w \in Training /\ job' = [job EXCEPT ![w] = NoTraining]
  /\ answer' = AnswerOf(w)
  /\ UNCHANGED <<lifespanVars, dataset, model>>

TrainingStep ==
  \/ LoopTrains \/ LoopTurns
  \/ \E r \in TrainRequests : TriggerTraining(r)
  \/ \E w \in Trainings : BuildDataset(w) \/ FitModel(w) \/ SaveModel(w) \/ TrainingFails(w)

--------------------------------------------------------------------------------
(* The backtest: one turn of the event loop, row by row *)

RowBound == IF study = "history" THEN 1 ELSE MaxRows
RunBound == IF study = "history" THEN MaxRuns ELSE 1

Files == Frames \X {"features", "plain"}
AskedFrame == CHOOSE f \in Frames : TRUE
FilesBound == IF study = "history" THEN SUBSET Files ELSE {{<<AskedFrame, "features">>}}

\* The files a run may read: the asked timeframe's with features, the one without, any other.
FirstFound(sets) ==
  LET found == {i \in DOMAIN sets : sets[i] # {}} IN IF found = {} THEN {} ELSE sets[Min(found)]
Resolved(have) ==
  FirstFound(<<have \cap {<<AskedFrame, "features">>}, have \cap {<<AskedFrame, "plain">>},
             {f \in have : f[2] = "features"}, have>>)

BeginBacktest(have) ==
  /\ book.pc \in {"idle", "done"} /\ runs < RunBound
  /\ IF halted THEN answer' = "423" /\ UNCHANGED <<book, runs>>
     ELSE IF Resolved(have) = {} THEN answer' = "404" /\ UNCHANGED <<book, runs>>
     ELSE /\ \E f \in Resolved(have) : book' = [NewBook EXCEPT !.pc = "rows", !.have = have, !.source = {f}]
          /\ runs' = runs + 1 /\ UNCHANGED answer
  /\ UNCHANGED history

Signal(close, rsi, macd) ==
  IF book.qty = 0 THEN IF rsi < 30 /\ macd > 0 THEN "buy" ELSE "hold"
  ELSE IF rsi > 65 \/ close * 100 < book.entry * 97 THEN "sell" ELSE "hold"

\* 95 of 100 are spent, 5 are kept.
BoughtAt(close) ==
  [book EXCEPT !.qty = (book.cash * 95) \div (100 * close), !.entry = close, !.cash = @ \div 20,
               !.trades = Append(@, [NoTrade EXCEPT !.in = close])]

SoldCountingFalls(b, close) ==                                             \* mutant
  LET gain == (close - b.entry) * b.qty
  IN [b EXCEPT !.cash = @ + b.qty * close, !.qty = 0, !.entry = 0,
               !.wins = IF gain > 0 THEN @ + 1 ELSE @, !.losses = IF gain < 0 THEN @ + 1 ELSE @,
               !.pnl = @ + gain,
               !.trades[Len(b.trades)] = [@ EXCEPT !.out = close, !.pnl = gain]]
\* A sale, also the one that closes the last position: what does not win has lost.
SoldAt(b, close) ==
  LET gain == (close - b.entry) * b.qty
  IN [b EXCEPT !.cash = @ + b.qty * close, !.qty = 0, !.entry = 0,
               !.wins = IF gain > 0 THEN @ + 1 ELSE @, !.losses = IF gain > 0 THEN @ ELSE @ + 1,
               !.pnl = @ + gain,
               !.trades[Len(b.trades)] = [@ EXCEPT !.out = close, !.pnl = gain]]

Traded(signal, close) ==
  CASE signal = "buy" -> BoughtAt(close) [] signal = "sell" -> SoldAt(book, close) [] OTHER -> book

\* A row without its numbers, or without a price, is passed over.
ReadRow(close, rsi, macd, readable) ==
  /\ book.pc = "rows" /\ book.rows < RowBound
  /\ LET priced == readable /\ close # NoNumber /\ close > 0
         after == IF priced THEN Traded(Signal(close, rsi, macd), close) ELSE book
     IN book' = [after EXCEPT !.rows = @ + 1, !.last = close, !.priced = priced,
                   !.curve = IF priced THEN Append(@, after.cash + after.qty * close) ELSE @]
  /\ UNCHANGED <<history, runs, answer>>

\* The last position is sold at the last row, whatever its price; no number is an error.
ClosedOut == IF book.qty = 0 THEN book
          ELSE LET b == SoldAt(book, book.last) IN [b EXCEPT !.curve = Append(@, b.cash)]
NoClose == book.qty > 0 /\ book.last = NoNumber

MaxDrawdown(curve) ==
  LET Deeper(seen, equity) ==
        LET peak == IF equity > seen.peak THEN equity ELSE seen.peak
            fall == ((peak - equity) * 100) \div peak
        IN [peak |-> peak, deepest |-> IF fall > seen.deepest THEN fall ELSE seen.deepest]
  IN FoldLeft(Deeper, [peak |-> curve[1], deepest |-> 0], curve).deepest

LoadedRuns == IF history.torn THEN <<>> ELSE history.runs
FirstOf(s) == SubSeq(s, 1, IF Len(s) < KeptRuns THEN Len(s) ELSE KeptRuns)
WithRunLast(s) == FirstOf(Append(s, runs))                                 \* mutant
WithRun(s) == FirstOf(<<runs>> \o s)

\* An empty dataset is refused; a run is answered, saved or not: the file is written in place.
EndBacktest(save) ==
  /\ book.pc = "rows"
  /\ IF book.rows = 0 THEN answer' = "400" /\ book' = NewBook /\ UNCHANGED history
     ELSE IF NoClose THEN answer' = "500" /\ book' = NewBook /\ UNCHANGED history
     ELSE /\ answer' = IF save = "crash" THEN "none" ELSE "completed"
          /\ book' = IF save = "crash" THEN NewBook ELSE [ClosedOut EXCEPT !.pc = "done"]
          /\ history' = CASE save = "kept" -> [torn |-> FALSE, runs |-> WithRun(LoadedRuns), saved |-> runs]
                          [] save = "refused" -> history
                          [] OTHER -> [torn |-> TRUE, runs |-> <<>>, saved |-> 0]
  /\ UNCHANGED runs

BacktestStep ==
  \/ \E have \in FilesBound : BeginBacktest(have)
  \/ \E close \in Closes, rsi \in {25, 50, 67}, macd \in {-1, 1}, readable \in BOOLEAN :
       ReadRow(close, rsi, macd, readable)
  \/ \E save \in {"kept", "refused", "torn", "crash"} : EndBacktest(save)

--------------------------------------------------------------------------------
(* The stream of a chart *)

\* The initial candles are fetched in the viewer's timeframe, or the stream ends.
OpenChart(frame) ==
  /\ viewer.pc = "idle"
  /\ viewer' = [pc |-> "wait", frame |-> frame, asked |-> <<frame>>, heard |-> 1,
                 sent |-> <<[frame |-> frame, heard |-> 1]>>]

AskViewer(message) ==
  /\ viewer.pc \in {"wait", "fetch"} /\ Len(viewer.asked) <= MaxAsked
  /\ viewer' = [viewer EXCEPT !.asked = Append(@, message)]

HeardOnceMore(message) == [viewer EXCEPT !.pc = "fetch", !.heard = @ + 1]   \* mutant
\* A ping is answered with a pong; a timeframe is taken as it comes.
HeardMessage(message) ==
  [viewer EXCEPT !.heard = @ + 1, !.pc = IF message = "ping" THEN "wait" ELSE "fetch",
                 !.frame = IF message = "ping" THEN @ ELSE message]

HearViewer ==
  /\ viewer.pc = "wait" /\ viewer.heard < Len(viewer.asked)
  /\ viewer' = HeardMessage(viewer.asked[viewer.heard + 1])

\* Half a minute without a message asks for the update.
QuietViewer ==
  /\ viewer.pc = "wait" /\ Len(viewer.sent) <= MaxAsked
  /\ viewer' = [viewer EXCEPT !.pc = "fetch"]

\* The last candle goes out without its timeframe; none is sent when there is none.
SendCandle(found) ==
  /\ viewer.pc = "fetch"
  /\ viewer' = [viewer EXCEPT !.pc = "wait",
       !.sent = IF found THEN Append(@, [frame |-> viewer.frame, heard |-> viewer.heard]) ELSE @]

CloseChart == viewer.pc \in {"wait", "fetch"} /\ viewer' = NoViewer

ChartStep ==
  \/ \E frame \in Frames : OpenChart(frame)
  \/ \E message \in Frames \cup {"ping"} : AskViewer(message)
  \/ HearViewer \/ QuietViewer \/ CloseChart \/ \E found \in BOOLEAN : SendCandle(found)

ServerNext ==
  \/ study \in {"training", "history"} /\ book.pc # "rows" /\ ToggleHalt
  \/ /\ study = "lifespan" /\ LifespanStep
     /\ UNCHANGED <<study, halted, trainingVars, backtestVars, answer, viewer>>
  \/ study = "training" /\ TrainingStep /\ UNCHANGED <<study, halted, backtestVars, viewer>>
  \/ /\ study \in {"backtest", "history"} /\ BacktestStep
     /\ UNCHANGED <<study, halted, lifespanVars, trainingVars, viewer>>
  \/ /\ study = "chart" /\ ChartStep
     /\ UNCHANGED <<study, halted, lifespanVars, trainingVars, backtestVars, answer>>

ServerSpec == ServerInit /\ [][ServerNext]_serverVars

--------------------------------------------------------------------------------
\* What the server has started and knows is told to stop before the process ends, unless the
\* executor starts the trainer after that (server.py, lifespan).
ToldToStop ==
  phase = "over" => \A s \in remembered : ServiceAlive(s) /\ ~toldStop[s] => s = "trainer" /\ startedLate

\* A training that ran beside no other was fitted to the dataset it has built (service.py, run_once).
TrainedOnItsOwn == model.pc # "none" /\ ~model.beside => model.data = model.pc

\* The books of a backtest balance at every row: what the trades brought is what cash and position
\* have gained, each closed trade is a win or a loss, only the last one can be open.
BooksBalance ==
  LET n == Len(book.trades)
      closed == book.wins + book.losses
  IN /\ book.cash >= 0 /\ book.cash + book.qty * book.entry = InitialBalance + book.pnl
     /\ book.pnl = FoldLeft(LAMBDA sum, t : sum + t.pnl, 0, book.trades)
     /\ closed = n - (IF book.qty > 0 THEN 1 ELSE 0)
     /\ book.qty > 0 => book.trades[n] = [NoTrade EXCEPT !.in = book.entry]
     /\ book.pc = "done" => Last(book.curve) = InitialBalance + book.pnl

\* No position outlives a priced row more than three in a hundred below its entry.
LossIsCut == book.qty > 0 /\ book.priced => book.last * 100 >= book.entry * 97

\* A run reads another timeframe than the asked only when there is no file of that.
AskedIsRead ==
  \A s \in book.source : s[1] # AskedFrame => \A f \in book.have : f[1] # AskedFrame

\* The drawdown is the deepest fall between any two points of the curve.
DrawdownIsDeepest ==
  LET c == book.curve
      falls == {((c[p[1]] - c[p[2]]) * 100) \div c[p[1]] :
                  p \in {q \in (1 .. Len(c)) \X (1 .. Len(c)) : q[1] <= q[2] /\ c[q[1]] > 0}}
  IN book.pc = "done" => MaxDrawdown(c) = Max(falls \cup {0})

\* The history lists its runs newest first, no more than it keeps, and begins with the
\* one saved last.
NewestFirst ==
  LET h == history.runs
  IN /\ Len(h) <= KeptRuns /\ \A i \in 2 .. Len(h) : h[i] < h[i - 1]
     /\ h # <<>> => h[1] = history.saved

\* A timeframe is the one asked for last, of what had been heard then.
AskedLast(asked, frame, heard) ==
  frame # "ping" /\ \E k \in 1 .. heard : asked[k] = frame /\ \A j \in k + 1 .. heard : asked[j] = "ping"

\* Each candle is of the timeframe asked for last, of what the server had heard: the frames never go back.
FramesFollow ==
  \A i \in 1 .. Len(viewer.sent) :
    /\ AskedLast(viewer.asked, viewer.sent[i].frame, viewer.sent[i].heard)
    /\ i > 1 => viewer.sent[i].heard >= viewer.sent[i - 1].heard

(* Fail, and documented: *)

\* Whatever runs is told to stop: never the AutoML scheduler, nor a ghost machine that was started.
AllToldToStop == phase = "over" => \A s \in Services : ServiceAlive(s) => toldStop[s]

\* While the switch is on, nothing begins to train: the trainer never asks.
NothingTrainsHalted == [][halted => \A w \in Trainings : job'[w].pc = "begun" => job[w].pc = "begun"]_serverVars

\* A refused training is answered as refused.
RefusedAsLocked == study = "training" => answer # "500"

\* A run that was saved stays in the history until newer ones push it out.
SavedRunsStay == ~history.torn

\* Every trade of a backtest is closed at a price.
ClosedAtAPrice == book.pc = "done" => \A i \in 1 .. Len(book.trades) : book.trades[i].out > 0

\* A candle is of the timeframe the viewer has asked for last.
CandleIsOfTheAsked ==
  [][\A n \in {Len(viewer'.sent)} : n > Len(viewer.sent) =>
       viewer'.sent[n].frame = Last(SelectSeq(viewer'.asked, LAMBDA x : x # "ping"))]_serverVars

\* What the server runs is what was asked of it (api/server.py, ml/service.py).
JobsSound ==
  ToldToStop /\ TrainedOnItsOwn /\ LossIsCut /\ AskedIsRead /\ NewestFirst /\ FramesFollow

\* What a backtest reports of itself adds up.
BooksSound == BooksBalance /\ DrawdownIsDeepest
=============================================================================
