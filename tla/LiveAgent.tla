------------------------------- MODULE LiveAgent -------------------------------
(* The agent that trades live, and the readers of the market's regime it and others go by.         *)
(* The agent that trades live (rl/agent_integration.py): its leveraged position manager, the way   *)
(* from a policy's action to orders, the supervisor that may cut it (rl/mimo_supervisor.py has a    *)
(* second one), and the engine that answers queued observations in batches.  One thread: an action *)
(* here is a whole call.  Fractions are in fortieths, scores in hundredths, money in whole units;   *)
(* a quotient is cut to a whole number and what an entry price loses by it is kept in "rounding".   *)
EXTENDS TradingEnv, ReplayBuffer, SequencesExt
CONSTANTS Pairs,          \* sequence of the symbols, as self.symbols sorts them
          Capital0,       \* starting_capital
          MaxLeverage, FeeParts,   \* a commission is notional \div FeeParts
          Directions,     \* raw_direction of a symbol, in fortieths: -40..40
          MarketPrices,   \* with 0, a price the feed does not have
          Sentiments,     \* records [score, confidence, risk]
          RiskMultipliers, \* of the regime, in quarters
          MaxDecisions, BatchLen, MaxPending
\* The symbols are named once, and the feed has a price at the start.
ASSUME AgentAssumption ==
  /\ Len(Pairs) \in Nat \ {0} /\ \A i, j \in 1..Len(Pairs) : Pairs[i] = Pairs[j] => i = j
  /\ Capital0 \in Nat /\ MaxLeverage \in Nat \ {0} /\ FeeParts \in Nat \ {0} /\ BatchLen \in Nat \ {0}
  /\ Directions \subseteq Int /\ MarketPrices \subseteq Nat /\ \E x \in MarketPrices : x > 0
  /\ RiskMultipliers \subseteq Nat /\ MaxDecisions \in Nat /\ MaxPending \in Nat
  /\ Sentiments \subseteq [score : Int, confidence : Nat, risk : Nat]

VARIABLES margin, market, sentiment, multiplier, supervisor, decisions, refusedExit,
          pending, asked, answers, inferences, part

agentVars == <<margin, market, sentiment, multiplier, supervisor, decisions, refusedExit,
               pending, asked, answers, inferences, part>>

PairSet == {Pairs[i] : i \in 1..Len(Pairs)}
NoSentiment == [score |-> 0, confidence |-> 0, risk |-> 0]
FullShare == 40
Bigger(i, j) == IF i > j THEN i ELSE j

AgentInit ==
  /\ part \in {"trade", "batch"}
  /\ margin = [cash |-> Capital0, held |-> [s \in PairSet |-> 0], entry |-> [s \in PairSet |-> 0],
             wins |-> 0, losses |-> 0, gains |-> 0, flows |-> 0, fees |-> 0, rounding |-> 0, refused |-> {},
             onCredit |-> {}]
  /\ market = [s \in PairSet |-> CHOOSE x \in MarketPrices : x > 0]
  /\ sentiment = NoSentiment /\ multiplier = 4 /\ supervisor \in {"none", "inline", "module"}
  /\ decisions = 0 /\ refusedExit = FALSE
  /\ pending = <<>> /\ asked = <<>> /\ answers = <<>> /\ inferences = 0

--------------------------------------------------------------------------------
(* PositionManager *)

\* The margin of what is bought and its commission must be there in cash ...
MarginThere(a, s, target, price) ==
  LET notional == (target - a.held[s]) * price IN
  target > a.held[s] => notional + MaxLeverage * (notional \div FeeParts) <= MaxLeverage * a.cash

\* ... and the whole position may not be worth more than the leverage of the cash allows, be it smaller
\* than before or not.  Nothing that is held counts as equity.
WithinLeverage(a, target, price) == target * price <= MaxLeverage * Bigger(a.cash, 0)

ShouldTradeHeld(a, s, target, price) ==   \* mutant
  price > 0 /\ MarginThere(a, s, target, price) /\ WithinLeverage(a, Bigger(target, a.held[s]), price)
ShouldTrade(a, s, target, price) == price > 0 /\ MarginThere(a, s, target, price) /\ WithinLeverage(a, target, price)

\* A purchase moves no cash but the commission: the price is averaged into the entry price.
AverageEntry(cost, qty) == cost \div qty

Bought(a, s, qty, price) ==
  LET fee  == (qty * price) \div FeeParts
      next == a.held[s] + qty
      cost == a.entry[s] * a.held[s] + price * qty
      avg  == AverageEntry(cost, next)
  IN [a EXCEPT !.cash = @ - fee, !.held[s] = next, !.entry[s] = avg,
               !.flows = @ - qty * price, !.fees = @ + fee, !.rounding = @ + (cost % next),
               !.onCredit = @ \cup (IF a.cash > 0 THEN {} ELSE {s})]

\* A sale books the gain over the entry price; what breaks even counts as a loss.
Sold(a, s, qty, price) ==
  LET fee  == (qty * price) \div FeeParts
      pnl == (price - a.entry[s]) * qty
      left == a.held[s] - qty
  IN [a EXCEPT !.cash = @ + pnl - fee, !.held[s] = left, !.entry[s] = IF left = 0 THEN 0 ELSE a.entry[s],
               !.wins = @ + (IF pnl > 0 THEN 1 ELSE 0), !.losses = @ + (IF pnl > 0 THEN 0 ELSE 1),
               !.gains = @ + pnl, !.flows = @ + qty * price, !.fees = @ + fee]

\* execute_trade: a sale of more than is held is rejected, and what should_trade does not allow.
ExecuteTrade(a, s, side, qty, price) ==
  IF side = "sell" /\ qty > a.held[s] THEN a
  ELSE IF ~ShouldTrade(a, s, IF side = "buy" THEN a.held[s] + qty ELSE a.held[s] - qty, price)
       THEN [a EXCEPT !.refused = @ \cup {s}]
       ELSE IF side = "buy" THEN Bought(a, s, qty, price) ELSE Sold(a, s, qty, price)

--------------------------------------------------------------------------------
(* The supervisors: what is left of a target fraction *)

\* MimoSupervisor of agent_integration.py: it cuts purchases, it never forbids one.
InlineFraction(f) ==
  IF sentiment.score < -70 /\ sentiment.confidence > 60 /\ 10 * f > 3 * FullShare THEN f \div 4
  ELSE IF sentiment.risk > 85 /\ 5 * f > FullShare THEN f \div 2
  ELSE IF 10 * f > 7 * FullShare /\ sentiment.score < -40 /\ sentiment.confidence > 50 THEN f \div 2
  ELSE f

\* MimoSupervisor of mimo_supervisor.py: other thresholds, and it may forbid.
ModuleFraction(f) ==
  IF sentiment.score < -80 THEN 0
  ELSE IF sentiment.risk > 90 THEN f \div 4
  ELSE IF 10 * f > FullShare /\ sentiment.score < -70 THEN f \div 2
  ELSE f

Supervised(f) ==
  IF sentiment = NoSentiment \/ supervisor = "none" THEN f
  ELSE IF supervisor = "inline" THEN InlineFraction(f) ELSE ModuleFraction(f)

--------------------------------------------------------------------------------
(* process_action *)

\* A direction below zero is a target of nothing; an anomaly halves, the regime scales.
TargetFraction(direction, anomaly) ==
  LET wanted  == Bigger(0, direction) \div (IF anomaly THEN 2 ELSE 1)
      settled == Supervised((wanted * multiplier) \div 4)
  IN IF settled > FullShare THEN FullShare ELSE settled

\* Every symbol is sized with the leverage of all the cash.
SizedQty(a, fraction, price) == Bigger(0, (fraction * a.cash * MaxLeverage) \div (FullShare * price))

Rebalance(a, s, fraction) ==
  IF market[s] = 0 THEN a
  ELSE LET target == SizedQty(a, fraction, market[s]) IN
       IF target = a.held[s] THEN a
       ELSE IF target > a.held[s] THEN ExecuteTrade(a, s, "buy", target - a.held[s], market[s])
       ELSE ExecuteTrade(a, s, "sell", a.held[s] - target, market[s])

\* The symbols one after the other.
Rebalanced(direction, anomalies) ==
  LET Upto[i \in 0 .. Len(Pairs)] ==
        IF i = 0 THEN [margin EXCEPT !.refused = {}]
        ELSE Rebalance(Upto[i - 1], Pairs[i], TargetFraction(direction[Pairs[i]], Pairs[i] \in anomalies))
  IN Upto[Len(Pairs)]

ProcessAction(direction, anomalies) ==
  LET after == Rebalanced(direction, anomalies)
  IN /\ part = "trade" /\ decisions < MaxDecisions
     /\ margin' = after /\ decisions' = decisions + 1
     /\ refusedExit' = \E s \in PairSet : direction[s] <= 0 /\ market[s] > 0 /\ after.held[s] > 0
     /\ UNCHANGED <<market, sentiment, multiplier, supervisor, pending, asked, answers, inferences, part>>

\* execute_trade called by itself.
TradeDirectly(s, side, qty) ==
  /\ part = "trade" /\ decisions < MaxDecisions /\ market[s] > 0
  /\ margin' = ExecuteTrade([margin EXCEPT !.refused = {}], s, side, qty, market[s])
  /\ decisions' = decisions + 1 /\ refusedExit' = FALSE
  /\ UNCHANGED <<market, sentiment, multiplier, supervisor, pending, asked, answers, inferences, part>>

\* The market moves, the sentiment scheduler injects its latest result, the regime changes (external).
World ==
  /\ part = "trade" /\ decisions < MaxDecisions
  /\ \/ /\ decisions > 0 /\ \E x \in MarketPrices : market' = [market EXCEPT ![Pairs[1]] = x]
        /\ UNCHANGED <<sentiment, multiplier>>
     \/ /\ decisions = 0 /\ multiplier' \in RiskMultipliers /\ UNCHANGED market
        /\ IF supervisor = "none" THEN UNCHANGED sentiment ELSE sentiment' \in Sentiments
  /\ UNCHANGED <<margin, supervisor, decisions, refusedExit, pending, asked, answers, inferences, part>>

--------------------------------------------------------------------------------
(* BatchInferenceEngine: the model answers an observation with itself *)

AddObservation(s, obs) ==
  /\ part = "batch" /\ decisions < MaxPending /\ answers = <<>>
  /\ pending' = Append(pending, <<s, obs>>) /\ asked' = Append(asked, <<s, obs>>)
  /\ decisions' = decisions + 1
  /\ UNCHANGED <<margin, market, sentiment, multiplier, supervisor, refusedExit, answers, inferences, part>>

ChunkStartsFull(n) == {i \in 0..n - BatchLen : i % BatchLen = 0}   \* mutant
ChunkStarts(n) == {i \in 0..n - 1 : i % BatchLen = 0}

\* The pending observations a run reaches, chunk by chunk.
AnsweredAt(n) == {i \in 1..n : \E c \in ChunkStarts(n) : i \in c + 1..c + BatchLen}

\* A later observation of a symbol overwrites the answer to an earlier one.
BatchAnswers(obs) ==
  LET of(s) == {i \in AnsweredAt(Len(obs)) : obs[i][1] = s} IN
  [s \in {t \in PairSet : of(t) # {}} |-> obs[CHOOSE i \in of(s) : \A j \in of(s) : j <= i][2]]

\* A chunk whose prediction fails is predicted one by one, through the agent, which counts; when that
\* raises too the call ends without an answer and everything stays pending.
ProcessBatch(failed, raises) ==
  /\ part = "batch" /\ pending # <<>>
  /\ failed \subseteq ChunkStarts(Len(pending)) /\ raises => failed # {}
  /\ IF raises
     THEN UNCHANGED <<pending, asked, answers>> /\ inferences < MaxPending /\ inferences' = inferences + 1
     ELSE /\ answers' = BatchAnswers(pending) /\ pending' = <<>>
          /\ inferences' = inferences +
                Cardinality({i \in AnsweredAt(Len(pending)) : \E c \in failed : i \in c + 1..c + BatchLen})
          /\ UNCHANGED asked
  /\ UNCHANGED <<margin, market, sentiment, multiplier, supervisor, decisions, refusedExit, part>>

\* The caller has read the answers.
Collect ==
  /\ part = "batch" /\ answers # <<>>
  /\ asked' = pending /\ answers' = <<>>
  /\ UNCHANGED <<margin, market, sentiment, multiplier, supervisor, decisions, refusedExit,
                 pending, inferences, part>>

AgentNext ==
  \/ \E d \in [PairSet -> Directions], an \in {{}, {Pairs[1]}} : ProcessAction(d, an)
  \/ \E side \in {"buy", "sell"}, qty \in {4, 10} : TradeDirectly(Pairs[1], side, qty)
  \/ World
  \/ \E s \in PairSet, obs \in {1, 2} : AddObservation(s, obs)
  \/ \E failed \in SUBSET {0, BatchLen}, raises \in BOOLEAN : ProcessBatch(failed, raises)
  \/ Collect

AgentSpec == AgentInit /\ [][AgentNext]_agentVars

--------------------------------------------------------------------------------
(* Properties *)

SumOver(f) == MapThenSumSet(LAMBDA s : f[s], PairSet)

AgentTypeOK ==
  /\ margin.held \in [PairSet -> Nat] /\ margin.entry \in [PairSet -> Nat] /\ margin.cash \in Int
  /\ market \in [PairSet -> MarketPrices] /\ sentiment \in Sentiments \cup {NoSentiment}
  /\ decisions \in Nat /\ pending \in Seq(PairSet \X {1, 2})

\* The books agree over any sequence of trades: cash is the capital with the realised gains less the
\* commissions, and what the entry prices say is tied up is what was paid less what was got for the
\* part that is gone (PositionManager.execute_trade).
AgentBooksBalance ==
  /\ margin.cash = Capital0 + margin.gains - margin.fees
  /\ SumOver([s \in PairSet |-> margin.entry[s] * margin.held[s]]) = margin.gains - margin.flows - margin.rounding
  /\ \A s \in PairSet : margin.held[s] > 0 <=> margin.entry[s] > 0

\* Whatever was lost before, a position the policy wants closed is closed: the leverage check never
\* keeps the agent in (process_action through should_trade).
ExitsGoThrough == ~refusedExit

\* Nothing is bought when the cash is used up (should_trade).
NothingOnCredit == margin.onCredit = {}

\* A batch answers every symbol that was asked about, from its latest observation, however its chunks
\* failed and after whatever earlier call that raised (process_batch).
AnswersLatest ==
  answers # <<>> =>
    /\ DOMAIN answers = {asked[i][1] : i \in 1..Len(asked)}
    /\ \A s \in DOMAIN answers :
         \E i \in 1..Len(asked) : asked[i] = <<s, answers[s]>> /\ \A j \in i + 1..Len(asked) : asked[j][1] # s

AgentSound == AgentTypeOK /\ AgentBooksBalance /\ ExitsGoThrough /\ NothingOnCredit /\ AnswersLatest

(* Fail, and documented: every symbol is sized with the leverage of the whole cash, so the sum goes over *)
(* it; the margin of a full direction with its commission is more than the cash that sized it, so the    *)
(* strongest signal is the one refused; losses on leverage leave cash below zero.                        *)
TotalWithinLeverage == SumOver([s \in PairSet |-> margin.held[s] * margin.entry[s]]) <= MaxLeverage * Capital0
WantedIsTraded == margin.refused = {}
NeverInDebt == margin.cash >= 0

--------------------------------------------------------------------------------
(* Three readers of the market's regime, one per behaviour (view): "window", the detector of the    *)
(* learning agents (rl/regime_detector.py), which cuts its history as it goes; "router", the        *)
(* classifier whose route tempers the signals (ml/regime_router.py); "hidden", the hidden Markov    *)
(* model with what sizes positions by it (ml/regime_detector.py).  Returns are in thousandths.      *)
CONSTANTS WindowSize,      \* window_size of the detector (50), lookback of the router (30)
          MinReturns,      \* returns before the detector says anything (10)
          QuotePrices,     \* the prices quoted; 0 stands for what is no price
          CalmVolatility, TrendLimit, CrashLimit,   \* the detector's thresholds
          HiddenCounts,    \* n_states of the model
          Probabilities,   \* how sure the model is of a state, in hundredths
          BasePositions,   \* positions to be adjusted
          MaxQuotes, MaxDays, MaxFits

\* A window of fewer returns than the detector needs would silence it once its history is cut.
ASSUME RegimesAssumption ==
  /\ WindowSize \in Nat \ {0} /\ MinReturns \in 0 .. WindowSize
  /\ QuotePrices \subseteq Nat /\ HiddenCounts \subseteq Nat /\ MaxQuotes \in Nat

VARIABLES view,
          heard,        \* history: the prices since the last reset
          priced,       \* the prices the detector keeps
          returned,     \* the returns it keeps; the states of the days for the hidden model
          verdict, hidden, regimeNow, transitions, fits

regimesVars == <<view, heard, priced, returned, verdict, hidden, regimeNow, transitions, fits>>

SumOf(s) == FoldLeft(LAMBDA a, b : a + b, 0, s)
LatestOf(s, n) == SubSeq(s, Len(s) - n + 1, Len(s))
AtMost(s, n) == IF Len(s) > n THEN LatestOf(s, n) ELSE s
MoveBetween(a, b) == (1000 * (b - a)) \div a
Moves(s) == [i \in 1 .. Len(s) - 1 |-> MoveBetween(s[i], s[i + 1])]

--------------------------------------------------------------------------------
(* The detector of the learning agents *)

\* n squared times the variance of n returns.
Spread(r) == Len(r) * SumOf([i \in DOMAIN r |-> r[i] * r[i]]) - SumOf(r) * SumOf(r)
FallsBeyond(p, limit) == \E i, j \in DOMAIN p : i <= j /\ ((p[i] - p[j]) * 1000) \div p[i] > limit

\* _classify: the regime, from the last returns and prices.
Classified(returns, quoted) ==
  LET r == AtMost(returns, WindowSize)
      p == AtMost(quoted, WindowSize)
      Wilder(k) == Spread(r) > (Len(r) * k * CalmVolatility) * (Len(r) * k * CalmVolatility)
  IN IF Len(returns) < MinReturns THEN "ranging"
     ELSE IF FallsBeyond(p, CrashLimit) \/ Wilder(5) THEN "crash"
     ELSE IF Wilder(2) THEN "volatile"
     ELSE IF SumOf(r) * SumOf(r) > Len(r) * TrendLimit * TrendLimit THEN "trending"
     ELSE "ranging"

KeptReturnsOfWindow(r, overfull) == IF overfull THEN LatestOf(r, WindowSize - 1) ELSE r     \* mutant
KeptReturns(r, overfull) == IF overfull THEN LatestOf(r, WindowSize) ELSE r

\* update: the histories are cut to a window when they hold more than two.
DetectorUpdate(price) ==
  LET p == Append(priced, price)
      r == IF priced = <<>> THEN returned ELSE Append(returned, MoveBetween(Last(priced), price))
      overfull == Len(p) > 2 * WindowSize
  IN /\ view = "window" /\ Len(heard) < MaxQuotes /\ price > 0
     /\ heard' = Append(heard, price)
     /\ priced' = IF overfull THEN LatestOf(p, WindowSize) ELSE p
     /\ returned' = KeptReturns(r, overfull)
     /\ verdict' = Classified(returned', priced')
     /\ UNCHANGED <<view, hidden, regimeNow, transitions, fits>>

\* reset: a symbol not heard of is ranging.
DetectorReset ==
  /\ view = "window" /\ heard # <<>>
  /\ heard' = <<>> /\ priced' = <<>> /\ returned' = <<>> /\ verdict' = "ranging"
  /\ UNCHANGED <<view, hidden, regimeNow, transitions, fits>>

--------------------------------------------------------------------------------
(* The router *)

\* classify_market_regime: what is no price is left out, and two prices are too few.
Routed(tape) ==
  LET finite == SelectSeq(tape, LAMBDA q : q > 0)
      r == AtMost(Moves(finite), WindowSize)
      up == Cardinality({i \in DOMAIN r : r[i] > 0})
  IN IF Len(finite) < 3 THEN "SIDEWAYS"
     ELSE IF SumOf(r) > Len(r) /\ 100 * up >= 55 * Len(r) THEN "BULL"
     ELSE IF SumOf(r) < -Len(r) /\ 100 * up <= 45 * Len(r) THEN "BEAR"
     ELSE "SIDEWAYS"

RouterQuote(price) ==
  /\ view = "router" /\ Len(heard) < MaxQuotes
  /\ heard' = Append(heard, price) /\ verdict' = Routed(heard')
  /\ UNCHANGED <<view, priced, returned, hidden, regimeNow, transitions, fits>>

\* Signals by their strength, STRONG_SELL to STRONG_BUY; what is none of them holds.
Signals == -2 .. 2
RiskOf(regime) == IF regime = "BULL" THEN 100 ELSE IF regime = "BEAR" THEN 55 ELSE 75
Sure == 85

OverlayByRegime(signal, conf, regime) ==                                    \* mutant
  CASE regime = "BEAR" /\ signal > 0 /\ conf < Sure -> -1
    [] regime = "BULL" /\ signal < 0 /\ conf < Sure -> 0
    [] OTHER -> signal
\* apply_regime_overlay: against the regime only a sure signal stands, and no strong one.
Overlay(signal, conf, regime) ==
  CASE regime = "BEAR" /\ signal > 0 -> IF conf < Sure THEN 0 ELSE 1
    [] regime = "BULL" /\ signal < 0 -> IF conf < Sure THEN 0 ELSE -1
    [] regime = "SIDEWAYS" /\ signal = 2 -> 1
    [] regime = "SIDEWAYS" /\ signal = -2 -> -1
    [] OTHER -> signal

\* The expected return with it, in units of the return expected; kept from pointing to what was held back.
OverlaidReturn(signal, return, conf, regime) ==
  LET scaled == return * RiskOf(regime) IN
  CASE regime = "BEAR" /\ signal > 0 /\ conf < Sure -> IF scaled < 0 THEN scaled ELSE 0
    [] regime = "BULL" /\ signal < 0 /\ conf < Sure -> IF scaled > 0 THEN scaled ELSE 0
    [] OTHER -> scaled

--------------------------------------------------------------------------------
(* The hidden Markov model *)

Regimes == {"BULL", "BEAR", "SIDEWAYS"}
HiddenStates == 1 .. hidden.n
HigherStates(means, s) == Cardinality({t \in DOMAIN means : means[t] > means[s]})

\* _map_states: of three states by their mean returns; of any other number by their index.
MappingOf(means) ==
  [s \in DOMAIN means |->
     LET rank == IF Len(means) = 3 THEN HigherStates(means, s) ELSE (s - 1) % Len(means)
     IN IF rank = 0 THEN "BULL" ELSE IF rank = 1 THEN "SIDEWAYS" ELSE "BEAR"]

\* fit, again or for the first time: the states get other means.
Fit(means) ==
  /\ view = "hidden" /\ fits < MaxFits /\ fits' = fits + 1
  /\ hidden' = [hidden EXCEPT !.means = means, !.regime = MappingOf(means)]
  /\ UNCHANGED <<view, heard, priced, returned, verdict, regimeNow, transitions>>

\* update_regime: a transition is one of regimes, not of states.
UpdateRegime(s, prob) ==
  LET regime == hidden.regime[s] IN
  /\ view = "hidden" /\ hidden.means # <<>> /\ Len(returned) < MaxDays
  /\ transitions' = IF regimeNow # <<>> /\ regimeNow[1].regime # regime
                    THEN Append(transitions, <<regimeNow[1].regime, regime>>) ELSE transitions
  /\ regimeNow' = <<[regime |-> regime, prob |-> prob]>>
  /\ returned' = Append(returned, s)
  /\ UNCHANGED <<view, heard, priced, verdict, hidden, fits>>

SizeRatio(regime) == IF regime = "BULL" THEN 100 ELSE IF regime = "BEAR" THEN 50 ELSE 70

\* adjust_position_for_regime: less than a lot is nothing; without a regime the position stays.
AdjustedPosition(base, regime) ==
  LET adjusted == (base * SizeRatio(regime)) \div 100 IN IF adjusted < 100 THEN 0 ELSE adjusted
Adjusted(base) == IF regimeNow = <<>> THEN base ELSE AdjustedPosition(base, regimeNow[1].regime)

SureEnough == regimeNow # <<>> /\ regimeNow[1].prob > 70

\* analyze_regimes: the days of each state; a regime with one day has no return, and the analysis raises.
DaysOf(regime) == {i \in DOMAIN returned : hidden.regime[returned[i]] = regime}
DurationOf(regime) == Cardinality(DaysOf(regime))

\* The days a regime's returns are taken between, one after the other.
PairsOf(regime) ==
  {d \in DaysOf(regime) \X DaysOf(regime) : d[1] < d[2] /\ ~\E k \in DaysOf(regime) : d[1] < k /\ k < d[2]}

--------------------------------------------------------------------------------
NoModel(n) == [n |-> n, means |-> <<>>, regime |-> <<>>]

RegimesInit ==
  /\ view \in {"window", "router", "hidden"}
  /\ heard = <<>> /\ priced = <<>> /\ returned = <<>>
  /\ verdict = IF view = "router" THEN "SIDEWAYS" ELSE "ranging"
  /\ hidden \in {NoModel(n) : n \in HiddenCounts}
  /\ regimeNow = <<>> /\ transitions = <<>> /\ fits = 0

MeansOf(n) == {means \in [1 .. n -> 1 .. n] : \A s, t \in 1 .. n : means[s] = means[t] => s = t}

RegimesNext ==
  \/ \E price \in QuotePrices : DetectorUpdate(price) \/ RouterQuote(price)
  \/ DetectorReset
  \/ \E means \in MeansOf(hidden.n) : Fit(means)
  \/ \E s \in HiddenStates, prob \in Probabilities : UpdateRegime(s, prob)

RegimesSpec == RegimesInit /\ [][RegimesNext]_regimesVars

--------------------------------------------------------------------------------
(* Properties *)

RegimesTypeOK ==
  /\ verdict \in {"ranging", "trending", "volatile", "crash", "BULL", "BEAR", "SIDEWAYS"}
  /\ Len(priced) <= 2 * WindowSize /\ Len(heard) <= MaxQuotes
  /\ hidden.means # <<>> => DOMAIN hidden.regime = HiddenStates

\* Cutting the history never shows: the detector says of what it kept what it would say of all the
\* prices since the reset (rl/regime_detector.py, update).
CutIsUnseen ==
  view = "window" => verdict = IF heard = <<>> THEN "ranging" ELSE Classified(Moves(heard), heard)

\* The route tempers a signal and never turns, strengthens or makes one, whatever the tape, and doing
\* it again changes nothing more (regime_router.py).
OverlayTempers ==
  view = "router" =>
    \A signal \in Signals, conf \in {Sure - 1, Sure} :
      LET out == Overlay(signal, conf, verdict) IN
      /\ out \in (IF signal < 0 THEN signal .. 0 ELSE 0 .. signal)
      /\ Overlay(out, conf, verdict) = out

\* A signal and a return that pointed the same way are not set against one another by the route.
OverlayAgrees ==
  view = "router" =>
    \A signal \in Signals, return \in -1 .. 1, conf \in {Sure - 1, Sure} :
      signal * return >= 0 /\ (signal = 0 => return = 0) =>
        Overlay(signal, conf, verdict) * OverlaidReturn(signal, return, conf, verdict) >= 0

\* The transitions are one path of regimes up to the current one, though the states may have changed
\* their regimes by a new fit in between (ml/regime_detector.py, update_regime).
TransitionsChain ==
  /\ \A i \in DOMAIN transitions : transitions[i][1] # transitions[i][2]
  /\ \A i \in 1 .. Len(transitions) - 1 : transitions[i][2] = transitions[i + 1][1]
  /\ transitions # <<>> => Last(transitions)[2] = regimeNow[1].regime

\* With three states the regimes stand in the order of their returns, and share the days out among them.
ThreeAreOrdered ==
  view = "hidden" /\ hidden.n = 3 /\ hidden.means # <<>> =>
    /\ \A s, t \in HiddenStates :
         /\ hidden.regime[s] = "BULL" => hidden.means[s] >= hidden.means[t]
         /\ hidden.regime[s] = "BEAR" => hidden.means[s] <= hidden.means[t]
    /\ DurationOf("BULL") + DurationOf("BEAR") + DurationOf("SIDEWAYS") = Len(returned)

\* All of it: what the three say of the market and what follows from it.
RegimesSound ==
  RegimesTypeOK /\ CutIsUnseen /\ OverlayTempers /\ OverlayAgrees /\ TransitionsChain /\ ThreeAreOrdered

(* Fail, and documented: *)

\* A market that only rose can be a crash: the volatility has no sign.
CrashIsAFall == view = "window" /\ verdict = "crash" => \E i \in 2 .. Len(priced) : priced[i] < priced[i - 1]

\* A bull market may have ended below where the window began: the mean is of returns.
BullIsUp ==
  view = "router" /\ verdict = "BULL" =>
    LET p == AtMost(SelectSeq(heard, LAMBDA q : q > 0), WindowSize + 1) IN Last(p) > Head(p)

\* Of two states the first is the bull market whatever it returned.
BullIsHighest ==
  view = "hidden" => \A s, t \in DOMAIN hidden.means : hidden.regime[s] = "BULL" => hidden.means[s] >= hidden.means[t]

\* The comment says the position is rounded to lots of 100.
PositionIsLots == \A base \in BasePositions : Adjusted(base) % 100 = 0

\* Before any regime is known the parameters are those of SIDEWAYS, but the position is not adjusted.
UnknownIsSideways == \A base \in BasePositions : regimeNow = <<>> => Adjusted(base) = AdjustedPosition(base, "SIDEWAYS")

\* A trade may go by what a model fitted since would not say any more of the same day.
TradesByTheModel ==
  view = "hidden" /\ SureEnough => regimeNow[1].regime = hidden.regime[Last(returned)]

\* The returns of a regime leap over the days between.
ReturnsAreDaily ==
  view = "hidden" /\ hidden.means # <<>> => \A r \in Regimes : \A d \in PairsOf(r) : d[2] = d[1] + 1

--------------------------------------------------------------------------------
(* What the learning agents learn and trade by: the environment they act in, the replayed experience *)
(* they learn from, the portfolio they study on, the account they trade, the regime of the market.   *)
LearnersSound == EnvSound /\ ReplaySound /\ PortfolioSound /\ AgentSound /\ RegimesSound
================================================================================
