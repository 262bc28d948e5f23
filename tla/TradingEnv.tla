----------------------------- MODULE TradingEnv ------------------------------
(* The reinforcement-learning environment, rl/envs/trading_env.py: an episode over a price series,   *)
(* traded through an execution manager with a paper broker of its own (ExecutionManager; what that   *)
(* refuses is a choice here).  Lots are one position_size; a fee, a slippage and the broker's own     *)
(* cut are one amount per lot.  Rewards are arithmetic on the step's gain and are left out.          *)
(*                                                                                                   *)
(* self.pos is only ever reset: the steps in a position are 0 for ever, so every loss counts as cut   *)
(* quickly and every held position as patience; neither is state here.                               *)
EXTENDS Integers, Sequences, FiniteSets, FiniteSetsExt

CONSTANTS
  TickPrices,    \* prices of the series
  Brackets,      \* distances of a take-profit limit from the price
  Capital,       \* starting_cash
  Leverages,     \* values of max_leverage
  Slip, Fee, BrokerCut,
  Maintenance,   \* liquidation_threshold
  MaxTicks, MaxEpisodes,    \* bounds: the length of the series, the resets
  NoEntryPrice

\* Slippage and commissions are shares of the price, so together they are less than it.
ASSUME EnvAssumption ==
  /\ TickPrices \subseteq Nat \ {0} /\ Brackets \subseteq Nat \ {0} /\ IsFiniteSet(TickPrices) /\ IsFiniteSet(Brackets)
  /\ Leverages \subseteq Nat \ {0} /\ Slip \in Nat /\ Fee \in Nat /\ BrokerCut \in Nat
  /\ \A p \in TickPrices, n \in Leverages : 5 * Slip + BrokerCut + n * Fee <= p
  /\ Capital \in Nat /\ Maintenance \in Int /\ MaxTicks \in Nat /\ MaxEpisodes \in Nat \ {0} /\ NoEntryPrice \notin Int

VARIABLES leverage, tick, quote, episodes,
          acct,    \* the broker's cash and lots, the margin, the entry price, the pending limit sells
          gain,    \* the difference of the equities the last step's return is made of
          counted, \* _total_wins + _total_losses
          closed   \* history: lots that left a position by a sale or a take-profit

envVars == <<leverage, tick, quote, episodes, acct, gain, counted, closed>>

Limits == {p + b : p \in TickPrices, b \in Brackets}
NoLimits == [l \in Limits |-> 0]
LimitCount(a, S) == MapThenSumSet(LAMBDA l : a.limits[l], S)

FreshAccount == [cash |-> Capital, lots |-> 0, margin |-> 0, entry |-> NoEntryPrice, limits |-> NoLimits, dead |-> FALSE]

Equity(a) == a.cash + a.lots * quote - a.margin

-----------------------------------------------------------------------------
(* The parts of a step, in its order: the manager's tick ...                                         *)
Reached(a) == {l \in Limits : l <= quote /\ a.limits[l] > 0}

\* ... fills k of the limits that are reached and removes all of them; a freeze empties the queue.
TickKeeps(a, k, frozen) ==                                                   \* mutant
  [a EXCEPT !.lots = @ - k, !.cash = @ + k * (quote - BrokerCut), !.entry = IF k > 0 THEN NoEntryPrice ELSE @]
Tick(a, k, frozen) ==
  [a EXCEPT !.lots = @ - k, !.cash = @ + k * (quote - BrokerCut), !.entry = IF k > 0 THEN NoEntryPrice ELSE @,
            !.limits = [l \in Limits |-> IF frozen \/ l \in Reached(a) THEN 0 ELSE @[l]]]

\* _resolve_liquidity_adjusted_price and _apply_slippage: a thin market costs once more.
Cost(depth) == IF depth = "thin" THEN 2 * Slip ELSE Slip

\* ... the decision.  The commission is checked for and taken beside the broker, whose own cut comes on top.
CanBuy(a, depth) ==
  LET price == quote + Cost(depth)
  IN  depth # "none" /\ a.cash >= price + leverage * Fee /\ a.cash >= price + BrokerCut
Bracketed(limits, b) == IF b = 0 THEN limits ELSE [limits EXCEPT ![quote + b] = @ + 1]
Buy(a, depth, b) ==
  LET price == quote + Cost(depth)
  IN  [a EXCEPT !.cash = @ - price - BrokerCut - leverage * Fee, !.lots = @ + 1, !.entry = price,
                !.margin = @ + price * (leverage - 1),
                !.limits = Bracketed(a.limits, b)]

CanSell(a, depth) == depth # "none" /\ a.lots > 0
Sell(a, depth) ==
  LET price == quote - Cost(depth)
  IN  [a EXCEPT !.cash = @ + a.lots * (price - BrokerCut - leverage * Fee), !.lots = 0, !.entry = NoEntryPrice,
                !.margin = Max({0, @ - (price * a.lots * (leverage - 1)) \div leverage}), !.limits = NoLimits]

Withdraw(a) == [a EXCEPT !.limits = NoLimits]

\* ... and _check_liquidation, whose sale the manager may refuse too.
Ruined(a) == Equity(a) <= Maintenance
Liquidated(a, ok) ==
  [a EXCEPT !.cash = IF ok THEN @ + a.lots * (quote - 5 * Slip - BrokerCut) ELSE @, !.lots = IF ok THEN 0 ELSE @,
            !.margin = 0, !.dead = TRUE]

-----------------------------------------------------------------------------
\* What is left of a step once the decision has made a of the account: the return is taken at the price
\* of the tick that ends, the one the step began with.
Finish(a, trades, ok) ==
  /\ closed' = closed + acct.lots - a.lots + (IF trades = "buy" THEN 1 ELSE 0)
  /\ IF Ruined(a)
     THEN acct' = Liquidated(a, ok) /\ gain' = 0 /\ UNCHANGED <<tick, quote>>
     ELSE acct' = a /\ gain' = Equity(a) - Equity(acct) /\ tick' = tick + 1 /\ quote' \in TickPrices
  /\ UNCHANGED <<leverage, episodes>>

\* A trade is counted when the entry price was known: once for the tick, once for the sale.
Counts(a, b) == IF a.entry # NoEntryPrice /\ b.entry = NoEntryPrice THEN 1 ELSE 0

AfterTick == {Tick(acct, k, f) : k \in 0 .. Min({acct.lots, LimitCount(acct, Reached(acct))}), f \in BOOLEAN}

Live == ~acct.dead /\ tick < MaxTicks

StepHold(ok) ==     \* also a decision that is refused
  /\ Live
  /\ \E a \in AfterTick : Finish(a, "none", ok) /\ counted' = counted + Counts(acct, a)

StepBuy(depth, b, ok) ==
  /\ Live
  /\ \E a \in AfterTick :
       /\ CanBuy(a, depth)
       /\ Finish(Buy(a, depth, b), "buy", ok) /\ counted' = counted + Counts(acct, a)

StepSell(depth, ok) ==
  /\ Live
  /\ \E a \in AfterTick :
       /\ CanSell(a, depth)
       /\ Finish(Sell(a, depth), "sell", ok) /\ counted' = counted + Counts(acct, a) + Counts(a, Sell(a, depth))

StepCancel(ok) ==
  /\ Live
  /\ \E a \in AfterTick : Finish(Withdraw(a), "none", ok) /\ counted' = counted + Counts(acct, a)

\* reset makes a new manager with a new broker; wins and losses go on.
Reset ==
  /\ episodes < MaxEpisodes
  /\ episodes' = episodes + 1 /\ acct' = FreshAccount /\ tick' = 0 /\ gain' = 0 /\ quote' \in TickPrices
  /\ UNCHANGED <<leverage, counted, closed>>

EnvInit ==
  /\ leverage \in Leverages /\ quote \in TickPrices /\ tick = 0 /\ episodes = 1
  /\ acct = FreshAccount /\ gain = 0 /\ counted = 0 /\ closed = 0

EnvNext ==
  \/ Reset
  \/ \E ok \in BOOLEAN :
       \/ StepHold(ok) \/ StepCancel(ok)
       \/ \E depth \in {"thin", "deep"} : StepSell(depth, ok) \/ \E b \in Brackets \cup {0} : StepBuy(depth, b, ok)

EnvSpec == EnvInit /\ [][EnvNext]_envVars

-----------------------------------------------------------------------------
EnvTypeOK ==
  /\ leverage \in Leverages /\ tick \in 0 .. MaxTicks /\ quote \in TickPrices /\ episodes \in 1 .. MaxEpisodes
  /\ acct.lots \in Nat /\ acct.margin \in Nat /\ acct.cash \in Int /\ acct.dead \in BOOLEAN
  /\ acct.limits \in [Limits -> Nat] /\ counted \in Nat /\ closed \in Nat /\ gain \in Int

\* While an episode runs, the pending take-profits never ask for more lots than are held, so none of
\* them is refused for want of stock, and an entry price is kept only for a position.
PendingCovered ==
  ~acct.dead => LimitCount(acct, Limits) <= acct.lots /\ (acct.entry # NoEntryPrice => acct.lots > 0)

\* No trade is counted as won or lost without a lot that was closed for it, over all the episodes.
CountedOnce == counted <= closed

\* The commission may overdraw the broker's account, but never by more than one commission.
OverdrawnByFee == acct.cash >= -(leverage * Fee)

\* Without leverage no step has a gain: both equities are taken at the same price, so a step's return is
\* what its trades cost and a rise of the price is never rewarded.
NeverPaidForPrices == leverage = 1 => gain <= 0

\* A position that is closed leaves no margin behind.  This fails: a sale releases a share of its
\* unleveraged value, a take-profit nothing.
MarginReleased == acct.lots = 0 => acct.margin = 0

\* All that an episode keeps about its trades.
EnvSound == EnvTypeOK /\ PendingCovered /\ CountedOnce /\ OverdrawnByFee /\ NeverPaidForPrices

-----------------------------------------------------------------------------
(* rl/policy_trainer.py: the environment of several symbols, and the trainers that use it.  Money is *)
(* counted in parts of a unit (Parts to the unit) so that the commission is exact; the rewards, the   *)
(* Sharpe ratio and the observation vector are left out.                                             *)

CONSTANTS
  Symbols,        \* in the order they are traded in, a sequence
  Quotes,         \* prices tried
  StartingCash,   \* starting_capital
  LotSize,        \* position_size_shares
  Parts,          \* of a unit of money
  Commission,     \* per unit traded, in parts
  MaxShare,       \* max_leverage, in tenths
  Steps           \* length of the price series

ASSUME PortfolioAssumption ==
  /\ LotSize \in Nat \ {0} /\ Parts \in Nat \ {0} /\ MaxShare \in 0 .. 10 /\ Len(Symbols) \in Nat /\ StartingCash \in Nat
  /\ Commission \in 0 .. Parts - 1 /\ Quotes \subseteq Nat \ {0}

VARIABLES
  studied,      \* "market": the environment; "trainer": the trainers
  stepNo,       \* current_step
  prices,       \* the prices at it
  account,      \* cash, holdings and portfolio_value, as they are between steps
  valuedAt,     \* the prices portfolio_value was computed from
  before,       \* the value the last step in trading hours began with
  moves, paid,  \* what price moves added to the account since reset, and commission took
  uneven,       \* the cap cut a target, or a purchase was cut to the cash at hand
  trainer       \* of HybridTrainer: the models of its phases, and one that is trained alone

portfolioVars == <<studied, stepNo, prices, account, valuedAt, before, moves, paid, uneven, trainer>>

Positions == 1 .. Len(Symbols)
Holdings(a, p) == [i \in Positions |-> Parts * a.held[i] * p[i]]
Worth(a, p) == a.cash + MapThenSumSet(LAMBDA i : Holdings(a, p)[i], Positions)

-----------------------------------------------------------------------------
\* The share of the portfolio an action asks for, in eighths: half of it in an anomaly, half again in
\* a regime with a risk multiplier of one half.
TargetShares == {half * (IF anomaly THEN 1 ELSE 2) * regime :
                   half \in 0 .. 2, anomaly \in BOOLEAN, regime \in 1 .. 2}

Uncapped(share, value, price) == (((share * value) \div (8 * Parts * price)) \div LotSize) * LotSize
Cap(value, price) == (MaxShare * value) \div (10 * Parts * price)
TargetQty(share, value, price) == Min({Uncapped(share, value, price), Cap(value, price)})

BuyCost(qty, price) == qty * price * (Parts + Commission)
ProceedsGross(qty, price) == qty * price * Parts                             \* mutant
Proceeds(qty, price) == qty * price * (Parts - Commission)
Affordable(cash, price) == cash \div (price * (Parts + Commission))

\* Symbol i is brought to its target; a purchase the cash does not cover is cut down, and left if
\* the rest is less than a lot.
TradeOne(a, i, share, price) ==
  LET target == TargetQty(share, a.value, price)
      have == a.held[i]
      less == Affordable(a.cash, price)
  IN  CASE target > have /\ BuyCost(target - have, price) <= a.cash ->
             [a EXCEPT !.held[i] = target, !.cash = @ - BuyCost(target - have, price)]
        [] target > have /\ BuyCost(target - have, price) > a.cash /\ less >= LotSize ->
             [a EXCEPT !.held[i] = have + less, !.cash = @ - BuyCost(less, price)]
        [] target < have ->
             [a EXCEPT !.held[i] = target, !.cash = @ + Proceeds(have - target, price)]
        [] OTHER -> a

\* The symbols are traded in order, every target a share of the value known before the step.
AllTraded(shares) ==
  LET Upto[i \in 0 .. Len(Symbols)] ==
        IF i = 0 THEN account ELSE TradeOne(Upto[i - 1], i, shares[i], prices[i])
  IN  Upto[Len(Symbols)]

\* What the trades that lead to a cost.
Commissions(a) ==
  [i \in Positions |-> Commission * prices[i] * Max({a.held[i] - account.held[i], account.held[i] - a.held[i]})]

Advance ==
  /\ stepNo' = stepNo + 1
  /\ IF stepNo + 1 < Steps THEN prices' \in [Positions -> Quotes] ELSE UNCHANGED prices
  /\ UNCHANGED <<studied, trainer>>

\* step() inside trading hours.
StepTrading ==
  /\ studied = "market" /\ stepNo < Steps
  /\ \E shares \in [Positions -> TargetShares] :
       LET after == AllTraded(shares)
           cut(i) == after.held[i] # account.held[i] /\ after.held[i] # Uncapped(shares[i], account.value, prices[i])
       IN  /\ account' = [after EXCEPT !.value = Worth(after, prices)]
           /\ moves' = moves + Worth(account, prices) - Worth(account, valuedAt)
           /\ paid' = paid + MapThenSumSet(LAMBDA i : Commissions(after)[i], Positions)
           /\ uneven' = (uneven \/ \E i \in Positions : cut(i))
  /\ valuedAt' = prices /\ before' = account.value
  /\ Advance

\* Outside of them the step passes and the portfolio is not valued.
StepClosed ==
  /\ studied = "market" /\ stepNo < Steps
  /\ Advance
  /\ UNCHANGED <<account, valuedAt, before, moves, paid, uneven>>

NewAccount == [cash |-> StartingCash * Parts, held |-> [i \in Positions |-> 0],
               value |-> StartingCash * Parts]
ResetPortfolio ==
  /\ studied = "market" /\ stepNo = Steps
  /\ stepNo' = 0 /\ account' = NewAccount /\ prices' \in [Positions -> Quotes]
  /\ valuedAt' = prices' /\ before' = NewAccount.value /\ moves' = 0 /\ paid' = 0 /\ uneven' = FALSE
  /\ UNCHANGED <<studied, trainer>>

\* action_masks(): a symbol is masked as a whole while the cash does not buy one lot of it.
Masked(i) == account.cash < BuyCost(LotSize, prices[i])

-----------------------------------------------------------------------------
(* The trainers.  A model is "none", "made" (never trained), "partly" (its training failed) or        *)
(* "trained"; train() reports the failure and keeps the model.                                       *)
TrainModel(role) ==
  \E outcome \in {"trained", "partly"} : trainer' = [trainer EXCEPT ![role] = outcome]

\* HybridTrainer.train(): the second phase starts only if the first succeeded, from a new model.
TrainPpo == trainer.ppo = "none" /\ TrainModel("ppo")
TrainSac == trainer.ppo = "trained" /\ trainer.sac = "none" /\ TrainModel("sac")
SaveFinal == trainer.sac # "none" /\ trainer' = [trainer EXCEPT !.saved = trainer.sac]

\* A trainer of its own; load() asks the class of the model it has, so it needs one.
MakeModel == trainer.alone = "none" /\ trainer' = [trainer EXCEPT !.alone = "made"]
TrainAlone == TrainModel("alone")
SaveAlone == trainer.alone # "none" /\ trainer' = [trainer EXCEPT !.file = trainer.alone]
LoadAlone == trainer.alone # "none" /\ trainer.file # "none" /\ trainer' = [trainer EXCEPT !.alone = trainer.file]

TrainerNext ==
  /\ studied = "trainer"
  /\ TrainPpo \/ TrainSac \/ SaveFinal \/ MakeModel \/ TrainAlone \/ SaveAlone \/ LoadAlone
  /\ UNCHANGED <<studied, stepNo, prices, account, valuedAt, before, moves, paid, uneven>>

PortfolioInit ==
  /\ studied \in {"market", "trainer"}
  /\ stepNo = 0 /\ account = NewAccount /\ prices \in [Positions -> Quotes] /\ valuedAt = prices
  /\ before = NewAccount.value
  /\ moves = 0 /\ paid = 0 /\ uneven = FALSE
  /\ trainer = [ppo |-> "none", sac |-> "none", saved |-> "none", alone |-> "none", file |-> "none"]

PortfolioNext == StepTrading \/ StepClosed \/ ResetPortfolio \/ TrainerNext
PortfolioSpec == PortfolioInit /\ [][PortfolioNext]_portfolioVars

-----------------------------------------------------------------------------
\* No step spends cash the account does not have, and only whole shares are held.
NeverOverdrawn == account.cash >= 0 /\ \A i \in Positions : account.held[i] >= 0

\* The rewards add up: what the account is worth differs from the capital by what prices did to the
\* shares held, closed hours included, less the commission of every trade.
WorthExplained == account.value = StartingCash * Parts + moves - paid

\* After a step every position is within its share of the value the step began with.  That value is
\* the one of the last step in trading hours, so of a fallen portfolio it may be a larger share.
ShareCapped == \A i \in Positions : 10 * Parts * account.held[i] * valuedAt[i] <= MaxShare * before

\* Only a target cut by the cap or by the cash leaves less than whole lots.
LotsUnlessCut == ~uneven => \A i \in Positions : account.held[i] % LotSize = 0

\* The value stored is the true one at the prices it was computed from.
ValueIsWorth == account.value = Worth(account, valuedAt)

\* The final model of the hybrid trainer is saved only after the first phase succeeded.
FineTunedLast == trainer.saved # "none" => trainer.ppo = "trained"

PortfolioSound ==
  NeverOverdrawn /\ WorthExplained /\ ShareCapped /\ LotsUnlessCut /\ ValueIsWorth /\ FineTunedLast

(* Fail, and documented: lots of 100 shares only (the cap and the cut purchase are not rounded), the *)
(* mask stops purchases only (a holding cannot be sold either), what is saved was trained.           *)
LotsOnly == \A i \in Positions : account.held[i] % LotSize = 0
MaskBlocksNoSale == \A i \in Positions : Masked(i) => account.held[i] = 0
SavedWasTrained == trainer.saved \in {"none", "trained"}
=============================================================================
