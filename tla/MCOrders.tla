------------------------------- MODULE MCOrders -------------------------------
(* Orders on their way to a broker and back, checked one after the other: the state machine of one *)
(* order, the calls that place and cancel orders and their slices, the reconciliation with the      *)
(* local database, the exchange's price band; and the learning agents: the episodes they are        *)
(* simulated in, the experience they replay, the portfolio they study on, the account they trade,   *)
(* the regimes they tell apart.                                                                     *)
EXTENDS OrderFSM, TradeReconciler, RetryBroker, IdxRules, OrderSlices, LiveAgent
CONSTANTS sa, sb,
          MaxClose             \* bound: the previous closes tried
VARIABLES focus, prevClose, fca

SmallQuantities == {NoQty, 3, 5}
SmallFills      == -1..5
SmallPrices     == {-1, 0, 100, 110}

SymbolsMC == <<sa, sb>>

DirectionsMC == {-8, 32, 40}
SentimentsMC == {[score |-> -90, confidence |-> 90, risk |-> 50], [score |-> -75, confidence |-> 55, risk |-> 95],
                 [score |-> 10, confidence |-> 50, risk |-> 88]}

--------------------------------------------------------------------------------
(* The rules of IdxRules are tried at every previous close up to the bound, on both boards.       *)
priceVars == <<prevClose, fca>>
PriceInit == prevClose = 1 /\ fca \in BOOLEAN
PriceNext == prevClose < MaxClose /\ prevClose' = prevClose + 1 /\ UNCHANGED fca

\* At each of them the limits are the extreme valid prices of the band and the close is within (IdxRules).
LimitsAreRight == BandIsRight(prevClose, fca)

--------------------------------------------------------------------------------
allVars == <<focus, vars, recVars, callVars, priceVars, envVars, replayVars, portfolioVars,
             sliceVars, agentVars, regimesVars>>

MCInit ==
  /\ focus \in {"fsm", "reconciler", "calls", "band", "episodes", "replay", "portfolio", "slices",
                "agent", "regimes"}
  /\ focus # "fsm" => current = "PENDING" /\ requested = 3
  /\ focus # "reconciler" => early = FALSE
  /\ focus # "calls" => lossy = FALSE
  /\ focus # "band" => fca = FALSE
  /\ focus # "episodes" => leverage = 1 /\ quote = CHOOSE p \in TickPrices : TRUE
  /\ focus # "replay" => detector = TRUE
  /\ focus # "portfolio" => studied = "trainer" /\ prices = [i \in Positions |-> 3]
  /\ focus # "slices" => scene = "exchange"
  /\ focus # "agent" => part = "batch" /\ supervisor = "none"
  /\ focus # "regimes" => view = "window" /\ hidden = NoModel(3)
  /\ Init /\ RecInit /\ CallInit /\ PriceInit /\ EnvInit /\ ReplayInit /\ PortfolioInit
  /\ SlicesInit /\ AgentInit /\ RegimesInit

MCNext ==
  \/ /\ focus = "fsm" /\ Next
     /\ UNCHANGED <<focus, recVars, callVars, priceVars, envVars, replayVars, portfolioVars,
                    sliceVars, agentVars, regimesVars>>
  \/ /\ focus = "reconciler" /\ RecNext
     /\ UNCHANGED <<focus, vars, callVars, priceVars, envVars, replayVars, portfolioVars,
                    sliceVars, agentVars, regimesVars>>
  \/ /\ focus = "calls" /\ CallNext
     /\ UNCHANGED <<focus, vars, recVars, priceVars, envVars, replayVars, portfolioVars,
                    sliceVars, agentVars, regimesVars>>
  \/ /\ focus = "band" /\ PriceNext
     /\ UNCHANGED <<focus, vars, recVars, callVars, envVars, replayVars, portfolioVars, sliceVars,
                    agentVars, regimesVars>>
  \/ /\ focus = "episodes" /\ EnvNext
     /\ UNCHANGED <<focus, vars, recVars, callVars, priceVars, replayVars, portfolioVars,
                    sliceVars, agentVars, regimesVars>>
  \/ /\ focus = "replay" /\ ReplayNext
     /\ UNCHANGED <<focus, vars, recVars, callVars, priceVars, envVars, portfolioVars, sliceVars,
                    agentVars, regimesVars>>
  \/ /\ focus = "portfolio" /\ PortfolioNext
     /\ UNCHANGED <<focus, vars, recVars, callVars, priceVars, envVars, replayVars, sliceVars,
                    agentVars, regimesVars>>
  \/ /\ focus = "slices" /\ SlicesNext
     /\ UNCHANGED <<focus, vars, recVars, callVars, priceVars, envVars, replayVars, portfolioVars,
                    agentVars, regimesVars>>
  \/ /\ focus = "agent" /\ AgentNext
     /\ UNCHANGED <<focus, vars, recVars, callVars, priceVars, envVars, replayVars, portfolioVars,
                    sliceVars, regimesVars>>
  \/ /\ focus = "regimes" /\ RegimesNext
     /\ UNCHANGED <<focus, vars, recVars, callVars, priceVars, envVars, replayVars, portfolioVars,
                    sliceVars, agentVars>>

MCSpec == MCInit /\ [][MCNext]_allVars
=============================================================================
