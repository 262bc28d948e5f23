------------------------------- MODULE MCControl -------------------------------
(* The runtime controls of the API, checked one after the other: the kill switch, the broker       *)
(* connection it cancels at, the strategy profile, the autonomy slider, the accounts, the quotas,  *)
(* the guards of the routes, the anomaly guard; and the services behind the routes: the inbox of   *)
(* the notifications, the alert channels, the market data client, the charts, the market symbols,  *)
(* the jobs of the server itself.                                                                  *)
EXTENDS KillSwitch, BrokerSession, RegimeProfile, AutonomyService, Accounts,
        AccessRules, AnomalyGuard, Alerts, MarketData, ServerJobs
CONSTANTS t1, t2, A, B, momentum, rotation, bull, bear, ann, bob, m1, free, pro, gold, tok1, tok2
VARIABLE focus

FractionsMC == {-1, 1, 3}

\* Two coins, one of them as long as a currency.
CoinsMC == [BTC |-> 3, DOGE |-> 4]

\* Closes of the rows of a backtest: no number, no price, and prices between which nothing is rounded.
NoNumberMC == -1
ClosesMC == {-1, 0, 1, 2, 4}

allVars == <<focus, killVars, sessionVars, regimeVars, vars, authVars, quotaVars, accessVars,
             guardVars, inboxVars, alertVars, idxVars, chartVars, symbolVars, serverVars>>

\* The autonomy service's default and the level its tests start from.
StartLevels == {SignalOnly, HumanConfirm}

\* Sessions of an admin by name, by role, by the kill switch's list; of a trader; of a viewer from
\* before there were csrf tokens.
Logged(n, r, c) == [name |-> n, role |-> r, csrf |-> c]
SessionsMC ==
  {Logged("admin", "viewer", tok1), Logged("kim", "developer", tok1), Logged("ann", "trader", tok2),
   Logged("bob", "admin", tok1), Logged("old", "viewer", Absent)}
TierOfRoleMC == [r \in {"viewer", "trader", "developer", "admin"} |-> IF r = "viewer" THEN free ELSE pro]

MCInit ==
  /\ focus \in {"kill", "session", "regime", "autonomy", "accounts", "quota", "access", "guard",
                "inbox", "alerts", "idx", "chart", "symbols", "server"}
  /\ focus # "access" => env = CHOOSE e \in Environments : TRUE
  /\ focus # "accounts" => policy = {} /\ fallback = FALSE
  /\ focus # "quota" => tierOf = [c \in Clients |-> free]
  /\ focus # "autonomy" => level = SignalOnly
  /\ focus # "guard" => guarded = TRUE
  /\ focus # "inbox" => handled = FALSE
  /\ focus # "symbols" => symbol = CHOOSE s \in SymbolsAsked : TRUE
  /\ focus # "server" => study = "chart"
  /\ KillInit /\ SessionInit /\ RegimeInit /\ Init /\ AuthInit /\ QuotaInit /\ AccessInit
  /\ GuardInit /\ InboxInit /\ AlertInit /\ IdxInit /\ ChartInit /\ SymbolInit /\ ServerInit
  /\ focus # "regime" => regime.profile = CHOOSE p \in ProfileNames : TRUE

MCNext ==
  \/ /\ focus = "kill" /\ KillNext
     /\ UNCHANGED <<focus, sessionVars, regimeVars, vars, authVars, quotaVars, accessVars,
                    guardVars, inboxVars, alertVars, idxVars, chartVars, symbolVars, serverVars>>
  \/ /\ focus = "session" /\ SessionNext
     /\ UNCHANGED <<focus, killVars, regimeVars, vars, authVars, quotaVars, accessVars, guardVars,
                    inboxVars, alertVars, idxVars, chartVars, symbolVars, serverVars>>
  \/ /\ focus = "regime" /\ RegimeNext
     /\ UNCHANGED <<focus, killVars, sessionVars, vars, authVars, quotaVars, accessVars,
                    guardVars, inboxVars, alertVars, idxVars, chartVars, symbolVars, serverVars>>
  \/ /\ focus = "autonomy" /\ Next
     /\ UNCHANGED <<focus, killVars, sessionVars, regimeVars, authVars, quotaVars, accessVars,
                    guardVars, inboxVars, alertVars, idxVars, chartVars, symbolVars, serverVars>>
  \/ /\ focus = "accounts" /\ AuthNext
     /\ UNCHANGED <<focus, killVars, sessionVars, regimeVars, vars, quotaVars, accessVars,
                    guardVars, inboxVars, alertVars, idxVars, chartVars, symbolVars, serverVars>>
  \/ /\ focus = "quota" /\ QuotaNext
     /\ UNCHANGED <<focus, killVars, sessionVars, regimeVars, vars, authVars, accessVars,
                    guardVars, inboxVars, alertVars, idxVars, chartVars, symbolVars, serverVars>>
  \/ /\ focus = "access" /\ AccessNext
     /\ UNCHANGED <<focus, killVars, sessionVars, regimeVars, vars, authVars, quotaVars,
                    guardVars, inboxVars, alertVars, idxVars, chartVars, symbolVars, serverVars>>
  \/ /\ focus = "guard" /\ GuardNext
     /\ UNCHANGED <<focus, killVars, sessionVars, regimeVars, vars, authVars, quotaVars,
                    accessVars, inboxVars, alertVars, idxVars, chartVars, symbolVars, serverVars>>
  \/ /\ focus = "inbox" /\ InboxNext
     /\ UNCHANGED <<focus, killVars, sessionVars, regimeVars, vars, authVars, quotaVars,
                    accessVars, guardVars, alertVars, idxVars, chartVars, symbolVars, serverVars>>
  \/ /\ focus = "alerts" /\ AlertNext
     /\ UNCHANGED <<focus, killVars, sessionVars, regimeVars, vars, authVars, quotaVars,
                    accessVars, guardVars, inboxVars, idxVars, chartVars, symbolVars, serverVars>>
  \/ /\ focus = "idx" /\ IdxNext
     /\ UNCHANGED <<focus, killVars, sessionVars, regimeVars, vars, authVars, quotaVars,
                    accessVars, guardVars, inboxVars, alertVars, chartVars, symbolVars,
                    serverVars>>
  \/ /\ focus = "chart" /\ ChartNext
     /\ UNCHANGED <<focus, killVars, sessionVars, regimeVars, vars, authVars, quotaVars,
                    accessVars, guardVars, inboxVars, alertVars, idxVars, symbolVars, serverVars>>
  \/ /\ focus = "symbols" /\ SymbolNext
     /\ UNCHANGED <<focus, killVars, sessionVars, regimeVars, vars, authVars, quotaVars,
                    accessVars, guardVars, inboxVars, alertVars, idxVars, chartVars, serverVars>>
  \/ /\ focus = "server" /\ ServerNext
     /\ UNCHANGED <<focus, killVars, sessionVars, regimeVars, vars, authVars, quotaVars,
                    accessVars, guardVars, inboxVars, alertVars, idxVars, chartVars, symbolVars>>

MCSpec == MCInit /\ [][MCNext]_allVars
=============================================================================
