------------------------------ MODULE LearnerProofs -----------------------------
(***************************************************************************)
(* Proofs about the learning agents, for every value of the constants:     *)
(* EnvIsSound, PortfolioIsSound, RegimesAreSound, AgentIsSound and         *)
(* ReplayIsSound, and LearnersAreSound of them together.  Each has its     *)
(* inductive invariant (EnvInv, PortfolioInv, RegimesInv, AgentInv,        *)
(* ReplayInv).  What a function defined along a sequence or over the tree  *)
(* computes is proved from the existence lemmas of Sums.                   *)
(***************************************************************************)
EXTENDS LiveAgent, FiniteSetTheorems, SequenceTheorems, Sums

-----------------------------------------------------------------------------
(* The episodes of TradingEnv: EnvInv is inductive. *)

(* Products of what is not negative are not, and a quotient of whole numbers is whole. *)
LEMMA ProductNat == ASSUME NEW a \in Nat, NEW b \in Nat PROVE a * b \in Nat
  OBVIOUS
LEMMA ProductInt == ASSUME NEW a \in Int, NEW b \in Int PROVE a * b \in Int
  OBVIOUS
LEMMA QuotientInt == ASSUME NEW a \in Int, NEW b \in Nat \ {0} PROVE a \div b \in Int
  OBVIOUS
LEMMA ProductLess == ASSUME NEW a \in Int, NEW b \in Int, NEW c \in Int PROVE a * (b - c) = a * b - a * c
  OBVIOUS
LEMMA LessProduct == ASSUME NEW a \in Int, NEW b \in Int, NEW c \in Int PROVE (a - b) * c = a * c - b * c
  OBVIOUS

-----------------------------------------------------------------------------
(* The accounts an episode can have. *)
EnvAccounts ==
  [cash : Int, lots : Nat, margin : Nat, entry : Int \cup {NoEntryPrice}, limits : [Limits -> Nat], dead : BOOLEAN]

(* What holds of the account all through a step, also between its parts. *)
StaysFair(a) ==
  a \in EnvAccounts /\ a.cash >= -(leverage * Fee) /\ (leverage = 1 => a.margin = 0)
IsCovered(a) ==
  ~a.dead /\ LimitCount(a, Limits) <= a.lots /\ (a.entry # NoEntryPrice => a.lots > 0)

EnvInv ==
  /\ leverage \in Leverages /\ tick \in 0 .. MaxTicks /\ quote \in TickPrices /\ episodes \in 1 .. MaxEpisodes
  /\ counted \in Nat /\ closed \in Nat /\ gain \in Int
  /\ StaysFair(acct) /\ (~acct.dead => IsCovered(acct))
  /\ CountedOnce /\ NeverPaidForPrices

LEMMA EnvNumbers ==
  ASSUME EnvInv
  PROVE  /\ leverage \in Nat \ {0} /\ quote \in Nat \ {0} /\ Slip \in Nat /\ Fee \in Nat /\ BrokerCut \in Nat
         /\ leverage * Fee \in Nat /\ 5 * Slip + BrokerCut + leverage * Fee <= quote
  <1>1. leverage \in Leverages /\ quote \in TickPrices
    BY DEF EnvInv
  <1> QED BY <1>1, EnvAssumption, ProductNat

LEMMA LimitsFinite == IsFiniteSet(Limits) /\ Limits \subseteq Nat /\ NoLimits \in [Limits -> Nat]
  <1> DEFINE f == [d \in TickPrices \X Brackets |-> d[1] + d[2]]
  <1>1. IsFiniteSet(TickPrices \X Brackets)
    BY EnvAssumption, FS_Product
  <1>2. f \in Surjection(TickPrices \X Brackets, Limits)
    <2>1. \A d \in TickPrices \X Brackets : f[d] \in Limits
      BY DEF Limits
    <2>2. ASSUME NEW l \in Limits PROVE \E d \in TickPrices \X Brackets : f[d] = l
      <3>1. PICK p \in TickPrices, b \in Brackets : l = p + b
        BY DEF Limits
      <3>2. <<p, b>> \in TickPrices \X Brackets /\ f[<<p, b>>] = l
        BY <3>1
      <3> QED BY <3>2
    <2> QED BY <2>1, <2>2 DEF Surjection
  <1> HIDE DEF f
  <1>3. IsFiniteSet(Limits)
    BY <1>1, <1>2, FS_Surjection
  <1>4. Limits \subseteq Nat
    BY EnvAssumption DEF Limits
  <1> QED BY <1>3, <1>4 DEF NoLimits

LEMMA CountIsTotal == ASSUME NEW a, NEW S PROVE LimitCount(a, S) = Total(a.limits, S)
  BY DEF LimitCount, Total

LEMMA CountNext == LimitCount(acct, Limits)' = Total(acct'.limits, Limits)
  <1>1. LimitCount(acct, Limits) = Total(acct.limits, Limits)
    BY CountIsTotal
  <1>2. (LimitCount(acct, Limits) = Total(acct.limits, Limits))'
    BY <1>1, PTL
  <1> QED BY <1>2

(* An account without limits covers them. *)
LEMMA NoneCovered == ASSUME NEW a, a.limits = NoLimits PROVE LimitCount(a, Limits) = 0
  <1>1. Total(NoLimits, Limits) = 0
    BY LimitsFinite, TotalZero DEF NoLimits
  <1> QED BY <1>1, CountIsTotal

(* The tick fills some of the limits that are reached and removes them all: what stays asks for no  *)
(* more lots than stay.                                                                             *)
LEMMA TickStays ==
  ASSUME EnvInv, Live, NEW a \in AfterTick
  PROVE  /\ StaysFair(a) /\ IsCovered(a) /\ a.lots <= acct.lots
         /\ Counts(acct, a) <= acct.lots - a.lots /\ Equity(a) <= Equity(acct)
  <1> DEFINE R == Reached(acct)  n == LimitCount(acct, R)  L == acct.lots
  <1>1. PICK k \in 0 .. Min({L, n}), f \in BOOLEAN : a = Tick(acct, k, f)
    BY DEF AfterTick
  <1>2. acct \in EnvAccounts /\ ~acct.dead /\ IsCovered(acct) /\ StaysFair(acct)
    BY DEF EnvInv, Live, StaysFair
  <1>3. L \in Nat /\ acct.cash \in Int /\ acct.margin \in Nat /\ acct.limits \in [Limits -> Nat]
    BY <1>2 DEF EnvAccounts
  <1>4. R \subseteq Limits /\ IsFiniteSet(R)
    <2>1. R \subseteq Limits
      BY DEF Reached
    <2> QED BY <2>1, LimitsFinite, FS_Subset
  <1>w. Whole(acct.limits, Limits)
    BY <1>3 DEF Whole
  <1>5. n \in Nat /\ n = Total(acct.limits, R)
    <2>1. \A l \in R : acct.limits[l] \in Nat
      BY <1>3, <1>4
    <2> QED BY <1>4, <2>1, TotalNat, CountIsTotal
  <1> HIDE DEF R, n, L
  <1>6. k \in Nat /\ k <= L /\ k <= n
    BY <1>1, <1>3, <1>5, MinOfTwo
  <1> DEFINE lims == [l \in Limits |-> IF f \/ l \in R THEN 0 ELSE acct.limits[l]]
             c == acct.cash + k * (quote - BrokerCut)
  <1>7. a = [acct EXCEPT !.lots = L - k, !.cash = c, !.entry = IF k > 0 THEN NoEntryPrice ELSE acct.entry, !.limits = lims]
    BY <1>1 DEF Tick, L, R
  <1>8. lims \in [Limits -> Nat]
    BY <1>3
  <1>9. c \in Int /\ c >= acct.cash /\ k * (quote - BrokerCut) = k * quote - k * BrokerCut /\ k * quote \in Int
        /\ k * BrokerCut \in Nat
    <2>1. quote - BrokerCut \in Nat
      BY EnvNumbers
    <2>2. k * (quote - BrokerCut) \in Nat
      BY <1>6, <2>1, ProductNat
    <2>3. k * (quote - BrokerCut) = k * quote - k * BrokerCut
      BY <1>6, EnvNumbers, ProductLess
    <2>4. k * BrokerCut \in Nat /\ k * quote \in Nat
      BY <1>6, EnvNumbers, ProductNat
    <2> QED BY <1>3, <2>2, <2>3, <2>4
  <1> HIDE DEF lims, c
  <1>10. /\ a.lots = L - k /\ a.cash = c /\ a.limits = lims /\ a.margin = acct.margin /\ a.dead = acct.dead
         /\ a.entry = (IF k > 0 THEN NoEntryPrice ELSE acct.entry)
    BY <1>2, <1>7 DEF EnvAccounts
  <1>11. a \in EnvAccounts
    <2>1. L - k \in Nat
      BY <1>3, <1>6
    <2> QED BY <1>2, <1>7, <1>8, <1>9, <2>1 DEF EnvAccounts
  <1>12. LimitCount(a, Limits) <= L - k
    <2>1. LimitCount(a, Limits) = Total(lims, Limits)
      BY <1>10, CountIsTotal
    <2>2. CASE f
      <3>1. \A l \in Limits : lims[l] = 0
        BY <2>2 DEF lims
      <3>2. Total(lims, Limits) = 0
        BY <3>1, LimitsFinite, TotalZero
      <3> QED BY <1>3, <1>6, <2>1, <3>2
    <2>3. CASE ~f
      <3>1. Total(lims, Limits \ R) + Total(lims, R) = Total(lims, Limits)
        <4>1. Whole(lims, Limits)
          BY <1>8 DEF Whole
        <4> QED BY <1>4, <4>1, LimitsFinite, TotalParts
      <3>2. Total(lims, R) = 0
        <4>1. \A l \in R : lims[l] = 0
          BY <1>4 DEF lims
        <4> QED BY <1>4, <4>1, TotalZero
      <3>3. Total(lims, Limits \ R) = Total(acct.limits, Limits \ R)
        <4> DEFINE Q == Limits \ R
        <4>1. IsFiniteSet(Q)
          BY LimitsFinite, FS_Subset
        <4>2. \A l \in Q : lims[l] = acct.limits[l]
          BY <2>3 DEF lims
        <4> HIDE DEF Q
        <4>3. Total(lims, Q) = Total(acct.limits, Q)
          BY <4>1, <4>2, TotalSame
        <4> QED BY <4>3 DEF Q
      <3>4. Total(acct.limits, Limits \ R) + Total(acct.limits, R) = Total(acct.limits, Limits)
        BY <1>4, <1>w, LimitsFinite, TotalParts
      <3>5. Total(acct.limits, Limits) <= L
        BY <1>2, CountIsTotal DEF IsCovered, L
      <3>6. Total(acct.limits, Limits \ R) \in Int /\ Total(acct.limits, Limits) \in Int
        <4>1. IsFiniteSet(Limits \ R) /\ Whole(acct.limits, Limits \ R)
          BY <1>w, LimitsFinite, FS_Subset DEF Whole
        <4> QED BY <1>w, <4>1, LimitsFinite, TotalInt
      <3>7. PICK x \in Int, y \in Int : x = Total(acct.limits, Limits \ R) /\ y = Total(acct.limits, Limits)
        BY <3>6
      <3>8. x + n = y /\ y <= L /\ Total(lims, Limits) = x
        BY <1>5, <3>1, <3>2, <3>3, <3>4, <3>5, <3>7
      <3> QED BY <1>3, <1>5, <1>6, <2>1, <3>8
    <2> QED BY <2>2, <2>3
  <1>13. a.entry # NoEntryPrice => a.lots > 0
    BY <1>2, <1>3, <1>6, <1>10 DEF IsCovered, L
  <1>14. Counts(acct, a) <= L - a.lots
    BY <1>3, <1>6, <1>10 DEF Counts
  <1>15. Equity(a) <= Equity(acct)
    <2>1. (L - k) * quote = L * quote - k * quote
      BY <1>3, <1>6, EnvNumbers, LessProduct
    <2>2. L * quote \in Int
      BY <1>3, EnvNumbers, ProductInt
    <2>3. PICK u \in Int, v \in Int, w \in Nat : u = L * quote /\ v = k * quote /\ w = k * BrokerCut
      BY <1>9, <2>2
    <2>4. Equity(a) = acct.cash + (v - w) + (u - v) - acct.margin
      BY <1>9, <1>10, <2>1, <2>3 DEF Equity, c
    <2>5. Equity(acct) = acct.cash + u - acct.margin
      BY <2>3 DEF Equity, L
    <2> QED BY <1>3, <2>3, <2>4, <2>5
  <1>16. a.cash >= -(leverage * Fee) /\ (leverage = 1 => a.margin = 0)
    <2>1. acct.cash >= -(leverage * Fee)
      BY <1>2 DEF StaysFair
    <2>2. leverage * Fee \in Nat
      BY EnvNumbers
    <2> QED BY <1>2, <1>3, <1>9, <1>10, <2>1, <2>2 DEF StaysFair
  <1>17. a.lots <= L
    BY <1>3, <1>6, <1>10
  <1> QED BY <1>2, <1>10, <1>11, <1>12, <1>13, <1>14, <1>15, <1>16, <1>17 DEF StaysFair, IsCovered, L

(* What the decision leaves is taken over, unless it is ruined and liquidated. *)
LEMMA FinishKeeps ==
  ASSUME EnvInv, Live, NEW a, StaysFair(a), IsCovered(a), leverage = 1 => Equity(a) <= Equity(acct),
         NEW trades, NEW ok \in BOOLEAN, Finish(a, trades, ok), counted' \in Nat, closed' \in Nat, counted' <= closed'
  PROVE  EnvInv'
  <1>1. leverage' = leverage /\ episodes' = episodes /\ leverage \in Leverages /\ episodes \in 1 .. MaxEpisodes
    BY DEF Finish, EnvInv
  <1>2. a.cash \in Int /\ a.lots \in Nat /\ a.margin \in Nat /\ a \in EnvAccounts
    BY DEF StaysFair, EnvAccounts
  <1>3. CASE Ruined(a)
    <2> DEFINE c == IF ok THEN a.cash + a.lots * (quote - 5 * Slip - BrokerCut) ELSE a.cash
               n == IF ok THEN 0 ELSE a.lots
    <2>1. acct' = [a EXCEPT !.cash = c, !.lots = n, !.margin = 0, !.dead = TRUE]
          /\ gain' = 0 /\ tick' = tick /\ quote' = quote
      BY <1>3 DEF Finish, Liquidated
    <2>2. c \in Int /\ c >= a.cash /\ n \in Nat
      <3>1. quote - 5 * Slip - BrokerCut \in Nat
        BY EnvNumbers
      <3>2. a.lots * (quote - 5 * Slip - BrokerCut) \in Nat
        BY <1>2, <3>1, ProductNat
      <3> QED BY <1>2, <3>2
    <2> HIDE DEF c, n
    <2>3. acct' \in EnvAccounts /\ acct'.dead /\ acct'.cash = c /\ acct'.margin = 0
      BY <1>2, <2>1, <2>2 DEF EnvAccounts
    <2>4. c >= -(leverage * Fee)
      BY <1>2, <2>2, EnvNumbers DEF StaysFair
    <2>5. StaysFair(acct)'
      BY <1>1, <2>3, <2>4 DEF StaysFair
    <2> QED BY <1>1, <2>1, <2>3, <2>5 DEF EnvInv, CountedOnce, NeverPaidForPrices
  <1>4. CASE ~Ruined(a)
    <2>1. acct' = a /\ gain' = Equity(a) - Equity(acct) /\ tick' = tick + 1 /\ quote' \in TickPrices
      BY <1>4 DEF Finish
    <2>2. tick' \in 0 .. MaxTicks
      BY <2>1, EnvAssumption DEF Live, EnvInv
    <2>3. StaysFair(acct)'
      BY <1>1, <2>1 DEF StaysFair
    <2>4. IsCovered(acct)'
      <3>1. LimitCount(acct, Limits)' = Total(acct'.limits, Limits)
        BY CountNext
      <3>2. LimitCount(a, Limits) = Total(acct'.limits, Limits)
        BY <2>1, CountIsTotal
      <3> QED BY <2>1, <3>1, <3>2 DEF IsCovered
    <2>5. Equity(a) \in Int /\ Equity(acct) \in Int
      <3>1. acct.cash \in Int /\ acct.lots \in Nat /\ acct.margin \in Nat
        BY DEF EnvInv, StaysFair, EnvAccounts
      <3>2. a.lots * quote \in Int /\ acct.lots * quote \in Int
        BY <1>2, <3>1, EnvNumbers, ProductInt
      <3> QED BY <1>2, <3>1, <3>2 DEF Equity
    <2>6. gain' \in Int /\ (leverage' = 1 => gain' <= 0)
      BY <1>1, <2>1, <2>5
    <2> QED BY <1>1, <2>1, <2>2, <2>3, <2>4, <2>6 DEF EnvInv, CountedOnce, NeverPaidForPrices
  <1> QED BY <1>3, <1>4

(* A decision that trades nothing. *)
LEMMA HoldKeeps == ASSUME EnvInv, NEW ok \in BOOLEAN, StepHold(ok) PROVE EnvInv'
  <1>1. Live /\ \E a \in AfterTick : Finish(a, "none", ok) /\ counted' = counted + Counts(acct, a)
    BY DEF StepHold
  <1>2. PICK a \in AfterTick : Finish(a, "none", ok) /\ counted' = counted + Counts(acct, a)
    BY <1>1
  <1>3. StaysFair(a) /\ IsCovered(a) /\ a.lots <= acct.lots
        /\ Counts(acct, a) <= acct.lots - a.lots /\ Equity(a) <= Equity(acct)
    BY <1>1, TickStays
  <1>4. closed' = closed + acct.lots - a.lots
    <2>1. closed' = closed + acct.lots - a.lots + 0
      BY <1>2 DEF Finish
    <2> QED BY <1>3, <2>1 DEF EnvInv, StaysFair, EnvAccounts
  <1>5. counted' \in Nat /\ closed' \in Nat /\ counted' <= closed'
    <2>1. a.lots \in Nat /\ acct.lots \in Nat /\ counted \in Nat /\ closed \in Nat /\ counted <= closed
      BY <1>3 DEF EnvInv, StaysFair, EnvAccounts, CountedOnce
    <2>2. Counts(acct, a) \in {0, 1}
      BY DEF Counts
    <2> QED BY <1>2, <1>3, <1>4, <2>1, <2>2
  <1> QED BY <1>1, <1>2, <1>3, <1>5, FinishKeeps

(* Withdrawing the limits trades nothing either. *)
LEMMA CancelKeeps == ASSUME EnvInv, NEW ok \in BOOLEAN, StepCancel(ok) PROVE EnvInv'
  <1>1. Live /\ \E a \in AfterTick : Finish(Withdraw(a), "none", ok) /\ counted' = counted + Counts(acct, a)
    BY DEF StepCancel
  <1>2. PICK a \in AfterTick : Finish(Withdraw(a), "none", ok) /\ counted' = counted + Counts(acct, a)
    BY <1>1
  <1>3. StaysFair(a) /\ IsCovered(a) /\ a.lots <= acct.lots
        /\ Counts(acct, a) <= acct.lots - a.lots /\ Equity(a) <= Equity(acct)
    BY <1>1, TickStays
  <1> DEFINE w == Withdraw(a)
  <1>4. w \in EnvAccounts /\ w.lots = a.lots /\ w.cash = a.cash /\ w.margin = a.margin /\ w.dead = a.dead
        /\ w.entry = a.entry /\ w.limits = NoLimits
    BY <1>3, LimitsFinite DEF Withdraw, StaysFair, EnvAccounts
  <1> HIDE DEF w
  <1>5. StaysFair(w) /\ Equity(w) = Equity(a)
    BY <1>3, <1>4 DEF StaysFair, Equity
  <1>6. IsCovered(w)
    <2>1. LimitCount(w, Limits) = 0
      BY <1>4, NoneCovered
    <2> QED BY <1>3, <1>4, <2>1 DEF IsCovered, EnvAccounts
  <1>7. closed' = closed + acct.lots - a.lots
    <2>1. closed' = closed + acct.lots - w.lots + 0
      BY <1>2 DEF Finish, w
    <2> QED BY <1>3, <1>4, <2>1 DEF EnvInv, StaysFair, EnvAccounts
  <1>8. counted' \in Nat /\ closed' \in Nat /\ counted' <= closed'
    <2>1. a.lots \in Nat /\ acct.lots \in Nat /\ counted \in Nat /\ closed \in Nat /\ counted <= closed
      BY <1>3 DEF EnvInv, StaysFair, EnvAccounts, CountedOnce
    <2>2. Counts(acct, a) \in {0, 1}
      BY DEF Counts
    <2> QED BY <1>2, <1>3, <1>7, <2>1, <2>2
  <1>9. Finish(w, "none", ok)
    BY <1>2 DEF w
  <1> QED BY <1>1, <1>3, <1>5, <1>6, <1>8, <1>9, FinishKeeps

(* A purchase adds a lot and, with its bracket, one limit for it.  The commission may take the cash *)
(* below zero by itself, no more.                                                                   *)
LEMMA BuyStays ==
  ASSUME EnvInv, NEW a, StaysFair(a), IsCovered(a), NEW depth \in {"thin", "deep"}, NEW b \in Brackets \cup {0},
         CanBuy(a, depth)
  PROVE  /\ StaysFair(Buy(a, depth, b)) /\ IsCovered(Buy(a, depth, b)) /\ Buy(a, depth, b).lots = a.lots + 1
         /\ leverage = 1 => Equity(Buy(a, depth, b)) <= Equity(a)
  <1> DEFINE price == quote + Cost(depth)  fee == leverage * Fee
             m == price * (leverage - 1)
             lims == Bracketed(a.limits, b)
             w == Buy(a, depth, b)
  <1>1. a \in EnvAccounts /\ a.cash \in Int /\ a.lots \in Nat /\ a.margin \in Nat /\ a.limits \in [Limits -> Nat]
    BY DEF StaysFair, EnvAccounts
  <1>2. price \in Nat /\ price >= quote /\ fee \in Nat /\ quote \in Nat /\ BrokerCut \in Nat
    <2>1. Cost(depth) \in Nat
      BY EnvNumbers DEF Cost
    <2> QED BY <2>1, EnvNumbers
  <1>3. m \in Nat /\ (leverage = 1 => m = 0)
    BY <1>2, EnvNumbers, ProductNat
  <1>l. b # 0 => quote + b \in Limits
    BY DEF EnvInv, Limits
  <1>4. lims \in [Limits -> Nat]
    <2>1. CASE b = 0
      BY <1>1, <2>1 DEF Bracketed
    <2>2. CASE b # 0
      <3> DEFINE l == quote + b
      <3> HIDE DEF l
      <3>1. [a.limits EXCEPT ![l] = a.limits[l] + 1] \in [Limits -> Nat]
        BY <1>1, <1>l, <2>2 DEF l
      <3> QED BY <2>2, <3>1 DEF l, Bracketed
    <2> QED BY <2>1, <2>2
  <1>5. a.cash >= price + BrokerCut
    BY DEF CanBuy
  <1>6. w = [a EXCEPT !.cash = a.cash - price - BrokerCut - fee, !.lots = a.lots + 1, !.entry = price,
                      !.margin = a.margin + m, !.limits = lims]
    BY DEF Buy
  <1>7. LimitCount(a, Limits) <= a.lots /\ LimitCount(a, Limits) = Total(a.limits, Limits) /\ ~a.dead
    BY CountIsTotal DEF IsCovered
  <1>8. Total(lims, Limits) <= a.lots + 1
    <2>1. Total(a.limits, Limits) \in Int
      <3>1. Whole(a.limits, Limits)
        BY <1>1 DEF Whole
      <3> QED BY <3>1, LimitsFinite, TotalInt
    <2>2. CASE b = 0
      BY <1>1, <1>7, <2>1, <2>2 DEF Bracketed
    <2>3. CASE b # 0
      <3>1. PICK l \in Limits, d \in Int : l = quote + b /\ d = 1
        BY <1>l, <2>3
      <3>2. lims[l] = a.limits[l] + d /\ \A u \in Limits \ {l} : lims[u] = a.limits[u]
        BY <1>1, <2>3, <3>1 DEF Bracketed
      <3>a. IsFiniteSet(Limits) /\ l \in Limits /\ d \in Int
        BY LimitsFinite
      <3>b. lims[l] = a.limits[l] + d
        BY <3>2
      <3>c. \A u \in Limits \ {l} : lims[u] = a.limits[u]
        BY <3>2
      <3>3. Whole(a.limits, Limits)
        BY <1>1 DEF Whole
      <3> HIDE DEF lims
      <3>4. Total(lims, Limits) = Total(a.limits, Limits) + d
        BY <3>a, <3>b, <3>c, <3>3, TotalRaised
      <3> QED BY <1>1, <1>7, <2>1, <3>1, <3>4
    <2> QED BY <2>2, <2>3
  <1>9. Equity(a) = a.cash + a.lots * quote - a.margin /\ (a.lots + 1) * quote = a.lots * quote + quote
        /\ a.lots * quote \in Int
    BY <1>1, <1>2, ProductInt DEF Equity
  <1> HIDE DEF price, fee, m, lims, w
  <1>10. w \in EnvAccounts /\ w.cash = a.cash - price - BrokerCut - fee /\ w.lots = a.lots + 1 /\ w.entry = price
         /\ w.margin = a.margin + m /\ w.limits = lims /\ w.dead = a.dead
    <2>1. a.cash - price - BrokerCut - fee \in Int /\ a.lots + 1 \in Nat /\ price \in Int /\ a.margin + m \in Nat
      BY <1>1, <1>2, <1>3
    <2> QED BY <1>1, <1>4, <1>6, <2>1 DEF EnvAccounts
  <1>11. w.cash >= -fee
    BY <1>1, <1>2, <1>5, <1>10
  <1>12. leverage = 1 => w.margin = 0
    BY <1>1, <1>3, <1>10 DEF StaysFair
  <1>13. StaysFair(w)
    BY <1>10, <1>11, <1>12 DEF StaysFair, fee
  <1>14. IsCovered(w)
    <2>1. LimitCount(w, Limits) <= w.lots
      BY <1>8, <1>10, CountIsTotal
    <2>2. w.lots > 0 /\ ~w.dead
      BY <1>1, <1>7, <1>10
    <2> QED BY <2>1, <2>2 DEF IsCovered
  <1>15. leverage = 1 => Equity(w) <= Equity(a)
    <2>1. PICK x \in Int : x = a.lots * quote
      BY <1>9
    <2>2. Equity(w) = (a.cash - price - BrokerCut - fee) + (x + quote) - (a.margin + m)
      BY <1>9, <1>10, <2>1 DEF Equity
    <2> QED BY <1>1, <1>2, <1>3, <1>9, <2>1, <2>2
  <1> QED BY <1>10, <1>13, <1>14, <1>15 DEF w

LEMMA BuyKeeps ==
  ASSUME EnvInv, NEW depth \in {"thin", "deep"}, NEW b \in Brackets \cup {0}, NEW ok \in BOOLEAN, StepBuy(depth, b, ok)
  PROVE  EnvInv'
  <1>1. Live /\ \E a \in AfterTick :
                  CanBuy(a, depth) /\ Finish(Buy(a, depth, b), "buy", ok) /\ counted' = counted + Counts(acct, a)
    BY DEF StepBuy
  <1>2. PICK a \in AfterTick :
          CanBuy(a, depth) /\ Finish(Buy(a, depth, b), "buy", ok) /\ counted' = counted + Counts(acct, a)
    BY <1>1
  <1>3. StaysFair(a) /\ IsCovered(a) /\ a.lots <= acct.lots
        /\ Counts(acct, a) <= acct.lots - a.lots /\ Equity(a) <= Equity(acct)
    BY <1>1, TickStays
  <1> DEFINE w == Buy(a, depth, b)
  <1>4. StaysFair(w) /\ IsCovered(w) /\ w.lots = a.lots + 1 /\ (leverage = 1 => Equity(w) <= Equity(a))
    BY <1>2, <1>3, BuyStays
  <1>5. Finish(w, "buy", ok)
    BY <1>2
  <1> HIDE DEF w
  <1>n. a.lots \in Nat /\ acct.lots \in Nat /\ counted \in Nat /\ closed \in Nat /\ counted <= closed
    BY <1>3 DEF EnvInv, StaysFair, EnvAccounts, CountedOnce
  <1>6. closed' = closed + acct.lots - a.lots
    <2>1. closed' = closed + acct.lots - w.lots + 1
      BY <1>5 DEF Finish
    <2> QED BY <1>4, <1>n, <2>1
  <1>7. counted' \in Nat /\ closed' \in Nat /\ counted' <= closed'
    <2>1. Counts(acct, a) \in {0, 1}
      BY DEF Counts
    <2> QED BY <1>2, <1>3, <1>6, <1>n, <2>1
  <1>8. leverage = 1 => Equity(w) <= Equity(acct)
    <2>1. \A x \in EnvAccounts : Equity(x) \in Int
      <3> SUFFICES ASSUME NEW x \in EnvAccounts PROVE Equity(x) \in Int
        OBVIOUS
      <3>1. x.cash \in Int /\ x.lots \in Nat /\ x.margin \in Nat
        BY DEF EnvAccounts
      <3>2. x.lots * quote \in Int
        BY <3>1, EnvNumbers, ProductInt
      <3> QED BY <3>1, <3>2 DEF Equity
    <2>2. Equity(w) \in Int /\ Equity(a) \in Int /\ Equity(acct) \in Int
      BY <1>3, <1>4, <2>1 DEF StaysFair, EnvInv
    <2> QED BY <1>3, <1>4, <2>2
  <1> QED BY <1>1, <1>4, <1>5, <1>7, <1>8, FinishKeeps

(* A sale closes the whole position and its limits with it. *)
LEMMA SellStays ==
  ASSUME EnvInv, NEW a, StaysFair(a), IsCovered(a), NEW depth \in {"thin", "deep"}
  PROVE  /\ StaysFair(Sell(a, depth)) /\ IsCovered(Sell(a, depth)) /\ Sell(a, depth).lots = 0
         /\ leverage = 1 => Equity(Sell(a, depth)) <= Equity(a)
  <1> DEFINE price == quote - Cost(depth)  fee == leverage * Fee  d == Cost(depth) + BrokerCut + fee
             got == a.lots * (price - BrokerCut - fee)
             released == (price * a.lots * (leverage - 1)) \div leverage
             m == Max({0, a.margin - released})
             w == Sell(a, depth)
  <1>1. a \in EnvAccounts /\ a.cash \in Int /\ a.lots \in Nat /\ a.margin \in Nat /\ ~a.dead
    BY DEF StaysFair, EnvAccounts, IsCovered
  <1>2. price \in Nat /\ fee \in Nat /\ quote \in Nat /\ price - BrokerCut - fee \in Nat /\ d \in Nat
        /\ price - BrokerCut - fee = quote - d
    <2>1. Cost(depth) \in Nat /\ Cost(depth) <= 2 * Slip
      BY EnvNumbers DEF Cost
    <2> QED BY <2>1, EnvNumbers
  <1>3. got \in Nat /\ got = a.lots * quote - a.lots * d /\ a.lots * quote \in Nat /\ a.lots * d \in Nat
    <2> HIDE DEF d
    <2>1. got \in Nat /\ a.lots * quote \in Nat /\ a.lots * d \in Nat
      BY <1>1, <1>2, ProductNat
    <2>2. a.lots * (quote - d) = a.lots * quote - a.lots * d
      BY <1>1, <1>2, ProductLess
    <2> QED BY <1>2, <2>1, <2>2
  <1>4. released \in Int /\ (leverage = 1 => released = 0)
    <2>1. price * a.lots \in Nat
      BY <1>1, <1>2, ProductNat
    <2>2. price * a.lots * (leverage - 1) \in Nat
      BY <2>1, EnvNumbers, ProductNat
    <2>3. released \in Int
      BY <2>2, EnvNumbers, QuotientInt
    <2>4. ASSUME leverage = 1 PROVE released = 0
      <3>1. price * a.lots * (leverage - 1) = 0
        BY <2>1, <2>4
      <3>2. released = 0 \div 1
        BY <2>4, <3>1
      <3> QED BY <3>2
    <2> QED BY <2>3, <2>4
  <1>5. m \in Nat /\ (leverage = 1 => m = 0)
    <2>1. m = IF 0 >= a.margin - released THEN 0 ELSE a.margin - released
      BY <1>1, <1>4, MaxOfTwo
    <2> QED BY <1>1, <1>4, <2>1 DEF StaysFair
  <1>6. w = [a EXCEPT !.cash = a.cash + got, !.lots = 0, !.entry = NoEntryPrice, !.margin = m, !.limits = NoLimits]
    BY DEF Sell
  <1>7. Equity(a) = a.cash + a.lots * quote - a.margin
    BY DEF Equity
  <1> HIDE DEF price, fee, d, got, released, m, w
  <1>8. w \in EnvAccounts /\ w.cash = a.cash + got /\ w.lots = 0 /\ w.entry = NoEntryPrice
        /\ w.margin = m /\ w.limits = NoLimits /\ w.dead = a.dead
    <2>1. a.cash + got \in Int
      BY <1>1, <1>3
    <2> QED BY <1>1, <1>5, <1>6, <2>1, LimitsFinite DEF EnvAccounts
  <1>9. StaysFair(w)
    <2>1. w.cash >= -fee
      BY <1>1, <1>2, <1>3, <1>8 DEF StaysFair, fee
    <2> QED BY <1>5, <1>8, <2>1 DEF StaysFair, fee
  <1>10. IsCovered(w)
    <2>1. LimitCount(w, Limits) = 0
      BY <1>8, NoneCovered
    <2> QED BY <1>1, <1>8, <2>1 DEF IsCovered
  <1>11. leverage = 1 => Equity(w) <= Equity(a)
    <2>1. Equity(w) = w.cash + w.lots * quote - w.margin
      BY DEF Equity
    <2>2. 0 * quote = 0
      BY <1>2
    <2>3. Equity(w) = a.cash + got - m
      BY <1>1, <1>3, <1>5, <1>8, <2>1, <2>2
    <2>4. PICK x \in Nat, y \in Nat : x = a.lots * quote /\ y = a.lots * d
      BY <1>3
    <2> QED BY <1>1, <1>3, <1>5, <1>7, <2>3, <2>4 DEF StaysFair
  <1> QED BY <1>8, <1>9, <1>10, <1>11 DEF w

LEMMA SellKeeps ==
  ASSUME EnvInv, NEW depth \in {"thin", "deep"}, NEW ok \in BOOLEAN, StepSell(depth, ok)
  PROVE  EnvInv'
  <1> DEFINE w(a) == Sell(a, depth)
  <1>1. Live /\ \E a \in AfterTick : CanSell(a, depth) /\ Finish(w(a), "sell", ok)
                                     /\ counted' = counted + Counts(acct, a) + Counts(a, w(a))
    BY DEF StepSell
  <1>2. PICK a \in AfterTick : CanSell(a, depth) /\ Finish(w(a), "sell", ok)
                               /\ counted' = counted + Counts(acct, a) + Counts(a, w(a))
    BY <1>1
  <1>3. StaysFair(a) /\ IsCovered(a) /\ a.lots <= acct.lots
        /\ Counts(acct, a) <= acct.lots - a.lots /\ Equity(a) <= Equity(acct)
    BY <1>1, TickStays
  <1>4. StaysFair(w(a)) /\ IsCovered(w(a)) /\ w(a).lots = 0 /\ (leverage = 1 => Equity(w(a)) <= Equity(a))
    BY <1>2, <1>3, SellStays
  <1> HIDE DEF w
  <1>n. a.lots \in Nat /\ acct.lots \in Nat /\ counted \in Nat /\ closed \in Nat /\ counted <= closed /\ a.lots > 0
    BY <1>2, <1>3 DEF EnvInv, StaysFair, EnvAccounts, CountedOnce, CanSell
  <1>6. closed' = closed + acct.lots
    <2>1. closed' = closed + acct.lots - w(a).lots + 0
      BY <1>2 DEF Finish
    <2> QED BY <1>4, <1>n, <2>1
  <1>7. counted' \in Nat /\ closed' \in Nat /\ counted' <= closed'
    <2>1. Counts(acct, a) \in {0, 1} /\ Counts(a, w(a)) \in {0, 1}
      BY DEF Counts
    <2> QED BY <1>2, <1>3, <1>6, <1>n, <2>1
  <1>8. leverage = 1 => Equity(w(a)) <= Equity(acct)
    <2>1. \A x \in EnvAccounts : Equity(x) \in Int
      <3> SUFFICES ASSUME NEW x \in EnvAccounts PROVE Equity(x) \in Int
        OBVIOUS
      <3>1. x.cash \in Int /\ x.lots \in Nat /\ x.margin \in Nat
        BY DEF EnvAccounts
      <3>2. x.lots * quote \in Int
        BY <3>1, EnvNumbers, ProductInt
      <3> QED BY <3>1, <3>2 DEF Equity
    <2>2. Equity(w(a)) \in Int /\ Equity(a) \in Int /\ Equity(acct) \in Int
      BY <1>3, <1>4, <2>1 DEF StaysFair, EnvInv
    <2> QED BY <1>3, <1>4, <2>2
  <1> QED BY <1>1, <1>2, <1>4, <1>7, <1>8, FinishKeeps

LEMMA FreshIsFair ==
  ASSUME leverage \in Leverages
  PROVE  FreshAccount \in EnvAccounts /\ FreshAccount.cash >= -(leverage * Fee) /\ FreshAccount.margin = 0
         /\ ~FreshAccount.dead /\ FreshAccount.lots = 0 /\ FreshAccount.entry = NoEntryPrice /\ FreshAccount.limits = NoLimits
  <1>1. FreshAccount \in EnvAccounts
    BY EnvAssumption, LimitsFinite DEF FreshAccount, EnvAccounts
  <1>2. leverage * Fee \in Nat
    BY EnvAssumption, ProductNat
  <1> QED BY <1>1, <1>2, EnvAssumption DEF FreshAccount

LEMMA ResetKeeps == ASSUME EnvInv, Reset PROVE EnvInv'
  <1>1. episodes' = episodes + 1 /\ acct' = FreshAccount /\ tick' = 0 /\ gain' = 0 /\ quote' \in TickPrices
        /\ leverage' = leverage /\ counted' = counted /\ closed' = closed /\ episodes < MaxEpisodes
    BY DEF Reset
  <1>2. FreshAccount \in EnvAccounts /\ FreshAccount.cash >= -(leverage * Fee) /\ FreshAccount.margin = 0
        /\ ~FreshAccount.dead /\ FreshAccount.lots = 0 /\ FreshAccount.entry = NoEntryPrice /\ FreshAccount.limits = NoLimits
    BY FreshIsFair DEF EnvInv
  <1>3. StaysFair(acct)'
    BY <1>1, <1>2 DEF StaysFair
  <1>4. IsCovered(acct)'
    <2>1. Total(NoLimits, Limits) = 0
      BY LimitsFinite, TotalZero DEF NoLimits
    <2> QED BY <1>1, <1>2, <2>1, CountNext DEF IsCovered
  <1>5. episodes' \in 1 .. MaxEpisodes /\ tick' \in 0 .. MaxTicks
    BY <1>1, EnvAssumption DEF EnvInv
  <1> QED BY <1>1, <1>3, <1>4, <1>5 DEF EnvInv, CountedOnce, NeverPaidForPrices

LEMMA EnvStart == EnvInit => EnvInv
  <1> SUFFICES ASSUME EnvInit PROVE EnvInv
    OBVIOUS
  <1> USE DEF EnvInit
  <1>2. FreshAccount \in EnvAccounts /\ FreshAccount.cash >= -(leverage * Fee) /\ FreshAccount.margin = 0
        /\ ~FreshAccount.dead /\ FreshAccount.lots = 0 /\ FreshAccount.entry = NoEntryPrice /\ FreshAccount.limits = NoLimits
    BY FreshIsFair
  <1>3. StaysFair(acct)
    BY <1>2 DEF StaysFair
  <1>4. IsCovered(acct)
    <2>1. LimitCount(acct, Limits) = 0
      BY <1>2, NoneCovered
    <2> QED BY <1>2, <2>1 DEF IsCovered
  <1> QED BY <1>3, <1>4, EnvAssumption DEF EnvInv, CountedOnce, NeverPaidForPrices

LEMMA EnvKept == EnvInv /\ [EnvNext]_envVars => EnvInv'
  <1> SUFFICES ASSUME EnvInv, [EnvNext]_envVars PROVE EnvInv'
    OBVIOUS
  <1>1. CASE UNCHANGED envVars
    <2>1. IsCovered(acct)' <=> IsCovered(acct)
      <3>1. LimitCount(acct, Limits)' = LimitCount(acct, Limits)
        BY <1>1, CountNext, CountIsTotal DEF envVars
      <3> QED BY <1>1, <3>1 DEF envVars, IsCovered
    <2> QED BY <1>1, <2>1 DEF envVars, EnvInv, StaysFair, CountedOnce, NeverPaidForPrices
  <1>2. CASE Reset
    BY <1>2, ResetKeeps
  <1>3. ASSUME NEW ok \in BOOLEAN, StepHold(ok) \/ StepCancel(ok) PROVE EnvInv'
    BY <1>3, HoldKeeps, CancelKeeps
  <1>4. ASSUME NEW ok \in BOOLEAN, NEW depth \in {"thin", "deep"}, StepSell(depth, ok) PROVE EnvInv'
    BY <1>4, SellKeeps
  <1>5. ASSUME NEW ok \in BOOLEAN, NEW depth \in {"thin", "deep"}, NEW b \in Brackets \cup {0}, StepBuy(depth, b, ok)
        PROVE  EnvInv'
    BY <1>5, BuyKeeps
  <1> QED BY <1>1, <1>2, <1>3, <1>4, <1>5 DEF EnvNext

LEMMA EnvImplied == EnvInv => EnvSound
  <1> SUFFICES ASSUME EnvInv PROVE EnvSound
    OBVIOUS
  <1>1. acct \in EnvAccounts
    BY DEF EnvInv, StaysFair
  <1>2. EnvTypeOK
    BY <1>1 DEF EnvInv, EnvTypeOK, EnvAccounts
  <1>3. PendingCovered
    BY DEF EnvInv, IsCovered, PendingCovered
  <1>4. OverdrawnByFee
    BY DEF EnvInv, StaysFair, OverdrawnByFee
  <1> QED BY <1>2, <1>3, <1>4 DEF EnvSound, EnvInv

(* Every step of an episode keeps the books of the simulated trader: what was closed is counted once, *)
(* no more limit orders wait than lots are held, and nothing is paid for a price that was not met,     *)
(* for any prices that cover slippage and commissions (rl/envs/trading_env.py).                        *)
THEOREM EnvIsSound == EnvSpec => []EnvSound
  <1>1. EnvSpec => []EnvInv
    BY EnvStart, EnvKept, PTL DEF EnvSpec
  <1> QED BY <1>1, EnvImplied, PTL

-----------------------------------------------------------------------------
(* The portfolio the policy is trained and studied on. *)

LEMMA ProductOrder == ASSUME NEW a \in Nat, NEW b \in Nat, NEW c \in Nat, a <= b PROVE a * c <= b * c
  OBVIOUS

LEMMA Quotient ==
  ASSUME NEW x \in Nat, NEW y \in Nat \ {0}
  PROVE  x \div y \in Nat /\ (x \div y) * y <= x
  OBVIOUS

LEMMA MultipleDivides == ASSUME NEW x \in Nat, NEW y \in Nat \ {0} PROVE (x * y) % y = 0
  OBVIOUS

-----------------------------------------------------------------------------
Portfolios == [cash : Nat, held : [Positions -> Nat], value : Nat]

LEMMA PositionsFinite == IsFiniteSet(Positions) /\ Len(Symbols) \in Nat
  BY PortfolioAssumption, FS_Interval DEF Positions

LEMMA WorthIs == ASSUME NEW a, NEW p PROVE Worth(a, p) = a.cash + Total(Holdings(a, p), Positions)
  BY DEF Worth, Total

LEMMA HoldingsNat ==
  ASSUME NEW a \in Portfolios, NEW p \in [Positions -> Quotes], NEW i \in Positions
  PROVE  Holdings(a, p)[i] \in Nat /\ Holdings(a, p)[i] = Parts * a.held[i] * p[i]
  <1>1. a.held[i] \in Nat /\ p[i] \in Nat /\ Parts \in Nat
    BY PortfolioAssumption DEF Portfolios
  <1>2. Parts * a.held[i] \in Nat
    BY <1>1, ProductNat
  <1>3. Parts * a.held[i] * p[i] \in Nat
    BY <1>1, <1>2, ProductNat
  <1> QED BY <1>3 DEF Holdings

LEMMA WorthNat ==
  ASSUME NEW a \in Portfolios, NEW p \in [Positions -> Quotes]
  PROVE  Worth(a, p) \in Nat
  <1>1. Total(Holdings(a, p), Positions) \in Nat
    BY HoldingsNat, PositionsFinite, TotalNat
  <1>2. a.cash \in Nat
    BY DEF Portfolios
  <1> QED BY <1>1, <1>2, WorthIs

(* A target is a number of shares within the cap. *)
LEMMA TargetCapped ==
  ASSUME NEW share \in Nat, NEW value \in Nat, NEW price \in Nat \ {0}
  PROVE  /\ TargetQty(share, value, price) \in Nat
         /\ 10 * Parts * TargetQty(share, value, price) * price <= MaxShare * value
  <1> DEFINE u == Uncapped(share, value, price)  c == Cap(value, price)  y == 10 * Parts * price
  <1>1. Parts * price \in Nat \ {0} /\ 10 * Parts * price \in Nat \ {0} /\ 8 * Parts * price \in Nat \ {0}
    BY PortfolioAssumption
  <1>2. u \in Nat
    <2>1. share * value \in Nat
      BY ProductNat
    <2>2. (share * value) \div (8 * Parts * price) \in Nat
      BY <1>1, <2>1, Quotient
    <2>3. ((share * value) \div (8 * Parts * price)) \div LotSize \in Nat
      BY <2>2, PortfolioAssumption, Quotient
    <2> QED BY <2>3, PortfolioAssumption, ProductNat DEF Uncapped
  <1>3. c \in Nat /\ c * y <= MaxShare * value
    <2>1. MaxShare * value \in Nat
      BY PortfolioAssumption, ProductNat
    <2> QED BY <1>1, <2>1, Quotient DEF Cap
  <1>4. TargetQty(share, value, price) = IF u <= c THEN u ELSE c
    <2> HIDE DEF u, c
    <2>1. Min({u, c}) = IF u <= c THEN u ELSE c
      BY <1>2, <1>3, MinOfTwo
    <2> QED BY <2>1 DEF TargetQty, u, c
  <1> DEFINE q == TargetQty(share, value, price)
  <1> HIDE DEF u, c, q
  <1>5. q \in Nat /\ q <= c
    BY <1>2, <1>3, <1>4 DEF q
  <1>6. q * y <= c * y
    BY <1>1, <1>3, <1>5, ProductOrder
  <1>7. 10 * Parts * q * price = q * y
    BY <1>5, PortfolioAssumption
  <1>8. q * y \in Nat /\ c * y \in Nat /\ MaxShare * value \in Nat
    BY <1>1, <1>3, <1>5, PortfolioAssumption, ProductNat
  <1> QED BY <1>3, <1>5, <1>6, <1>7, <1>8 DEF q

(* One symbol is traded: its shares end within the target and the cash pays for them. *)
Traded(a, b, i, price) ==
  /\ \A j \in Positions \ {i} : b.held[j] = a.held[j]
  /\ b.cash + Parts * b.held[i] * price
       = a.cash + Parts * a.held[i] * price - Commission * price * Max({b.held[i] - a.held[i], a.held[i] - b.held[i]})

SharesBought(a, i, k, price) == [a EXCEPT !.held = [a.held EXCEPT ![i] = a.held[i] + k], !.cash = a.cash - BuyCost(k, price)]
SharesSold(a, i, k, price) == [a EXCEPT !.held = [a.held EXCEPT ![i] = a.held[i] - k], !.cash = a.cash + Proceeds(k, price)]

LEMMA BoughtPays ==
  ASSUME NEW a \in Portfolios, NEW i \in Positions, NEW price \in Nat \ {0}, NEW k \in Nat, BuyCost(k, price) <= a.cash,
         NEW b, b = SharesBought(a, i, k, price)
  PROVE  b \in Portfolios /\ b.value = a.value /\ b.held[i] = a.held[i] + k /\ Traded(a, b, i, price)
  <1> DEFINE h == a.held[i]  cost == BuyCost(k, price)
  <1>1. a.cash \in Nat /\ h \in Nat /\ a.held \in [Positions -> Nat] /\ Parts \in Nat /\ Commission \in Nat
    BY PortfolioAssumption DEF Portfolios
  <1>2. cost = k * price * (Parts + Commission) /\ cost \in Nat
    BY <1>1, ProductNat DEF BuyCost
  <1>3. b = [a EXCEPT !.held = [a.held EXCEPT ![i] = h + k], !.cash = a.cash - cost]
    BY DEF SharesBought
  <1>4. a.cash - cost \in Nat /\ [a.held EXCEPT ![i] = h + k] \in [Positions -> Nat]
    BY <1>1, <1>2
  <1>5. b \in Portfolios /\ b.value = a.value /\ b.held = [a.held EXCEPT ![i] = h + k] /\ b.cash = a.cash - cost
    BY <1>3, <1>4 DEF Portfolios
  <1>6. b.held[i] = h + k /\ \A j \in Positions \ {i} : b.held[j] = a.held[j]
    BY <1>1, <1>5
  <1>7. Max({b.held[i] - h, h - b.held[i]}) = k
    <2>1. b.held[i] - h = k /\ h - b.held[i] = -k
      BY <1>1, <1>6
    <2>2. PICK x \in Int : x = -k
      OBVIOUS
    <2>3. Max({k, x}) = k
      BY <2>2, MaxOfTwo
    <2> QED BY <2>1, <2>2, <2>3, Zenon
  <1>8. Parts * (h + k) * price = Parts * h * price + Parts * k * price
    BY <1>1
  <1>9. k * price * (Parts + Commission) = Parts * k * price + Commission * price * k
    BY <1>1
  <1>10. Parts * h * price \in Int /\ Parts * k * price \in Int /\ Commission * price * k \in Int
    BY <1>1
  <1> HIDE DEF h, cost
  <1>11. b.cash + Parts * b.held[i] * price = a.cash + Parts * h * price - Commission * price * k
    <2>1. PICK x \in Int, y \in Int, z \in Int :
            x = Parts * h * price /\ y = Parts * k * price /\ z = Commission * price * k
      BY <1>10
    <2>2. cost = y + z
      BY <1>2, <1>9, <2>1
    <2>3. Parts * b.held[i] * price = x + y
      BY <1>6, <1>8, <2>1
    <2> QED BY <1>1, <1>5, <2>1, <2>2, <2>3
  <1> QED BY <1>5, <1>6, <1>7, <1>11 DEF Traded, h

LEMMA SoldPays ==
  ASSUME NEW a \in Portfolios, NEW i \in Positions, NEW price \in Nat \ {0}, NEW k \in Nat, k <= a.held[i],
         NEW b, b = SharesSold(a, i, k, price)
  PROVE  b \in Portfolios /\ b.value = a.value /\ b.held[i] = a.held[i] - k /\ Traded(a, b, i, price)
  <1> DEFINE h == a.held[i]  got == Proceeds(k, price)
  <1>1. a.cash \in Nat /\ h \in Nat /\ a.held \in [Positions -> Nat] /\ Parts \in Nat /\ Commission \in Nat
        /\ Parts - Commission \in Nat
    BY PortfolioAssumption DEF Portfolios
  <1>2. got = k * price * (Parts - Commission) /\ got \in Nat
    BY <1>1, ProductNat DEF Proceeds
  <1>3. b = [a EXCEPT !.held = [a.held EXCEPT ![i] = h - k], !.cash = a.cash + got]
    BY DEF SharesSold
  <1>4. a.cash + got \in Nat /\ [a.held EXCEPT ![i] = h - k] \in [Positions -> Nat]
    BY <1>1, <1>2
  <1>5. b \in Portfolios /\ b.value = a.value /\ b.held = [a.held EXCEPT ![i] = h - k] /\ b.cash = a.cash + got
    BY <1>3, <1>4 DEF Portfolios
  <1>6. b.held[i] = h - k /\ \A j \in Positions \ {i} : b.held[j] = a.held[j]
    BY <1>1, <1>5
  <1>7. Max({b.held[i] - h, h - b.held[i]}) = k
    <2>1. b.held[i] - h = -k /\ h - b.held[i] = k
      BY <1>1, <1>6
    <2>2. PICK x \in Int : x = -k
      OBVIOUS
    <2>3. Max({x, k}) = k
      BY <2>2, MaxOfTwo
    <2> QED BY <2>1, <2>2, <2>3, Zenon
  <1>8. Parts * (h - k) * price = Parts * h * price - Parts * k * price
    BY <1>1
  <1>9. k * price * (Parts - Commission) = Parts * k * price - Commission * price * k
    BY <1>1
  <1>10. Parts * h * price \in Int /\ Parts * k * price \in Int /\ Commission * price * k \in Int
    BY <1>1
  <1> HIDE DEF h, got
  <1>11. b.cash + Parts * b.held[i] * price = a.cash + Parts * h * price - Commission * price * k
    <2>1. PICK x \in Int, y \in Int, z \in Int :
            x = Parts * h * price /\ y = Parts * k * price /\ z = Commission * price * k
      BY <1>10
    <2>2. got = y - z
      BY <1>2, <1>9, <2>1
    <2>3. Parts * b.held[i] * price = x - y
      BY <1>6, <1>8, <2>1
    <2> QED BY <1>1, <1>5, <2>1, <2>2, <2>3
  <1> QED BY <1>5, <1>6, <1>7, <1>11 DEF Traded, h

LEMMA TradeOnePays ==
  ASSUME NEW a \in Portfolios, NEW i \in Positions, NEW share \in Nat, NEW price \in Nat \ {0}
  PROVE  LET b == TradeOne(a, i, share, price)
         IN  /\ b \in Portfolios /\ b.value = a.value /\ Traded(a, b, i, price)
             /\ b.held[i] <= TargetQty(share, a.value, price)
  <1> DEFINE t == TargetQty(share, a.value, price)  h == a.held[i]  less == Affordable(a.cash, price)
             b == TradeOne(a, i, share, price)
  <1>1. a.cash \in Nat /\ h \in Nat /\ a.value \in Nat /\ Parts \in Nat \ {0} /\ Commission \in Nat /\ LotSize \in Nat \ {0}
    BY PortfolioAssumption DEF Portfolios
  <1>2. t \in Nat
    BY <1>1, TargetCapped
  <1>3. price * (Parts + Commission) \in Nat \ {0}
    BY <1>1
  <1>4. less \in Nat /\ less * (price * (Parts + Commission)) <= a.cash
    BY <1>1, <1>3, Quotient DEF Affordable
  <1>5. \A k \in Nat : BuyCost(k, price) = k * (price * (Parts + Commission))
    BY <1>1 DEF BuyCost
  <1> HIDE DEF t, h, less
  <1>6. CASE t > h /\ BuyCost(t - h, price) <= a.cash
    <2>1. PICK k \in Nat : k = t - h
      BY <1>1, <1>2, <1>6
    <2>2. b = [a EXCEPT !.held = [a.held EXCEPT ![i] = t], !.cash = a.cash - BuyCost(t - h, price)]
      <3>1. t > h /\ BuyCost(t - h, price) <= a.cash /\ ~(t < h) /\ ~(BuyCost(t - h, price) > a.cash)
        <4>1. PICK x : x = BuyCost(k, price)
          OBVIOUS
        <4>2. x \in Nat
          BY <1>3, <1>5, <4>1, ProductNat
        <4> QED BY <1>1, <1>2, <1>6, <2>1, <4>1, <4>2
      <3> QED BY <3>1 DEF TradeOne, t, h
    <2>3. b = SharesBought(a, i, k, price)
      <3>1. t = a.held[i] + k /\ t - h = k
        BY <1>1, <1>2, <2>1 DEF h
      <3> HIDE DEF b
      <3> QED BY <2>2, <3>1 DEF SharesBought
    <2> HIDE DEF b
    <2>4. BuyCost(k, price) <= a.cash
      BY <1>6, <2>1
    <2>5. b \in Portfolios /\ b.value = a.value /\ b.held[i] = a.held[i] + k /\ Traded(a, b, i, price)
      BY <2>3, <2>4, BoughtPays
    <2>6. b.held[i] <= t
      BY <1>1, <1>2, <2>1, <2>5 DEF h
    <2> QED BY <2>5, <2>6 DEF b, t
  <1>7. CASE t > h /\ BuyCost(t - h, price) > a.cash /\ less >= LotSize
    <2>1. b = SharesBought(a, i, less, price)
      BY <1>1, <1>2, <1>4, <1>7 DEF TradeOne, t, h, less, SharesBought
    <2>2. BuyCost(less, price) <= a.cash
      BY <1>4, <1>5
    <2> HIDE DEF b
    <2>3. b \in Portfolios /\ b.value = a.value /\ b.held[i] = a.held[i] + less /\ Traded(a, b, i, price)
      BY <1>4, <2>1, <2>2, BoughtPays
    <2>4. less < t - h
      <3>1. PICK k \in Nat : k = t - h
        BY <1>1, <1>2, <1>7
      <3>2. PICK y \in Nat : y = price * (Parts + Commission)
        BY <1>3
      <3>3. k * y > a.cash /\ less * y <= a.cash
        BY <1>4, <1>5, <1>7, <3>1, <3>2
      <3>4. k <= less => k * y <= less * y
        BY <1>4, ProductOrder
      <3>5. k * y \in Nat /\ less * y \in Nat
        BY <1>4, ProductNat
      <3> QED BY <1>1, <1>4, <3>1, <3>3, <3>4, <3>5
    <2>5. b.held[i] <= t
      BY <1>1, <1>2, <1>4, <2>3, <2>4 DEF h
    <2> QED BY <2>3, <2>5 DEF b, t
  <1>8. CASE t < h
    <2>1. PICK k \in Nat : k = h - t
      BY <1>1, <1>2, <1>8
    <2>2. b = [a EXCEPT !.held = [a.held EXCEPT ![i] = t], !.cash = a.cash + Proceeds(h - t, price)]
      BY <1>1, <1>2, <1>8 DEF TradeOne, t, h
    <2>3. b = SharesSold(a, i, k, price)
      <3>1. t = a.held[i] - k /\ h - t = k
        BY <1>1, <1>2, <2>1 DEF h
      <3> HIDE DEF b
      <3> QED BY <2>2, <3>1 DEF SharesSold
    <2> HIDE DEF b
    <2>4. k <= a.held[i]
      BY <1>1, <1>2, <2>1 DEF h
    <2>5. b \in Portfolios /\ b.value = a.value /\ b.held[i] = a.held[i] - k /\ Traded(a, b, i, price)
      BY <2>3, <2>4, SoldPays
    <2>6. b.held[i] <= t
      BY <1>1, <1>2, <2>1, <2>5 DEF h
    <2> QED BY <2>5, <2>6 DEF b, t
  <1>9. CASE ~(t < h) /\ ~(t > h /\ BuyCost(t - h, price) <= a.cash)
             /\ ~(t > h /\ BuyCost(t - h, price) > a.cash /\ less >= LotSize)
    <2>1. b = a
      BY <1>9 DEF TradeOne, t, h, less
    <2>2. a.held[i] <= t
      BY <1>1, <1>2, <1>9 DEF h
    <2>3. Traded(a, a, i, price)
      <3>1. a.held[i] - a.held[i] = 0 /\ h \in Nat
        BY <1>1 DEF h
      <3>2. Max({0, 0}) = 0
        BY MaxOfTwo
      <3>3. PICK x \in Int : x = a.cash + Parts * h * price
        BY <1>1
      <3>4. PICK z : z = Commission * price * 0
        OBVIOUS
      <3>8. z = 0 /\ x = x - z
        <4>1. Commission * price \in Nat
          BY <1>1, ProductNat
        <4>2. z = 0
          BY <3>4, <4>1
        <4> QED BY <3>3, <4>2
      <3>5. Max({h - h, h - h}) = 0
        BY <3>1, <3>2, Zenon DEF h
      <3>6. a.cash + Parts * h * price = a.cash + Parts * h * price - Commission * price * 0
        BY <1>1, <3>1, <3>3, <3>4, <3>8
      <3>7. a.cash + Parts * h * price = a.cash + Parts * h * price - Commission * price * Max({h - h, h - h})
        BY <3>5, <3>6
      <3> QED BY <3>7 DEF Traded, h
    <2> QED BY <2>1, <2>2, <2>3 DEF t
  <1> QED BY <1>6, <1>7, <1>8, <1>9

(* The account after each symbol, and what is known of it. *)
Along(f, shares) ==
  f = [i \in 0 .. Len(Symbols) |-> IF i = 0 THEN account ELSE TradeOne(f[i - 1], i, shares[i], prices[i])]

SoFar(a, i, shares) ==
  /\ a \in Portfolios /\ a.value = account.value
  /\ \A j \in Positions : j > i => a.held[j] = account.held[j]
  /\ \A j \in Positions : j <= i => a.held[j] <= TargetQty(shares[j], account.value, prices[j])
  /\ Worth(a, prices) = Worth(account, prices) - Total(Commissions(a), Positions)

LEMMA AlongExists ==
  ASSUME account \in Portfolios, prices \in [Positions -> Quotes], NEW shares \in [Positions -> Nat]
  PROVE  \E f : Along(f, shares) /\ AllTraded(shares) = f[Len(Symbols)]
  <1> DEFINE n == Len(Symbols)
             F == [d \in Positions \X Portfolios |-> TradeOne(d[2], d[1], shares[d[1]], prices[d[1]])]
  <1>1. n \in Nat /\ Positions = 1 .. n
    BY PositionsFinite DEF Positions
  <1>2. ASSUME NEW i \in 1 .. n, NEW a \in Portfolios PROVE F[<<i, a>>] \in Portfolios /\ F[<<i, a>>] = TradeOne(a, i, shares[i], prices[i])
    <2>1. i \in Positions /\ shares[i] \in Nat /\ prices[i] \in Nat \ {0}
      BY <1>1, PortfolioAssumption
    <2>2. TradeOne(a, i, shares[i], prices[i]) \in Portfolios
      BY <2>1, TradeOnePays
    <2>3. <<i, a>> \in Positions \X Portfolios /\ <<i, a>>[1] = i /\ <<i, a>>[2] = a
      BY <2>1
    <2> QED BY <2>2, <2>3
  <1> HIDE DEF F, n
  <1>3. PICK f \in [0 .. n -> Portfolios] : \A i \in 0 .. n : f[i] = IF i = 0 THEN account ELSE F[<<i, f[i - 1]>>]
    <2>1. PICK A, base, m, G : A = Portfolios /\ base = account /\ m = n /\ G = F
      OBVIOUS
    <2>2. base \in A /\ m \in Nat /\ \A i \in 1 .. m, a \in A : G[<<i, a>>] \in A
      BY <1>1, <1>2, <2>1
    <2>3. \E f \in [0 .. m -> A] : FoldedFrom(f, base, m, G)
      BY <2>2, FoldExists
    <2> QED BY <2>1, <2>3 DEF FoldedFrom
  <1>4. ASSUME NEW i \in 0 .. n PROVE f[i] = IF i = 0 THEN account ELSE TradeOne(f[i - 1], i, shares[i], prices[i])
    <2>1. f[i] = IF i = 0 THEN account ELSE F[<<i, f[i - 1]>>]
      BY <1>3
    <2>2. CASE i # 0
      <3>1. i \in 1 .. n /\ i - 1 \in 0 .. n
        BY <1>1, <2>2
      <3>2. f[i - 1] \in Portfolios
        BY <1>3, <3>1
      <3> QED BY <1>2, <2>1, <2>2, <3>1, <3>2
    <2> QED BY <2>1, <2>2
  <1>5. Along(f, shares)
    <2>1. f = [i \in 0 .. n |-> f[i]]
      BY <1>3
    <2>2. f = [i \in 0 .. n |-> IF i = 0 THEN account ELSE TradeOne(f[i - 1], i, shares[i], prices[i])]
      BY <1>4, <2>1
    <2> QED BY <2>2 DEF Along, n
  <1>6. \E g : Along(g, shares)
    BY <1>5
  <1>7. AllTraded(shares) = (CHOOSE g : Along(g, shares))[Len(Symbols)]
    BY DEF AllTraded, Along
  <1>8. PICK h : h = CHOOSE g : Along(g, shares)
    OBVIOUS
  <1>9. Along(h, shares)
    BY <1>6, <1>8
  <1> QED BY <1>7, <1>8, <1>9

LEMMA CommissionsNat ==
  ASSUME account \in Portfolios, prices \in [Positions -> Quotes], NEW a \in Portfolios, NEW i \in Positions
  PROVE  /\ Commissions(a)[i] \in Int
         /\ Commissions(a)[i] = Commission * prices[i] * Max({a.held[i] - account.held[i], account.held[i] - a.held[i]})
         /\ a.held[i] = account.held[i] => Commissions(a)[i] = 0
  <1>1. a.held[i] \in Nat /\ account.held[i] \in Nat /\ prices[i] \in Nat /\ Commission \in Nat
    <2>1. a.held[i] \in Nat /\ account.held[i] \in Nat
      BY DEF Portfolios
    <2>2. prices[i] \in Quotes /\ Quotes \subseteq Nat /\ Parts \in Nat /\ Commission \in 0 .. Parts - 1
      BY PortfolioAssumption
    <2>3. prices[i] \in Nat
      BY <2>2
    <2>4. Commission \in Nat
      BY <2>2
    <2> QED BY <2>1, <2>3, <2>4
  <1>2. PICK x \in Int, y \in Int : x = a.held[i] - account.held[i] /\ y = account.held[i] - a.held[i]
    BY <1>1
  <1>3. PICK m : m = Max({x, y})
    OBVIOUS
  <1>4. m = IF x >= y THEN x ELSE y
    BY <1>2, <1>3, MaxOfTwo
  <1>5. Commissions(a)[i] = Commission * prices[i] * m
    BY <1>2, <1>3, Zenon DEF Commissions
  <1>6. Commission * prices[i] \in Nat
    BY <1>1, ProductNat
  <1>7. PICK c \in Nat : c = Commission * prices[i]
    BY <1>6
  <1>8. Commissions(a)[i] = c * m
    BY <1>5, <1>7
  <1>9. a.held[i] = account.held[i] => m = 0
    BY <1>1, <1>2, <1>4
  <1>10. c * m \in Int /\ c * 0 = 0
    BY <1>2, <1>4, <1>7
  <1> QED BY <1>2, <1>3, <1>5, <1>8, <1>9, <1>10, Zenon

LEMMA OneFurther ==
  ASSUME account \in Portfolios, prices \in [Positions -> Quotes], NEW shares \in [Positions -> Nat],
         NEW i \in Positions, NEW a, SoFar(a, i - 1, shares)
  PROVE  SoFar(TradeOne(a, i, shares[i], prices[i]), i, shares)
  <1> DEFINE price == prices[i]  b == TradeOne(a, i, shares[i], price)
  <1>1. price \in Nat \ {0} /\ shares[i] \in Nat /\ a \in Portfolios /\ a.value = account.value /\ i \in Nat /\ Positions \subseteq Nat
    <2>1. price \in Nat \ {0} /\ shares[i] \in Nat
      BY PortfolioAssumption
    <2>2. a \in Portfolios /\ a.value = account.value
      BY DEF SoFar
    <2>3. i \in Nat /\ Positions \subseteq Nat
      BY PositionsFinite DEF Positions
    <2> QED BY <2>1, <2>2, <2>3
  <1>2. b \in Portfolios /\ b.value = a.value /\ Traded(a, b, i, price) /\ b.held[i] <= TargetQty(shares[i], a.value, price)
    BY <1>1, TradeOnePays
  <1> HIDE DEF b, price
  <1>3. \A j \in Positions \ {i} : b.held[j] = a.held[j]
    BY <1>2 DEF Traded
  <1>4. a.held[i] = account.held[i]
    BY <1>1 DEF SoFar
  <1>5. PICK x, X, y, Y, c :
          /\ x = a.cash /\ X = Parts * a.held[i] * price /\ y = b.cash /\ Y = Parts * b.held[i] * price
          /\ c = Commission * price * Max({b.held[i] - a.held[i], a.held[i] - b.held[i]})
    OBVIOUS
  <1>6. y + Y = x + X - c
    BY <1>2, <1>5 DEF Traded
  <1>7. X = Holdings(a, prices)[i] /\ Y = Holdings(b, prices)[i] /\ X \in Nat /\ Y \in Nat /\ x \in Nat /\ y \in Nat
    BY <1>1, <1>2, <1>5, HoldingsNat DEF Portfolios, price
  <1>8. c = Commissions(b)[i] /\ c \in Int /\ Commissions(a)[i] = 0
    BY <1>1, <1>2, <1>4, <1>5, CommissionsNat DEF price
  <1>9. Total(Holdings(b, prices), Positions) = Total(Holdings(a, prices), Positions) + (Y - X)
    <2>1. Whole(Holdings(a, prices), Positions)
      <3>1. a \in Portfolios
        BY <1>1
      <3>2. \A j \in Positions : Holdings(a, prices)[j] \in Int
        BY <3>1, HoldingsNat
      <3> QED BY <3>2 DEF Whole
    <2>2. \A j \in Positions \ {i} : Holdings(b, prices)[j] = Holdings(a, prices)[j]
      BY <1>1, <1>2, <1>3, HoldingsNat
    <2>3. PICK d \in Int : d = Y - X
      BY <1>7
    <2>4. Holdings(b, prices)[i] = Holdings(a, prices)[i] + d
      BY <1>7, <2>3
    <2> QED BY <2>1, <2>2, <2>3, <2>4, PositionsFinite, TotalRaised
  <1>10. Total(Commissions(b), Positions) = Total(Commissions(a), Positions) + c
    <2>1. Whole(Commissions(a), Positions)
      BY <1>1, CommissionsNat DEF Whole
    <2>2. \A j \in Positions \ {i} : Commissions(b)[j] = Commissions(a)[j]
      BY <1>3 DEF Commissions
    <2>3. PICK d \in Int : d = c
      BY <1>8
    <2>4. Commissions(b)[i] = Commissions(a)[i] + d
      BY <1>8, <2>3
    <2> QED BY <2>1, <2>2, <2>3, <2>4, PositionsFinite, TotalRaised
  <1>11. Total(Holdings(a, prices), Positions) \in Int /\ Total(Commissions(a), Positions) \in Int
    <2>1. Whole(Holdings(a, prices), Positions)
      <3>1. a \in Portfolios
        BY <1>1
      <3>2. \A j \in Positions : Holdings(a, prices)[j] \in Int
        BY <3>1, HoldingsNat
      <3> QED BY <3>2 DEF Whole
    <2>2. Whole(Commissions(a), Positions)
      BY <1>1, CommissionsNat DEF Whole
    <2> QED BY <2>1, <2>2, PositionsFinite, TotalInt
  <1>12. Worth(b, prices) = Worth(account, prices) - Total(Commissions(b), Positions)
    <2>1. Worth(a, prices) = Worth(account, prices) - Total(Commissions(a), Positions)
      BY DEF SoFar
    <2>2. Worth(a, prices) = x + Total(Holdings(a, prices), Positions) /\ Worth(b, prices) = y + Total(Holdings(b, prices), Positions)
      BY <1>5, WorthIs
    <2>3. Worth(account, prices) \in Int
      BY WorthNat
    <2> QED BY <1>6, <1>7, <1>8, <1>9, <1>10, <1>11, <2>1, <2>2, <2>3
  <1>13. \A j \in Positions : j > i => b.held[j] = account.held[j]
    BY <1>1, <1>3 DEF SoFar
  <1>14. \A j \in Positions : j <= i => b.held[j] <= TargetQty(shares[j], account.value, prices[j])
    <2> SUFFICES ASSUME NEW j \in Positions, j <= i PROVE b.held[j] <= TargetQty(shares[j], account.value, prices[j])
      OBVIOUS
    <2>1. CASE j = i
      BY <1>1, <1>2, <2>1 DEF price
    <2>2. CASE j # i
      <3>1. j <= i - 1 /\ b.held[j] = a.held[j]
        BY <1>1, <1>3, <2>2
      <3> QED BY <3>1 DEF SoFar
    <2> QED BY <2>1, <2>2
  <1> QED BY <1>1, <1>2, <1>12, <1>13, <1>14 DEF SoFar, b, price

(* All symbols traded. *)
LEMMA AllTradedPays ==
  ASSUME account \in Portfolios, prices \in [Positions -> Quotes], NEW shares \in [Positions -> Nat]
  PROVE  SoFar(AllTraded(shares), Len(Symbols), shares)
  <1>1. PICK f : Along(f, shares) /\ AllTraded(shares) = f[Len(Symbols)]
    BY AlongExists
  <1> DEFINE n == Len(Symbols)  S == {i \in 0 .. n : SoFar(f[i], i, shares)}
  <1>2. n \in Nat /\ Positions = 1 .. n
    BY PositionsFinite DEF Positions
  <1>3. 0 \in S
    <2>1. f[0] = account
      BY <1>1, <1>2 DEF Along
    <2>2. \A j \in Positions : Commissions(account)[j] = 0
      BY CommissionsNat
    <2>3. Total(Commissions(account), Positions) = 0
      BY <2>2, PositionsFinite, TotalZero
    <2>4. Worth(account, prices) = Worth(account, prices) - 0
      BY WorthNat
    <2>5. \A j \in Positions : ~(j <= 0)
      BY <1>2
    <2>6. SoFar(account, 0, shares)
      BY <2>3, <2>4, <2>5 DEF SoFar
    <2> QED BY <1>2, <2>1, <2>6
  <1>4. ASSUME NEW i \in 1 .. n, i - 1 \in S PROVE i \in S
    <2>1. SoFar(f[i - 1], i - 1, shares) /\ i \in Positions
      BY <1>2, <1>4
    <2>2. f[i] = TradeOne(f[i - 1], i, shares[i], prices[i])
      BY <1>1, <1>2 DEF Along
    <2>3. PICK a : a = f[i - 1]
      OBVIOUS
    <2>4. SoFar(TradeOne(a, i, shares[i], prices[i]), i, shares)
      BY <2>1, <2>3, OneFurther
    <2> QED BY <1>2, <2>2, <2>3, <2>4
  <1>5. 0 .. n \subseteq S
    <2> HIDE DEF S
    <2> QED BY <1>2, <1>3, <1>4, CountUp
  <1>6. n \in S
    BY <1>2, <1>5
  <1> QED BY <1>1, <1>6

Grades == {"none", "made", "partly", "trained"}
Trainers == [ppo : Grades, sac : Grades, saved : Grades, alone : Grades, file : Grades]

PortfolioInv ==
  /\ prices \in [Positions -> Quotes] /\ valuedAt \in [Positions -> Quotes] /\ account \in Portfolios
  /\ before \in Nat /\ moves \in Int /\ paid \in Int /\ uneven \in BOOLEAN
  /\ WorthExplained /\ ShareCapped /\ LotsUnlessCut /\ ValueIsWorth
  /\ trainer \in Trainers /\ (trainer.sac # "none" => trainer.ppo = "trained")
  /\ FineTunedLast

LEMMA NewAccountSound ==
  ASSUME NEW p \in [Positions -> Quotes]
  PROVE  /\ NewAccount \in Portfolios /\ NewAccount.value = StartingCash * Parts
         /\ NewAccount.value = Worth(NewAccount, p)
         /\ \A i \in Positions : NewAccount.held[i] = 0
  <1>1. StartingCash * Parts \in Nat
    BY PortfolioAssumption, ProductNat
  <1>2. [i \in Positions |-> 0] \in [Positions -> Nat]
    OBVIOUS
  <1>3. NewAccount \in Portfolios /\ NewAccount.value = StartingCash * Parts /\ NewAccount.cash = StartingCash * Parts
        /\ NewAccount.held = [i \in Positions |-> 0]
    BY <1>1, <1>2 DEF NewAccount, Portfolios
  <1>4. \A i \in Positions : NewAccount.held[i] = 0
    BY <1>3
  <1>5. \A i \in Positions : Holdings(NewAccount, p)[i] = 0
    <2> SUFFICES ASSUME NEW i \in Positions PROVE Holdings(NewAccount, p)[i] = 0
      OBVIOUS
    <2>1. Holdings(NewAccount, p)[i] = Parts * NewAccount.held[i] * p[i]
      BY <1>3, HoldingsNat
    <2>2. p[i] \in Quotes /\ Quotes \subseteq Nat /\ Parts \in Nat
      BY PortfolioAssumption
    <2>3. PICK x \in Nat, y \in Nat : x = p[i] /\ y = Parts
      BY <2>2
    <2>4. y * 0 * x = 0
      BY <2>3
    <2> QED BY <1>4, <2>1, <2>3, <2>4
  <1>6. Total(Holdings(NewAccount, p), Positions) = 0
    BY <1>5, PositionsFinite, TotalZero
  <1>7. Worth(NewAccount, p) = StartingCash * Parts + 0
    BY <1>3, <1>6, WorthIs
  <1> QED BY <1>1, <1>3, <1>4, <1>7

LEMMA CapOfNothing ==
  ASSUME NEW p \in [Positions -> Quotes], NEW v \in Nat
  PROVE  \A i \in Positions : 10 * Parts * 0 * p[i] <= MaxShare * v
  <1> SUFFICES ASSUME NEW i \in Positions PROVE 10 * Parts * 0 * p[i] <= MaxShare * v
    OBVIOUS
  <1>1. p[i] \in Quotes /\ Quotes \subseteq Nat /\ Parts \in Nat
    BY PortfolioAssumption
  <1>2. PICK x \in Nat, y \in Nat : x = p[i] /\ y = Parts
    BY <1>1
  <1>3. 10 * y * 0 * x = 0
    BY <1>2
  <1>4. MaxShare * v \in Nat
    BY PortfolioAssumption, ProductNat
  <1> QED BY <1>2, <1>3, <1>4

LEMMA PortfolioInvInit == PortfolioInit => PortfolioInv
  <1> SUFFICES ASSUME PortfolioInit PROVE PortfolioInv
    OBVIOUS
  <1> USE DEF PortfolioInit
  <1>1. NewAccount \in Portfolios /\ NewAccount.value = StartingCash * Parts /\ NewAccount.value = Worth(NewAccount, prices)
        /\ \A i \in Positions : NewAccount.held[i] = 0
    BY NewAccountSound
  <1>2. account \in Portfolios /\ before \in Nat /\ moves \in Int /\ paid \in Int /\ uneven \in BOOLEAN
    <2>1. PICK b : b = NewAccount
      OBVIOUS
    <2>2. b \in Portfolios /\ b.value \in Nat
      BY <1>1, <2>1 DEF Portfolios
    <2>3. 0 \in Int /\ FALSE \in BOOLEAN
      OBVIOUS
    <2> QED BY <2>1, <2>2, <2>3
  <1>3. WorthExplained
    <2>1. StartingCash * Parts \in Nat
      BY PortfolioAssumption, ProductNat
    <2> QED BY <1>1, <2>1 DEF WorthExplained
  <1>4. ShareCapped
    BY <1>1, <1>2, CapOfNothing, Zenon DEF ShareCapped
  <1>5. LotsUnlessCut
    <2>1. 0 % LotSize = 0
      BY PortfolioAssumption
    <2> QED BY <1>1, <2>1 DEF LotsUnlessCut
  <1>6. ValueIsWorth
    BY <1>1 DEF ValueIsWorth
  <1>7. trainer \in Trainers /\ (trainer.sac # "none" => trainer.ppo = "trained") /\ FineTunedLast
    BY DEF FineTunedLast, Trainers, Grades
  <1> QED BY <1>2, <1>3, <1>4, <1>5, <1>6, <1>7 DEF PortfolioInv

LEMMA TradingKeeps == ASSUME PortfolioInv, StepTrading PROVE PortfolioInv'
  <1>1. PICK shares \in [Positions -> TargetShares] :
          LET after == AllTraded(shares)
              cut(i) == after.held[i] # account.held[i] /\ after.held[i] # Uncapped(shares[i], account.value, prices[i])
          IN  /\ account' = [after EXCEPT !.value = Worth(after, prices)]
              /\ moves' = moves + Worth(account, prices) - Worth(account, valuedAt)
              /\ paid' = paid + MapThenSumSet(LAMBDA i : Commissions(after)[i], Positions)
              /\ uneven' = (uneven \/ \E i \in Positions : cut(i))
    BY DEF StepTrading
  <1> DEFINE after == AllTraded(shares)
  <1>2. shares \in [Positions -> Nat]
    BY DEF TargetShares
  <1>3. prices \in [Positions -> Quotes] /\ valuedAt \in [Positions -> Quotes] /\ account \in Portfolios /\ moves \in Int /\ paid \in Int
        /\ uneven \in BOOLEAN
    BY DEF PortfolioInv
  <1>4. SoFar(after, Len(Symbols), shares)
    BY <1>2, <1>3, AllTradedPays
  <1>5. /\ account' = [after EXCEPT !.value = Worth(after, prices)]
        /\ moves' = moves + Worth(account, prices) - Worth(account, valuedAt)
        /\ paid' = paid + Total(Commissions(after), Positions)
        /\ uneven' = (uneven \/ \E i \in Positions : after.held[i] # account.held[i]
                                                     /\ after.held[i] # Uncapped(shares[i], account.value, prices[i]))
    BY <1>1 DEF Total
  <1> HIDE DEF after
  <1>6. valuedAt' = prices /\ before' = account.value /\ prices' \in [Positions -> Quotes] /\ trainer' = trainer
    BY <1>3 DEF StepTrading, Advance
  <1>7. after \in Portfolios /\ (\A j \in Positions : after.held[j] <= TargetQty(shares[j], account.value, prices[j]))
        /\ Worth(after, prices) = Worth(account, prices) - Total(Commissions(after), Positions)
    <2>1. \A j \in Positions : j <= Len(Symbols)
      BY DEF Positions
    <2> QED BY <1>4, <2>1 DEF SoFar
  <1>8. PICK w \in Nat : w = Worth(after, prices)
    BY <1>3, <1>7, WorthNat
  <1>9. account' \in Portfolios /\ account'.cash = after.cash /\ account'.held = after.held /\ account'.value = w
    BY <1>5, <1>7, <1>8 DEF Portfolios
  <1>10. before' \in Nat /\ uneven' \in BOOLEAN /\ account.value \in Nat
    BY <1>3, <1>5, <1>6 DEF Portfolios
  <1>11. PICK c \in Int : c = Total(Commissions(after), Positions)
    <2>1. Whole(Commissions(after), Positions)
      BY <1>3, <1>7, CommissionsNat DEF Whole
    <2>2. Total(Commissions(after), Positions) \in Int
      BY <2>1, PositionsFinite, TotalInt
    <2> QED BY <2>2
  <1>12. PICK u \in Nat, v \in Nat : u = Worth(account, prices) /\ v = Worth(account, valuedAt)
    BY <1>3, WorthNat
  <1>13. moves' = moves + u - v /\ paid' = paid + c /\ w = u - c
    BY <1>5, <1>7, <1>8, <1>11, <1>12
  <1>14. WorthExplained'
    <2>1. account.value = v /\ account.value = StartingCash * Parts + moves - paid
      BY <1>12 DEF PortfolioInv, ValueIsWorth, WorthExplained
    <2>2. PICK s \in Nat : s = StartingCash * Parts
      BY PortfolioAssumption, ProductNat
    <2>3. account'.value = s + moves' - paid'
      BY <1>3, <1>9, <1>13, <2>1, <2>2
    <2> QED BY <2>2, <2>3 DEF WorthExplained
  <1>15. ShareCapped'
    <2> SUFFICES ASSUME NEW i \in Positions PROVE 10 * Parts * account'.held[i] * valuedAt'[i] <= MaxShare * before'
      BY DEF ShareCapped
    <2>1. prices[i] \in Nat \ {0} /\ shares[i] \in Nat /\ Parts \in Nat
      BY <1>2, <1>3, PortfolioAssumption
    <2>2. PICK t, y, m : t = TargetQty(shares[i], account.value, prices[i]) /\ y = prices[i] /\ m = MaxShare * account.value
      OBVIOUS
    <2>3. t \in Nat /\ 10 * Parts * t * y <= m
      BY <1>10, <2>1, <2>2, TargetCapped
    <2>4. PICK h \in Nat : h = account'.held[i]
      BY <1>7, <1>9 DEF Portfolios
    <2>5. h <= t
      BY <1>7, <1>9, <2>2, <2>4
    <2>6. y \in Nat /\ 10 * Parts \in Nat /\ m \in Nat
      BY <1>10, <2>1, <2>2, ProductNat, PortfolioAssumption
    <2>7. h * (10 * Parts) <= t * (10 * Parts)
      BY <2>3, <2>5, <2>6, ProductOrder
    <2>8. h * (10 * Parts) \in Nat /\ t * (10 * Parts) \in Nat
      BY <2>3, <2>6, ProductNat
    <2>9. PICK hp \in Nat, tp \in Nat : hp = h * (10 * Parts) /\ tp = t * (10 * Parts)
      BY <2>8
    <2>10. hp * y <= tp * y
      BY <2>6, <2>7, <2>9, ProductOrder
    <2>11. 10 * Parts * h * y = hp * y /\ 10 * Parts * t * y = tp * y
      BY <2>1, <2>3, <2>6, <2>9
    <2>12. hp * y \in Nat /\ tp * y \in Nat
      BY <2>6, ProductNat
    <2>13. 10 * Parts * h * y <= m
      BY <2>3, <2>6, <2>10, <2>11, <2>12
    <2> QED BY <1>6, <2>2, <2>4, <2>13
  <1>16. LotsUnlessCut'
    <2> SUFFICES ASSUME ~uneven', NEW i \in Positions PROVE account'.held[i] % LotSize = 0
      BY DEF LotsUnlessCut
    <2>1. ~uneven /\ (after.held[i] = account.held[i] \/ after.held[i] = Uncapped(shares[i], account.value, prices[i]))
      BY <1>5
    <2>2. account.held[i] % LotSize = 0
      BY <2>1 DEF PortfolioInv, LotsUnlessCut
    <2>3. Uncapped(shares[i], account.value, prices[i]) % LotSize = 0
      <3>1. shares[i] \in Nat /\ prices[i] \in Nat \ {0} /\ Parts \in Nat \ {0} /\ LotSize \in Nat \ {0}
        BY <1>2, <1>3, PortfolioAssumption
      <3>2. shares[i] * account.value \in Nat /\ 8 * Parts * prices[i] \in Nat \ {0}
        BY <1>10, <3>1, ProductNat
      <3>3. PICK a \in Nat : a = (shares[i] * account.value) \div (8 * Parts * prices[i])
        BY <3>2, Quotient
      <3>4. PICK q \in Nat : q = a \div LotSize
        BY <3>1, Quotient
      <3>5. (q * LotSize) % LotSize = 0
        BY <3>1, MultipleDivides
      <3> QED BY <3>3, <3>4, <3>5 DEF Uncapped
    <2> QED BY <1>9, <2>1, <2>2, <2>3
  <1>17. ValueIsWorth'
    <2>1. Worth(account', prices) = w
      <3>1. Holdings(account', prices) = Holdings(after, prices)
        BY <1>9 DEF Holdings
      <3> QED BY <1>8, <1>9, <3>1, WorthIs
    <2> QED BY <1>6, <1>9, <2>1 DEF ValueIsWorth
  <1>18. (trainer \in Trainers /\ (trainer.sac # "none" => trainer.ppo = "trained") /\ FineTunedLast)'
    BY <1>6 DEF PortfolioInv, FineTunedLast
  <1>19. prices' \in [Positions -> Quotes] /\ valuedAt' \in [Positions -> Quotes] /\ moves' \in Int /\ paid' \in Int
    BY <1>3, <1>6, <1>13
  <1> QED BY <1>9, <1>10, <1>14, <1>15, <1>16, <1>17, <1>18, <1>19 DEF PortfolioInv

LEMMA RestKeeps ==
  ASSUME PortfolioInv, UNCHANGED <<account, valuedAt, before, moves, paid, uneven, trainer>>, prices' \in [Positions -> Quotes]
  PROVE  PortfolioInv'
  <1>1. WorthExplained' /\ ShareCapped' /\ LotsUnlessCut' /\ FineTunedLast'
    BY DEF PortfolioInv, WorthExplained, ShareCapped, LotsUnlessCut, FineTunedLast
  <1>2. ValueIsWorth'
    BY DEF PortfolioInv, ValueIsWorth
  <1> QED BY <1>1, <1>2 DEF PortfolioInv

LEMMA TrainerKeeps == ASSUME PortfolioInv, TrainerNext PROVE PortfolioInv'
  <1>1. UNCHANGED <<account, valuedAt, before, moves, paid, uneven, prices>>
    BY DEF TrainerNext
  <1>2. /\ trainer' \in Trainers
        /\ trainer'.sac # "none" => trainer'.ppo = "trained"
        /\ trainer'.saved # "none" => trainer'.ppo = "trained"
    <2> DEFINE t == trainer
    <2>1. t \in Trainers /\ (t.sac # "none" => t.ppo = "trained") /\ (t.saved # "none" => t.ppo = "trained")
      BY DEF PortfolioInv, FineTunedLast
    <2>2. CASE TrainPpo
      <3>1. PICK g \in {"trained", "partly"} : t' = [t EXCEPT !["ppo"] = g]
        BY <2>2 DEF TrainPpo, TrainModel
      <3>2. t.ppo = "none" /\ g \in Grades
        BY <2>2 DEF TrainPpo, Grades
      <3> HIDE DEF t
      <3> QED BY <2>1, <3>1, <3>2 DEF Trainers, t
    <2>3. CASE TrainSac
      <3>1. PICK g \in {"trained", "partly"} : t' = [t EXCEPT !["sac"] = g]
        BY <2>3 DEF TrainSac, TrainModel
      <3>2. t.ppo = "trained" /\ g \in Grades
        BY <2>3 DEF TrainSac, Grades
      <3> HIDE DEF t
      <3> QED BY <2>1, <3>1, <3>2 DEF Trainers, t
    <2>4. CASE SaveFinal
      BY <2>1, <2>4 DEF SaveFinal, Trainers
    <2>5. CASE MakeModel
      BY <2>1, <2>5 DEF MakeModel, Trainers, Grades
    <2>6. CASE TrainAlone
      <3>1. PICK g \in {"trained", "partly"} : t' = [t EXCEPT !["alone"] = g]
        BY <2>6 DEF TrainAlone, TrainModel
      <3>2. g \in Grades
        BY DEF Grades
      <3> QED BY <2>1, <3>1, <3>2 DEF Trainers
    <2>7. CASE SaveAlone
      BY <2>1, <2>7 DEF SaveAlone, Trainers
    <2>8. CASE LoadAlone
      BY <2>1, <2>8 DEF LoadAlone, Trainers
    <2> QED BY <2>2, <2>3, <2>4, <2>5, <2>6, <2>7, <2>8 DEF TrainerNext
  <1>3. WorthExplained' /\ ShareCapped' /\ LotsUnlessCut'
    BY <1>1 DEF PortfolioInv, WorthExplained, ShareCapped, LotsUnlessCut
  <1>4. ValueIsWorth'
    BY <1>1 DEF PortfolioInv, ValueIsWorth
  <1> QED BY <1>1, <1>2, <1>3, <1>4 DEF PortfolioInv, FineTunedLast

LEMMA PortfolioResets == ASSUME PortfolioInv, ResetPortfolio PROVE PortfolioInv'
  <1> USE DEF ResetPortfolio
  <1>1. NewAccount \in Portfolios /\ NewAccount.value = StartingCash * Parts /\ NewAccount.value = Worth(NewAccount, prices')
        /\ \A i \in Positions : NewAccount.held[i] = 0
    BY NewAccountSound
  <1>2. account' \in Portfolios /\ before' \in Nat /\ moves' \in Int /\ paid' \in Int /\ uneven' \in BOOLEAN
    <2>1. PICK b : b = NewAccount
      OBVIOUS
    <2>2. b \in Portfolios /\ b.value \in Nat
      BY <1>1, <2>1 DEF Portfolios
    <2>3. 0 \in Int /\ FALSE \in BOOLEAN
      OBVIOUS
    <2> QED BY <2>1, <2>2, <2>3
  <1>3. WorthExplained'
    <2>1. StartingCash * Parts \in Nat
      BY PortfolioAssumption, ProductNat
    <2> QED BY <1>1, <2>1 DEF WorthExplained
  <1>4. ShareCapped'
    <2>1. \A i \in Positions : 10 * Parts * 0 * valuedAt'[i] <= MaxShare * before'
      BY <1>2, CapOfNothing
    <2> QED BY <1>1, <2>1, Zenon DEF ShareCapped
  <1>5. LotsUnlessCut'
    <2>1. 0 % LotSize = 0
      BY PortfolioAssumption
    <2> QED BY <1>1, <2>1 DEF LotsUnlessCut
  <1>6. ValueIsWorth'
    BY <1>1 DEF ValueIsWorth
  <1>7. (trainer \in Trainers /\ (trainer.sac # "none" => trainer.ppo = "trained") /\ FineTunedLast)'
    BY DEF PortfolioInv, FineTunedLast
  <1> QED BY <1>2, <1>3, <1>4, <1>5, <1>6, <1>7 DEF PortfolioInv

(* The portfolio the policy studies on never spends cash it lacks, its worth is explained by price     *)
(* moves and commissions, no position grows above its share, and the second trainer only refines a     *)
(* trained first one, for any symbols, lots and cash (rl/policy_trainer.py).                           *)
THEOREM PortfolioIsSound == PortfolioSpec => []PortfolioSound
  <1>1. PortfolioInv /\ [PortfolioNext]_portfolioVars => PortfolioInv'
    <2> SUFFICES ASSUME PortfolioInv, [PortfolioNext]_portfolioVars PROVE PortfolioInv'
      OBVIOUS
    <2>1. CASE StepTrading
      BY <2>1, TradingKeeps
    <2>2. CASE StepClosed
      BY <2>2, RestKeeps DEF StepClosed, Advance, PortfolioInv
    <2>3. CASE ResetPortfolio
      BY <2>3, PortfolioResets
    <2>4. CASE TrainerNext
      BY <2>4, TrainerKeeps
    <2>5. CASE UNCHANGED portfolioVars
      BY <2>5, RestKeeps DEF portfolioVars, PortfolioInv
    <2> QED BY <2>1, <2>2, <2>3, <2>4, <2>5 DEF PortfolioNext
  <1>2. PortfolioInv => PortfolioSound
    BY DEF PortfolioInv, PortfolioSound, NeverOverdrawn, Portfolios
  <1> QED BY PortfolioInvInit, <1>1, <1>2, PTL DEF PortfolioSpec

-----------------------------------------------------------------------------
(* The readers of the market's regime. *)

(* Two histories of which the shorter is the end of the longer, and long enough for a window, show *)
(* the same window.                                                                                *)
EndOf(t, s, w) ==
  /\ Len(t) <= Len(s) /\ (Len(t) = Len(s) \/ Len(t) >= w)
  /\ \A i \in 1 .. Len(t) : t[i] = s[Len(s) - Len(t) + i]

LEMMA SameWindow ==
  ASSUME NEW X, NEW s \in Seq(X), NEW t \in Seq(X), NEW w \in Nat \ {0}, EndOf(t, s, w)
  PROVE  AtMost(t, w) = AtMost(s, w)
  <1> DEFINE m == Len(t)  n == Len(s)
  <1>1. m \in Nat /\ n \in Nat /\ m <= n /\ (m = n \/ m >= w)
    BY DEF EndOf
  <1>2. \A i \in 1 .. m : t[i] = s[n - m + i]
    BY DEF EndOf
  <1>3. CASE m = n
    <2>1. \A i \in 1 .. n : t[i] = s[i]
      BY <1>1, <1>2, <1>3
    <2>2. t = s
      BY <1>3, <2>1, SeqEqual
    <2> QED BY <2>2
  <1>4. CASE m # n /\ m = w
    <2>1. AtMost(t, w) = t /\ AtMost(s, w) = SubSeq(s, n - w + 1, n)
      BY <1>1, <1>4 DEF AtMost, LatestOf
    <2>2. SubSeq(s, n - w + 1, n) \in Seq(X) /\ Len(SubSeq(s, n - w + 1, n)) = w
          /\ \A i \in 1 .. w : SubSeq(s, n - w + 1, n)[i] = s[n - w + i]
      BY <1>1, <1>4
    <2>3. t = SubSeq(s, n - w + 1, n)
      BY <1>2, <1>4, <2>2, SeqEqual
    <2> QED BY <2>1, <2>3
  <1>5. CASE m # n /\ m # w
    <2>1. AtMost(t, w) = SubSeq(t, m - w + 1, m) /\ AtMost(s, w) = SubSeq(s, n - w + 1, n)
      BY <1>1, <1>5 DEF AtMost, LatestOf
    <2>2. SubSeq(s, n - w + 1, n) \in Seq(X) /\ Len(SubSeq(s, n - w + 1, n)) = w
          /\ \A i \in 1 .. w : SubSeq(s, n - w + 1, n)[i] = s[n - w + i]
      BY <1>1, <1>5
    <2>3. SubSeq(t, m - w + 1, m) \in Seq(X) /\ Len(SubSeq(t, m - w + 1, m)) = w
          /\ \A i \in 1 .. w : SubSeq(t, m - w + 1, m)[i] = t[m - w + i]
      BY <1>1, <1>5
    <2>4. \A i \in 1 .. w : t[m - w + i] = s[n - w + i]
      <3> SUFFICES ASSUME NEW i \in 1 .. w PROVE t[m - w + i] = s[n - w + i]
        OBVIOUS
      <3>1. m - w + i \in 1 .. m /\ n - m + (m - w + i) = n - w + i
        BY <1>1, <1>5
      <3> HIDE DEF m, n
      <3> QED BY <1>2, <3>1
    <2>5. SubSeq(t, m - w + 1, m) = SubSeq(s, n - w + 1, n)
      BY <2>2, <2>3, <2>4, SeqEqual
    <2> QED BY <2>1, <2>5
  <1> QED BY <1>3, <1>4, <1>5

(* What is appended to both is the end of both. *)
LEMMA EndGrows ==
  ASSUME NEW X, NEW s \in Seq(X), NEW t \in Seq(X), NEW w \in Nat, EndOf(t, s, w), NEW x \in X
  PROVE  EndOf(Append(t, x), Append(s, x), w)
  <1> DEFINE t1 == Append(t, x)  s1 == Append(s, x)
  <1>1. Len(t1) = Len(t) + 1 /\ Len(s1) = Len(s) + 1 /\ Len(t) \in Nat /\ Len(s) \in Nat
    OBVIOUS
  <1>2. ASSUME NEW i \in 1 .. Len(t1) PROVE t1[i] = s1[Len(s1) - Len(t1) + i]
    <2>1. Len(s1) - Len(t1) + i = Len(s) - Len(t) + i
      BY <1>1
    <2>2. CASE i = Len(t) + 1
      BY <1>1, <2>1, <2>2
    <2>3. CASE i # Len(t) + 1
      <3>1. i \in 1 .. Len(t) /\ Len(s) - Len(t) + i \in 1 .. Len(s)
        BY <1>1, <2>3 DEF EndOf
      <3>2. t1[i] = t[i] /\ s1[Len(s) - Len(t) + i] = s[Len(s) - Len(t) + i]
        BY <3>1
      <3>3. t[i] = s[Len(s) - Len(t) + i]
        BY <3>1 DEF EndOf
      <3> QED BY <2>1, <3>2, <3>3
    <2> QED BY <2>2, <2>3
  <1>3. Len(t1) <= Len(s1) /\ (Len(t1) = Len(s1) \/ Len(t1) >= w)
    BY <1>1 DEF EndOf
  <1> HIDE DEF t1, s1
  <1>4. EndOf(t1, s1, w)
    BY <1>2, <1>3 DEF EndOf
  <1> QED BY <1>4 DEF t1, s1

(* The end of an end. *)
LEMMA EndCut ==
  ASSUME NEW X, NEW s \in Seq(X), NEW t \in Seq(X), NEW w \in Nat \ {0}, EndOf(t, s, w), Len(t) >= w
  PROVE  /\ EndOf(LatestOf(t, w), s, w) /\ LatestOf(t, w) \in Seq(X) /\ Len(LatestOf(t, w)) = w
         /\ LatestOf(t, w)[w] = t[Len(t)]
  <1> DEFINE m == Len(t)  n == Len(s)  c == LatestOf(t, w)
  <1>1. m \in Nat /\ n \in Nat /\ m <= n /\ m >= w
    BY DEF EndOf
  <1>2. c \in Seq(X) /\ Len(c) = w /\ \A i \in 1 .. w : c[i] = t[m - w + i]
    BY <1>1 DEF LatestOf
  <1>3. ASSUME NEW i \in 1 .. w PROVE c[i] = s[n - w + i]
    <2>1. m - w + i \in 1 .. m /\ n - m + (m - w + i) = n - w + i
      BY <1>1
    <2>2. c[i] = t[m - w + i]
      BY <1>2
    <2>3. t[m - w + i] = s[n - m + (m - w + i)]
      <3> HIDE DEF c
      <3> QED BY <2>1 DEF EndOf
    <2> QED BY <2>1, <2>2, <2>3
  <1>4. c[w] = t[m - w + w] /\ m - w + w = m
    BY <1>1, <1>2
  <1> HIDE DEF c
  <1>5. EndOf(c, s, w)
    BY <1>1, <1>2, <1>3 DEF EndOf
  <1> QED BY <1>2, <1>4, <1>5 DEF c

Priced == Nat \ {0}

LEMMA MoveTyped == ASSUME NEW a \in Priced, NEW b \in Priced PROVE MoveBetween(a, b) \in Int
  <1>1. a \in Nat /\ a > 0 /\ 1000 * (b - a) \in Int
    BY DEF Priced
  <1> QED BY <1>1 DEF MoveBetween

(* The moves between the prices of a tape, and what one price more adds to them. *)
LEMMA MovesTyped ==
  ASSUME NEW p \in Seq(Priced)
  PROVE  /\ Moves(p) \in Seq(Int)
         /\ p # <<>> => Len(Moves(p)) = Len(p) - 1
         /\ Len(p) <= 1 => Moves(p) = <<>>
  <1> DEFINE n == Len(p) - 1
  <1>1. CASE Len(p) <= 1
    <2>1. 1 .. n = 1 .. 0
      BY <1>1
    <2>2. Moves(p) \in [1 .. 0 -> Int]
      BY <2>1 DEF Moves
    <2>3. Moves(p) \in Seq(Int) /\ Len(Moves(p)) = 0
      BY <2>2
    <2>4. p # <<>> => Len(p) - 1 = 0
      <3>1. p # <<>> => Len(p) \in Nat \ {0}
        BY EmptySeq
      <3>2. PICK k : k = Len(p)
        OBVIOUS
      <3>3. k \in Nat /\ k <= 1 /\ (k # 0 => k = 1)
        BY <1>1, <3>2
      <3> QED BY <3>1, <3>2, <3>3
    <2> QED BY <2>3, <2>4
  <1>2. CASE Len(p) > 1
    <2>1. n \in Nat /\ \A i \in 1 .. n : p[i] \in Priced /\ p[i + 1] \in Priced
      BY <1>2
    <2>2. \A i \in 1 .. n : MoveBetween(p[i], p[i + 1]) \in Int
      BY <2>1, MoveTyped
    <2>3. Moves(p) \in [1 .. n -> Int]
      BY <2>2 DEF Moves
    <2> HIDE DEF n
    <2>4. Moves(p) \in Seq(Int) /\ Len(Moves(p)) = n
      BY <2>1, <2>3
    <2> QED BY <1>2, <2>4 DEF n
  <1> QED BY <1>1, <1>2

LEMMA NoMoves == Moves(<<>>) = <<>>
  <1>1. PICK e : e = <<>>
    OBVIOUS
  <1>2. e \in Seq(Priced) /\ Len(e) <= 1
    BY <1>1, EmptySeq
  <1>3. Moves(e) = <<>>
    BY <1>2, MovesTyped
  <1> QED BY <1>1, <1>3

LEMMA MovesGrow ==
  ASSUME NEW p \in Seq(Priced), p # <<>>, NEW x \in Priced
  PROVE  Moves(Append(p, x)) = Append(Moves(p), MoveBetween(p[Len(p)], x))
  <1> DEFINE q == Append(p, x)  n == Len(p)  mv == MoveBetween(p[n], x)
             a == Moves(q)  b == Append(Moves(p), mv)
  <1>1. n \in Nat /\ n >= 1 /\ q \in Seq(Priced) /\ Len(q) = n + 1 /\ q # <<>>
    OBVIOUS
  <1>2. Moves(p) \in Seq(Int) /\ Len(Moves(p)) = n - 1 /\ a \in Seq(Int) /\ Len(a) = n
    <2>1. Moves(p) \in Seq(Int) /\ Len(Moves(p)) = n - 1
      BY MovesTyped
    <2>2. a \in Seq(Int) /\ Len(a) = Len(q) - 1
      <3> HIDE DEF q
      <3> QED BY <1>1, MovesTyped
    <2> QED BY <1>1, <2>1, <2>2
  <1>3. mv \in Int
    BY <1>1, MoveTyped
  <1>4. b \in Seq(Int) /\ Len(b) = n
    BY <1>1, <1>2, <1>3
  <1>5. ASSUME NEW i \in 1 .. n PROVE a[i] = b[i]
    <2>1. a[i] = MoveBetween(q[i], q[i + 1])
      BY <1>1 DEF Moves
    <2>2. CASE i = n
      <3>1. q[i] = p[n] /\ q[i + 1] = x
        BY <1>1, <2>2
      <3>2. b[i] = mv
        BY <1>2, <2>2
      <3> QED BY <2>1, <3>1, <3>2
    <2>3. CASE i # n
      <3>1. i \in 1 .. n - 1 /\ q[i] = p[i] /\ q[i + 1] = p[i + 1]
        BY <1>1, <2>3
      <3>2. b[i] = Moves(p)[i]
        BY <1>2, <3>1
      <3>3. Moves(p)[i] = MoveBetween(p[i], p[i + 1])
        BY <3>1 DEF Moves
      <3> QED BY <2>1, <3>1, <3>2, <3>3
    <2> QED BY <2>2, <2>3
  <1> HIDE DEF a, b
  <1>6. a = b
    BY <1>2, <1>4, <1>5, SeqEqual
  <1> QED BY <1>6 DEF a, b

DetectorVerdicts == {"ranging", "trending", "volatile", "crash"}
RouterVerdicts == {"BULL", "BEAR", "SIDEWAYS"}

(* The classification sees the last window, and whether there are returns enough. *)
LEMMA ClassifiedSame ==
  ASSUME NEW r \in Seq(Int), NEW p \in Seq(Priced), NEW rr \in Seq(Int), NEW pp \in Seq(Priced),
         EndOf(r, rr, WindowSize), EndOf(p, pp, WindowSize)
  PROVE  Classified(r, p) = Classified(rr, pp)
  <1>1. AtMost(r, WindowSize) = AtMost(rr, WindowSize)
    BY SameWindow, RegimesAssumption
  <1>2. AtMost(p, WindowSize) = AtMost(pp, WindowSize)
    BY SameWindow, RegimesAssumption
  <1>3. Len(r) < MinReturns <=> Len(rr) < MinReturns
    BY RegimesAssumption DEF EndOf
  <1> QED BY <1>1, <1>2, <1>3 DEF Classified

LEMMA ClassifiedTyped == ASSUME NEW r, NEW p PROVE Classified(r, p) \in DetectorVerdicts
  BY DEF Classified, DetectorVerdicts

LEMMA RoutedTyped == ASSUME NEW tape PROVE Routed(tape) \in RouterVerdicts
  BY DEF Routed, RouterVerdicts

-----------------------------------------------------------------------------
(* The inductive invariant.  The detector keeps the end of what it heard and of the moves in it. *)
HeardTyped ==
  /\ view \in {"window", "router", "hidden"}
  /\ heard \in Seq(QuotePrices) /\ Len(heard) <= MaxQuotes

WindowInv ==
  view = "window" =>
    /\ heard \in Seq(Priced) /\ priced \in Seq(Priced) /\ returned \in Seq(Int)
    /\ EndOf(priced, heard, WindowSize) /\ EndOf(returned, Moves(heard), WindowSize)
    /\ Len(priced) <= 2 * WindowSize
    /\ (priced = <<>> <=> heard = <<>>)
    /\ verdict = IF heard = <<>> THEN "ranging" ELSE Classified(Moves(heard), heard)

RouterInv == view = "router" => verdict \in RouterVerdicts /\ priced = <<>>

HiddenInv ==
  /\ view = "hidden" => verdict = "ranging" /\ priced = <<>>
  /\ view # "hidden" => hidden.means = <<>> /\ transitions = <<>>
  /\ hidden = [n |-> hidden.n, means |-> hidden.means, regime |-> hidden.regime] /\ hidden.n \in Nat
  /\ hidden.means # <<>> =>
       /\ hidden.means \in MeansOf(hidden.n) /\ hidden.regime = MappingOf(hidden.means)
       /\ returned \in Seq(HiddenStates)
  /\ hidden.means = <<>> /\ view = "hidden" => returned = <<>>

TransitionsInv ==
  /\ transitions \in Seq(Regimes \X Regimes)
  /\ regimeNow = <<>> => transitions = <<>>
  /\ regimeNow # <<>> => regimeNow[1].regime \in Regimes
  /\ TransitionsChain

RegimesInv == HeardTyped /\ WindowInv /\ RouterInv /\ HiddenInv /\ TransitionsInv

(* A price more, and a history cut when it holds more than two windows. *)
LEMMA DetectorKeeps ==
  ASSUME NEW price \in QuotePrices, HeardTyped, WindowInv, DetectorUpdate(price)
  PROVE  WindowInv'
  <1> DEFINE p == Append(priced, price)
             r == IF priced = <<>> THEN returned ELSE Append(returned, MoveBetween(Last(priced), price))
             over == Len(p) > 2 * WindowSize
             W == WindowSize
  <1>w. W \in Nat \ {0} /\ price \in Priced
    BY RegimesAssumption DEF DetectorUpdate, Priced
  <1>1. view = "window" /\ heard' = Append(heard, price) /\ view' = view
        /\ priced' = (IF over THEN LatestOf(p, W) ELSE p) /\ returned' = KeptReturns(r, over)
        /\ verdict' = Classified(returned', priced')
    BY DEF DetectorUpdate
  <1>2. heard \in Seq(Priced) /\ priced \in Seq(Priced) /\ returned \in Seq(Int)
        /\ EndOf(priced, heard, W) /\ EndOf(returned, Moves(heard), W)
        /\ Len(priced) <= 2 * W /\ (priced = <<>> <=> heard = <<>>)
    BY <1>1 DEF WindowInv
  <1>3. heard' \in Seq(Priced) /\ heard' # <<>> /\ Moves(heard') \in Seq(Int)
        /\ p \in Seq(Priced) /\ p # <<>> /\ Len(p) = Len(priced) + 1
    <2>1. heard' \in Seq(Priced) /\ heard' # <<>>
      BY <1>1, <1>2, <1>w
    <2>2. p \in Seq(Priced) /\ Len(p) = Len(priced) + 1 /\ Len(priced) \in Nat
      BY <1>2, <1>w
    <2>3. p # <<>>
      <3> HIDE DEF p
      <3> QED BY <2>2, EmptySeq
    <2> QED BY <2>1, <2>2, <2>3, MovesTyped
  <1>4. EndOf(p, heard', W)
    BY <1>1, <1>2, <1>w, EndGrows
  <1>5. r \in Seq(Int) /\ EndOf(r, Moves(heard'), W)
    <2>1. CASE priced = <<>>
      <3>1. heard = <<>> /\ Len(heard') = 1 /\ r = returned
        BY <1>1, <1>2, <2>1
      <3>2. Moves(heard) = <<>> /\ Moves(heard') = <<>>
        BY <1>2, <1>3, <3>1, MovesTyped
      <3> QED BY <1>2, <3>1, <3>2
    <2>2. CASE priced # <<>>
      <3> DEFINE x == MoveBetween(Last(priced), price)  y == MoveBetween(heard[Len(heard)], price)
      <3>1. heard # <<>> /\ Len(heard) \in Nat /\ Len(heard) >= 1 /\ Len(priced) \in Nat /\ Len(priced) >= 1
        BY <1>2, <2>2
      <3>2. Last(priced) = heard[Len(heard)]
        <4>1. Len(priced) \in 1 .. Len(priced) /\ Len(heard) - Len(priced) + Len(priced) = Len(heard)
          BY <3>1
        <4>2. priced[Len(priced)] = heard[Len(heard) - Len(priced) + Len(priced)]
          BY <1>2, <4>1 DEF EndOf
        <4> QED BY <4>1, <4>2 DEF Last
      <3>3. Moves(heard') = Append(Moves(heard), y) /\ x = y
        BY <1>1, <1>2, <1>w, <3>1, <3>2, MovesGrow
      <3>4. y \in Int
        <4>1. heard[Len(heard)] \in Priced
          BY <1>2, <3>1
        <4> QED BY <1>w, <4>1, MoveTyped
      <3>5. Moves(heard) \in Seq(Int)
        BY <1>2, MovesTyped
      <3> HIDE DEF x, y
      <3>6. EndOf(Append(returned, y), Append(Moves(heard), y), W)
        BY <1>2, <1>w, <3>4, <3>5, EndGrows
      <3>7. r = Append(returned, y)
        BY <2>2, <3>3 DEF x
      <3>8. Append(returned, y) \in Seq(Int)
        BY <1>2, <3>4
      <3> QED BY <1>2, <3>3, <3>6, <3>7, <3>8
    <2> QED BY <2>1, <2>2
  <1>6. Len(heard') = Len(heard) + 1 /\ Len(Moves(heard')) = Len(heard)
    <2>1. Len(heard') = Len(heard) + 1 /\ Len(heard) \in Nat
      BY <1>1, <1>2, <1>w
    <2>2. Len(Moves(heard')) = Len(heard') - 1
      BY <1>3, MovesTyped
    <2> QED BY <2>1, <2>2
  <1> HIDE DEF p, r, over
  <1>7. /\ priced' \in Seq(Priced) /\ EndOf(priced', heard', W) /\ priced' # <<>> /\ Len(priced') <= 2 * W
        /\ returned' \in Seq(Int) /\ EndOf(returned', Moves(heard'), W)
    <2>1. CASE over
      <3>1. Len(p) > 2 * W /\ Len(p) \in Nat
        BY <1>3, <2>1 DEF over
      <3>2. Len(r) >= W
        <4>1. CASE Len(r) = Len(Moves(heard'))
          <5>1. Len(heard) >= Len(priced) /\ Len(priced) \in Nat /\ Len(heard) \in Nat
            BY <1>2 DEF EndOf
          <5> QED BY <1>3, <1>6, <1>w, <3>1, <4>1, <5>1
        <4>2. CASE Len(r) # Len(Moves(heard'))
          BY <1>5, <4>2 DEF EndOf
        <4> QED BY <4>1, <4>2
      <3>3. priced' = LatestOf(p, W) /\ returned' = LatestOf(r, W)
        BY <1>1, <2>1 DEF KeptReturns
      <3>p. Len(p) >= W
        BY <1>w, <3>1
      <3>4. EndOf(priced', heard', W) /\ priced' \in Seq(Priced) /\ Len(priced') = W
        BY <1>3, <1>4, <1>w, <3>p, <3>3, EndCut
      <3>5. EndOf(returned', Moves(heard'), W) /\ returned' \in Seq(Int) /\ Len(returned') = W
        BY <1>3, <1>5, <1>w, <3>2, <3>3, EndCut
      <3>6. priced' # <<>>
        BY <1>w, <3>4
      <3> QED BY <1>w, <3>4, <3>5, <3>6
    <2>2. CASE ~over
      <3>1. priced' = p /\ returned' = r
        BY <1>1, <2>2 DEF KeptReturns
      <3>2. Len(p) <= 2 * W
        BY <1>3, <1>w, <2>2 DEF over
      <3> QED BY <1>3, <1>4, <1>5, <3>1, <3>2
    <2> QED BY <2>1, <2>2
  <1>8. verdict' = Classified(Moves(heard'), heard')
    <2>1. Classified(returned', priced') = Classified(Moves(heard'), heard')
      BY <1>3, <1>7, ClassifiedSame
    <2> QED BY <1>1, <2>1
  <1>9. view' = "window" /\ heard' # <<>>
    BY <1>1, <1>3
  <1> QED BY <1>3, <1>7, <1>8, <1>9 DEF WindowInv

(* The regimes that a route or a model can name, and what the mapping makes of a model's states. *)
LEMMA MappingTyped ==
  ASSUME NEW means
  PROVE  DOMAIN MappingOf(means) = DOMAIN means /\ \A s \in DOMAIN means : MappingOf(means)[s] \in Regimes
  BY DEF MappingOf, Regimes

(* The detector says nothing before it has heard a price. *)
LEMMA RegimesStart == RegimesInit => RegimesInv
  <1> SUFFICES ASSUME RegimesInit PROVE RegimesInv
    OBVIOUS
  <1>1. \E n \in HiddenCounts : hidden = NoModel(n)
    BY DEF RegimesInit
  <1>2. hidden.means = <<>> /\ hidden.n \in Nat
        /\ hidden = [n |-> hidden.n, means |-> hidden.means, regime |-> hidden.regime]
    BY <1>1, RegimesAssumption DEF NoModel
  <1>3. heard = <<>> /\ priced = <<>> /\ returned = <<>> /\ regimeNow = <<>> /\ transitions = <<>>
        /\ view \in {"window", "router", "hidden"} /\ verdict = IF view = "router" THEN "SIDEWAYS" ELSE "ranging"
    BY DEF RegimesInit
  <1>4. HeardTyped
    BY <1>3, RegimesAssumption DEF HeardTyped
  <1>5. WindowInv
    <2>1. <<>> \in Seq(Priced) /\ <<>> \in Seq(Int) /\ Len(<<>>) = 0
      BY EmptySeq
    <2>2. Moves(<<>>) = <<>>
      BY NoMoves
    <2>3. EndOf(<<>>, <<>>, WindowSize)
      BY <2>1 DEF EndOf
    <2> QED BY <1>3, <2>1, <2>2, <2>3, RegimesAssumption DEF WindowInv
  <1>6. RouterInv
    BY <1>3 DEF RouterInv, RouterVerdicts
  <1>7. HiddenInv
    BY <1>2, <1>3 DEF HiddenInv
  <1>8. TransitionsInv
    BY <1>3, EmptySeq DEF TransitionsInv, TransitionsChain
  <1> QED BY <1>4, <1>5, <1>6, <1>7, <1>8 DEF RegimesInv

(* A day whose state has another regime than the current one is one transition more. *)
LEMMA TransitionAdds ==
  ASSUME RegimesInv, NEW s \in HiddenStates, NEW prob \in Probabilities, UpdateRegime(s, prob)
  PROVE  TransitionsInv'
  <1> DEFINE regime == hidden.regime[s]  here == regimeNow[1].regime
             moved == regimeNow # <<>> /\ here # regime
  <1>1. hidden.means # <<>> /\ regimeNow' = <<[regime |-> regime, prob |-> prob]>>
        /\ transitions' = IF moved THEN Append(transitions, <<here, regime>>) ELSE transitions
    BY DEF UpdateRegime
  <1>2. regime \in Regimes
    <2>1. hidden.means \in MeansOf(hidden.n) /\ hidden.regime = MappingOf(hidden.means)
      BY <1>1 DEF RegimesInv, HiddenInv
    <2>2. DOMAIN hidden.means = HiddenStates
      BY <2>1 DEF MeansOf, HiddenStates
    <2> QED BY <2>1, <2>2, MappingTyped
  <1>3. transitions \in Seq(Regimes \X Regimes) /\ (regimeNow = <<>> => transitions = <<>>)
        /\ (regimeNow # <<>> => here \in Regimes) /\ TransitionsChain
    BY DEF RegimesInv, TransitionsInv
  <1>4. regimeNow' # <<>> /\ regimeNow'[1].regime = regime
    BY <1>1
  <1>5. CASE moved
    <2> DEFINE n == Len(transitions)  t == <<here, regime>>  q == Append(transitions, t)
    <2>1. t \in Regimes \X Regimes /\ t[1] = here /\ t[2] = regime /\ here # regime
      BY <1>2, <1>3, <1>5
    <2>2. q \in Seq(Regimes \X Regimes) /\ Len(q) = n + 1 /\ n \in Nat /\ q[n + 1] = t
          /\ \A i \in 1 .. n : q[i] = transitions[i]
      <3> HIDE DEF t
      <3> QED BY <1>3, <2>1
    <2>3. transitions' = q
      BY <1>1, <1>5
    <2>4. DOMAIN q = 1 .. n + 1 /\ DOMAIN transitions = 1 .. n
      BY <1>3, <2>2, LenProperties
    <2> HIDE DEF q, t, regime, here
    <2>5. \A i \in DOMAIN q : q[i][1] # q[i][2]
      <3> SUFFICES ASSUME NEW i \in 1 .. n + 1 PROVE q[i][1] # q[i][2]
        BY <2>4
      <3>1. CASE i = n + 1
        BY <2>1, <2>2, <3>1
      <3>2. CASE i # n + 1
        <4>1. i \in 1 .. n
          BY <2>2, <3>2
        <4>2. q[i] = transitions[i] /\ transitions[i][1] # transitions[i][2]
          BY <1>3, <2>2, <2>4, <4>1 DEF TransitionsChain
        <4> QED BY <4>2
      <3> QED BY <3>1, <3>2
    <2>6. \A i \in 1 .. Len(q) - 1 : q[i][2] = q[i + 1][1]
      <3> SUFFICES ASSUME NEW i \in 1 .. n PROVE q[i][2] = q[i + 1][1]
        BY <2>2
      <3>1. CASE i = n
        <4>1. transitions # <<>> /\ Last(transitions) = transitions[n]
          BY <2>2, <3>1, EmptySeq DEF Last
        <4>2. transitions[n][2] = here
          BY <1>3, <4>1 DEF TransitionsChain, here
        <4> QED BY <2>1, <2>2, <3>1, <4>2
      <3>2. CASE i # n
        <4>1. i \in 1 .. n - 1 /\ i + 1 \in 1 .. n
          BY <2>2, <3>2
        <4>2. q[i] = transitions[i] /\ q[i + 1] = transitions[i + 1]
          BY <2>2, <4>1
        <4>3. transitions[i][2] = transitions[i + 1][1]
          BY <1>3, <4>1 DEF TransitionsChain
        <4> QED BY <4>2, <4>3
      <3> QED BY <3>1, <3>2
    <2>7. Last(q)[2] = regime
      BY <2>1, <2>2 DEF Last
    <2> QED BY <1>2, <1>4, <2>2, <2>3, <2>5, <2>6, <2>7 DEF TransitionsInv, TransitionsChain
  <1>6. CASE ~moved
    <2>1. transitions' = transitions
      BY <1>1, <1>6
    <2>2. transitions # <<>> => regimeNow # <<>> /\ here = regime
      BY <1>3, <1>6
    <2> HIDE DEF regime, here
    <2>3. transitions # <<>> => Last(transitions)[2] = regime
      BY <1>3, <2>2 DEF TransitionsChain, here
    <2> QED BY <1>2, <1>3, <1>4, <2>1, <2>3 DEF TransitionsInv, TransitionsChain
  <1> QED BY <1>5, <1>6

(* One step of any of the three. *)
LEMMA RegimesKept == RegimesInv /\ [RegimesNext]_regimesVars => RegimesInv'
  <1> SUFFICES ASSUME RegimesInv, [RegimesNext]_regimesVars PROVE RegimesInv'
    OBVIOUS
  <1> USE DEF RegimesInv
  <1>1. ASSUME NEW price \in QuotePrices, DetectorUpdate(price) PROVE RegimesInv'
    <2>1. WindowInv'
      BY <1>1, DetectorKeeps
    <2>2. view = "window" /\ view' = view /\ heard' = Append(heard, price) /\ Len(heard) < MaxQuotes
          /\ UNCHANGED <<hidden, regimeNow, transitions, fits>>
      BY <1>1 DEF DetectorUpdate
    <2>3. HeardTyped'
      BY <2>2, RegimesAssumption DEF HeardTyped
    <2>4. RouterInv' /\ HiddenInv'
      BY <2>2 DEF RouterInv, HiddenInv
    <2>5. TransitionsInv'
      BY <2>2 DEF TransitionsInv, TransitionsChain
    <2> QED BY <2>1, <2>3, <2>4, <2>5
  <1>2. ASSUME NEW price \in QuotePrices, RouterQuote(price) PROVE RegimesInv'
    <2>1. view = "router" /\ view' = view /\ heard' = Append(heard, price) /\ Len(heard) < MaxQuotes
          /\ verdict' = Routed(heard') /\ UNCHANGED <<priced, returned, hidden, regimeNow, transitions, fits>>
      BY <1>2 DEF RouterQuote
    <2>2. HeardTyped'
      BY <2>1, RegimesAssumption DEF HeardTyped
    <2>3. WindowInv'
      BY <2>1 DEF WindowInv
    <2>4. RouterInv'
      BY <2>1, RoutedTyped DEF RouterInv
    <2>5. HiddenInv'
      BY <2>1 DEF HiddenInv
    <2>6. TransitionsInv'
      BY <2>1 DEF TransitionsInv, TransitionsChain
    <2> QED BY <2>2, <2>3, <2>4, <2>5, <2>6
  <1>3. ASSUME DetectorReset PROVE RegimesInv'
    <2>1. view = "window" /\ view' = view /\ heard' = <<>> /\ priced' = <<>> /\ returned' = <<>>
          /\ verdict' = "ranging" /\ UNCHANGED <<hidden, regimeNow, transitions, fits>>
      BY <1>3 DEF DetectorReset
    <2>2. HeardTyped'
      BY <2>1, EmptySeq, RegimesAssumption DEF HeardTyped
    <2>3. WindowInv'
      <3>1. <<>> \in Seq(Priced) /\ <<>> \in Seq(Int) /\ Len(<<>>) = 0
        BY EmptySeq
      <3>2. Moves(<<>>) = <<>>
        BY NoMoves
      <3>3. EndOf(<<>>, <<>>, WindowSize)
        BY <3>1 DEF EndOf
      <3>4. Moves(heard') = <<>> /\ priced' = heard' /\ returned' = <<>> /\ heard' = <<>>
        BY <2>1, <3>2
      <3> QED BY <2>1, <3>1, <3>3, <3>4, RegimesAssumption DEF WindowInv
    <2>4. RouterInv' /\ HiddenInv'
      BY <2>1 DEF RouterInv, HiddenInv
    <2>5. TransitionsInv'
      BY <2>1 DEF TransitionsInv, TransitionsChain
    <2> QED BY <2>2, <2>3, <2>4, <2>5
  <1>4. ASSUME NEW means \in MeansOf(hidden.n), Fit(means) PROVE RegimesInv'
    <2>1. view = "hidden" /\ view' = view /\ hidden' = [hidden EXCEPT !.means = means, !.regime = MappingOf(means)]
          /\ UNCHANGED <<heard, priced, returned, verdict, regimeNow, transitions>>
      BY <1>4 DEF Fit
    <2>2. hidden' = [n |-> hidden.n, means |-> means, regime |-> MappingOf(means)] /\ hidden.n \in Nat
      <3>1. hidden = [n |-> hidden.n, means |-> hidden.means, regime |-> hidden.regime] /\ hidden.n \in Nat
        BY DEF HiddenInv
      <3> QED BY <2>1, <3>1
    <2>3. hidden'.n = hidden.n /\ hidden'.means = means /\ hidden'.regime = MappingOf(means) /\ HiddenStates' = HiddenStates
      BY <2>2 DEF HiddenStates
    <2>4. returned \in Seq(HiddenStates)
      BY <2>1, EmptySeq DEF HiddenInv
    <2>5. HiddenInv'
      <3>1. hidden' = [n |-> hidden'.n, means |-> hidden'.means, regime |-> hidden'.regime]
        BY <2>2
      <3>2. means = <<>> => returned = <<>>
        <4>1. hidden.means # <<>> => means # <<>>
          <5> DEFINE k == hidden.n
          <5>1. k \in Nat /\ means \in [1 .. k -> 1 .. k]
            BY <1>4 DEF HiddenInv, MeansOf
          <5>2. means \in Seq(1 .. k) /\ Len(means) = k
            BY <5>1
          <5>3. means = <<>> => k = 0
            BY <5>2, EmptySeq
          <5>4. ASSUME hidden.means # <<>> PROVE k # 0
            <6>1. hidden.means \in [1 .. k -> 1 .. k]
              BY <5>4 DEF HiddenInv, MeansOf
            <6>2. hidden.means \in Seq(1 .. k) /\ Len(hidden.means) = k
              BY <5>1, <6>1
            <6> QED BY <5>4, <6>2, EmptySeq
          <5> QED BY <5>3, <5>4
        <4> QED BY <2>1, <4>1 DEF HiddenInv
      <3> QED BY <1>4, <2>1, <2>2, <2>3, <2>4, <3>1, <3>2 DEF HiddenInv
    <2>6. HeardTyped' /\ WindowInv' /\ RouterInv'
      BY <2>1 DEF HeardTyped, WindowInv, RouterInv
    <2>7. TransitionsInv'
      BY <2>1 DEF TransitionsInv, TransitionsChain
    <2> QED BY <2>5, <2>6, <2>7
  <1>5. ASSUME NEW s \in HiddenStates, NEW prob \in Probabilities, UpdateRegime(s, prob) PROVE RegimesInv'
    <2>1. TransitionsInv'
      BY <1>5, TransitionAdds
    <2>2. view = "hidden" /\ hidden.means # <<>> /\ returned' = Append(returned, s)
          /\ UNCHANGED <<view, heard, priced, verdict, hidden, fits>>
      BY <1>5 DEF UpdateRegime
    <2>3. HeardTyped' /\ WindowInv' /\ RouterInv'
      BY <2>2 DEF HeardTyped, WindowInv, RouterInv
    <2>4. HiddenStates' = HiddenStates
      BY <2>2 DEF HiddenStates
    <2>5. returned \in Seq(HiddenStates)
      BY <2>2 DEF HiddenInv
    <2>6. returned' \in Seq(HiddenStates)
      BY <1>5, <2>2, <2>5
    <2>7. HiddenInv'
      BY <2>2, <2>4, <2>6 DEF HiddenInv
    <2> QED BY <2>1, <2>3, <2>7
  <1>6. ASSUME UNCHANGED regimesVars PROVE RegimesInv'
    <2>1. HeardTyped' /\ WindowInv' /\ RouterInv' /\ HiddenInv'
      BY <1>6 DEF regimesVars, HeardTyped, WindowInv, RouterInv, HiddenInv, HiddenStates
    <2>2. TransitionsInv'
      BY <1>6 DEF regimesVars, TransitionsInv, TransitionsChain
    <2> QED BY <2>1, <2>2
  <1> QED BY <1>1, <1>2, <1>3, <1>4, <1>5, <1>6 DEF RegimesNext

-----------------------------------------------------------------------------
(* What the three promise, each from what is kept. *)
LEMMA OverlaysTempered == ASSUME HeardTyped, RouterInv PROVE OverlayTempers /\ OverlayAgrees
  <1> SUFFICES ASSUME view = "router", verdict \in RouterVerdicts PROVE OverlayTempers /\ OverlayAgrees
    BY DEF RouterInv, OverlayTempers, OverlayAgrees
  <1>1. ASSUME NEW signal \in Signals, NEW conf \in {Sure - 1, Sure}
        PROVE  LET out == Overlay(signal, conf, verdict) IN
               /\ out \in (IF signal < 0 THEN signal .. 0 ELSE 0 .. signal)
               /\ Overlay(out, conf, verdict) = out
    <2>1. signal = -2 \/ signal = -1 \/ signal = 0 \/ signal = 1 \/ signal = 2
      BY DEF Signals
    <2>2. conf = 84 \/ conf = 85
      BY DEF Sure
    <2>3. verdict = "BULL" \/ verdict = "BEAR" \/ verdict = "SIDEWAYS"
      BY DEF RouterVerdicts
    <2> QED BY <2>1, <2>2, <2>3 DEF Overlay, Sure
  <1>2. ASSUME NEW signal \in Signals, NEW return \in -1 .. 1, NEW conf \in {Sure - 1, Sure},
               signal * return >= 0 /\ (signal = 0 => return = 0)
        PROVE  Overlay(signal, conf, verdict) * OverlaidReturn(signal, return, conf, verdict) >= 0
    <2>1. signal = -2 \/ signal = -1 \/ signal = 0 \/ signal = 1 \/ signal = 2
      BY DEF Signals
    <2>2. conf = 84 \/ conf = 85
      BY DEF Sure
    <2>3. verdict = "BULL" \/ verdict = "BEAR" \/ verdict = "SIDEWAYS"
      BY DEF RouterVerdicts
    <2>4. return = -1 \/ return = 0 \/ return = 1
      OBVIOUS
    <2> QED BY <1>2, <2>1, <2>2, <2>3, <2>4 DEF Overlay, OverlaidReturn, RiskOf, Sure
  <1> QED BY <1>1, <1>2 DEF OverlayTempers, OverlayAgrees

(* Among three different means one is the highest, one the lowest: how many are higher tells which. *)
LEMMA HighestOfThree ==
  ASSUME NEW means \in MeansOf(3), NEW s \in 1 .. 3
  PROVE  /\ HigherStates(means, s) = 0 => \A t \in 1 .. 3 : means[s] >= means[t]
         /\ HigherStates(means, s) # 0 /\ HigherStates(means, s) # 1 => \A t \in 1 .. 3 : means[s] <= means[t]
  <1> DEFINE H == {t \in 1 .. 3 : means[t] > means[s]}
  <1>1. DOMAIN means = 1 .. 3 /\ \A t \in 1 .. 3 : means[t] \in 1 .. 3
    BY DEF MeansOf
  <1>2. HigherStates(means, s) = Cardinality(H)
    BY <1>1 DEF HigherStates
  <1>3. IsFiniteSet(1 .. 3) /\ IsFiniteSet(H)
    <2>1. 1 \in Int /\ 3 \in Int
      OBVIOUS
    <2>2. IsFiniteSet(1 .. 3)
      BY <2>1, FS_Interval, Zenon
    <2> QED BY <2>2, FS_Subset
  <1>4. ASSUME Cardinality(H) = 0, NEW t \in 1 .. 3 PROVE means[s] >= means[t]
    <2>1. H = {}
      BY <1>3, <1>4, FS_EmptySet
    <2> QED BY <1>1, <2>1
  <1>5. ASSUME NEW t \in 1 .. 3, ~(means[s] <= means[t]) PROVE Cardinality(H) \in {0, 1}
    <2>1. means[t] < means[s] /\ t # s
      BY <1>1, <1>5
    <2>2. \E u \in 1 .. 3 : H \subseteq {u}
      <3>1. PICK u \in 1 .. 3 : u # s /\ u # t
        <4>1. (s # 1 /\ t # 1) \/ (s # 2 /\ t # 2) \/ (s # 3 /\ t # 3)
          OBVIOUS
        <4> QED BY <4>1
      <3>2. \A v \in 1 .. 3 : v = s \/ v = t \/ v = u
        BY <2>1, <3>1
      <3>3. s \notin H /\ t \notin H
        BY <1>1, <2>1
      <3>4. H \subseteq 1 .. 3
        OBVIOUS
      <3> HIDE DEF H
      <3> QED BY <3>2, <3>3, <3>4
    <2>3. H = {} \/ \E u : H = {u}
      <3> HIDE DEF H
      <3> QED BY <2>2
    <2> HIDE DEF H
    <2> QED BY <2>3, FS_EmptySet, FS_Singleton
  <1> HIDE DEF H
  <1> QED BY <1>2, <1>4, <1>5

(* With three states the regimes are in the order of the returns, and every day has one of them. *)
LEMMA ThreeOrdered == ASSUME HiddenInv PROVE ThreeAreOrdered
  <1> SUFFICES ASSUME view = "hidden", hidden.n = 3, hidden.means # <<>>
               PROVE  /\ \A s, t \in HiddenStates :
                           /\ hidden.regime[s] = "BULL" => hidden.means[s] >= hidden.means[t]
                           /\ hidden.regime[s] = "BEAR" => hidden.means[s] <= hidden.means[t]
                      /\ DurationOf("BULL") + DurationOf("BEAR") + DurationOf("SIDEWAYS") = Len(returned)
    BY DEF ThreeAreOrdered
  <1> DEFINE means == hidden.means  n == Len(returned)
  <1>1. means \in MeansOf(3) /\ hidden.regime = MappingOf(means) /\ returned \in Seq(1 .. 3) /\ HiddenStates = 1 .. 3
    BY DEF HiddenInv, HiddenStates
  <1>2. DOMAIN means = 1 .. 3 /\ Len(means) = 3
    <2>1. means \in [1 .. 3 -> 1 .. 3]
      BY <1>1 DEF MeansOf
    <2> QED BY <2>1
  <1>3. ASSUME NEW s \in 1 .. 3
        PROVE  hidden.regime[s] = IF HigherStates(means, s) = 0 THEN "BULL"
                                  ELSE IF HigherStates(means, s) = 1 THEN "SIDEWAYS" ELSE "BEAR"
    BY <1>1, <1>2 DEF MappingOf
  <1>4. ASSUME NEW s \in 1 .. 3, NEW t \in 1 .. 3
        PROVE  /\ hidden.regime[s] = "BULL" => means[s] >= means[t]
               /\ hidden.regime[s] = "BEAR" => means[s] <= means[t]
    <2> HIDE DEF means
    <2>1. hidden.regime[s] = "BULL" => HigherStates(means, s) = 0
      BY <1>3
    <2>2. hidden.regime[s] = "BEAR" => HigherStates(means, s) # 0 /\ HigherStates(means, s) # 1
      BY <1>3
    <2> QED BY <1>1, <2>1, <2>2, HighestOfThree
  <1>5. DurationOf("BULL") + DurationOf("BEAR") + DurationOf("SIDEWAYS") = n
    <2> DEFINE B == DaysOf("BULL")  R == DaysOf("BEAR")  Q == DaysOf("SIDEWAYS")
    <2>1. DOMAIN returned = 1 .. n /\ n \in Nat
      BY <1>1, LenProperties
    <2>2. \A i \in 1 .. n : hidden.regime[returned[i]] \in Regimes
      <3>1. \A i \in 1 .. n : returned[i] \in 1 .. 3
        BY <1>1
      <3> QED BY <1>1, <1>2, <3>1, MappingTyped
    <2>3. 1 .. n = (B \cup R) \cup Q /\ B \cap R = {} /\ (B \cup R) \cap Q = {}
      BY <2>1, <2>2 DEF DaysOf, Regimes
    <2> HIDE DEF B, R, Q
    <2>4. IsFiniteSet(1 .. n) /\ Cardinality(1 .. n) = n
      BY <2>1, FS_Interval
    <2>5. IsFiniteSet(B) /\ IsFiniteSet(R) /\ IsFiniteSet(Q) /\ IsFiniteSet(B \cup R)
      <3>1. B \subseteq 1 .. n /\ R \subseteq 1 .. n /\ Q \subseteq 1 .. n /\ B \cup R \subseteq 1 .. n
        BY <2>3
      <3> QED BY <2>4, <3>1, FS_Subset
    <2>6. Cardinality(B \cup R) = Cardinality(B) + Cardinality(R)
      <3>1. Cardinality(B \cup R) = Cardinality(B) + Cardinality(R) - Cardinality(B \cap R)
        BY <2>5, FS_Union
      <3>2. Cardinality(B \cap R) = 0
        BY <2>3, FS_EmptySet
      <3>3. Cardinality(B) \in Nat /\ Cardinality(R) \in Nat
        BY <2>5, FS_CardinalityType
      <3> QED BY <3>1, <3>2, <3>3
    <2>7. Cardinality((B \cup R) \cup Q) = Cardinality(B \cup R) + Cardinality(Q)
      <3>1. Cardinality((B \cup R) \cup Q) = Cardinality(B \cup R) + Cardinality(Q) - Cardinality((B \cup R) \cap Q)
        BY <2>5, FS_Union
      <3>2. Cardinality((B \cup R) \cap Q) = 0
        BY <2>3, FS_EmptySet
      <3>3. Cardinality(B \cup R) \in Nat /\ Cardinality(Q) \in Nat
        BY <2>5, FS_CardinalityType
      <3> QED BY <3>1, <3>2, <3>3
    <2>8. Cardinality(B) + Cardinality(R) + Cardinality(Q) = n
      BY <2>3, <2>4, <2>6, <2>7
    <2> QED BY <2>8 DEF DurationOf, B, R, Q
  <1> QED BY <1>1, <1>4, <1>5

LEMMA RegimesImplied == RegimesInv => RegimesSound
  <1> SUFFICES ASSUME RegimesInv PROVE RegimesSound
    OBVIOUS
  <1> USE DEF RegimesInv
  <1>1. OverlayTempers /\ OverlayAgrees
    BY OverlaysTempered
  <1>2. ThreeAreOrdered
    BY ThreeOrdered
  <1>3. CutIsUnseen
    BY DEF WindowInv, CutIsUnseen
  <1>4. RegimesTypeOK
    <2>1. verdict \in {"ranging", "trending", "volatile", "crash", "BULL", "BEAR", "SIDEWAYS"}
      <3>1. CASE view = "window"
        BY <3>1, ClassifiedTyped DEF WindowInv, DetectorVerdicts
      <3>2. CASE view = "router"
        BY <3>2 DEF RouterInv, RouterVerdicts
      <3>3. CASE view = "hidden"
        BY <3>3 DEF HiddenInv
      <3> QED BY <3>1, <3>2, <3>3 DEF HeardTyped
    <2>2. Len(priced) <= 2 * WindowSize /\ Len(heard) <= MaxQuotes
      <3>1. CASE view = "window"
        BY <3>1 DEF WindowInv, HeardTyped
      <3>2. CASE view # "window"
        <4>1. priced = <<>>
          BY <3>2 DEF RouterInv, HiddenInv, HeardTyped
        <4> QED BY <4>1, EmptySeq, RegimesAssumption DEF HeardTyped
      <3> QED BY <3>1, <3>2
    <2>3. hidden.means # <<>> => DOMAIN hidden.regime = HiddenStates
      BY MappingTyped DEF HiddenInv, MeansOf, HiddenStates
    <2> QED BY <2>1, <2>2, <2>3 DEF RegimesTypeOK
  <1>5. TransitionsChain
    BY DEF TransitionsInv
  <1> QED BY <1>1, <1>2, <1>3, <1>4, <1>5 DEF RegimesSound

(* Cutting the detector's history never changes its verdict, the overlay only tempers signals, each    *)
(* transition begins where the one before ended, and three states are named in the order of their      *)
(* means, for any prices and windows (rl/regime_detector.py, ml/regime_router.py, ml/regime_detector.py). *)
THEOREM RegimesAreSound == RegimesSpec => []RegimesSound
  <1>1. RegimesSpec => []RegimesInv
    BY RegimesStart, RegimesKept, PTL DEF RegimesSpec
  <1> QED BY <1>1, RegimesImplied, PTL

-----------------------------------------------------------------------------
(* The account the live agent trades and the batches it answers. *)

PairPlaces == 1 .. Len(Pairs)
Money == [cash : Int, held : [PairSet -> Nat], entry : [PairSet -> Nat], wins : Nat, losses : Nat,
          gains : Int, flows : Int, fees : Int, rounding : Int, refused : SUBSET PairSet, onCredit : SUBSET PairSet]

Tied(a) == [s \in PairSet |-> a.entry[s] * a.held[s]]

(* The books of the agent's account. *)
Books(a) ==
  /\ a \in Money
  /\ a.cash = Capital0 + a.gains - a.fees
  /\ Total(Tied(a), PairSet) = a.gains - a.flows - a.rounding
  /\ \A s \in PairSet : a.held[s] > 0 <=> a.entry[s] > 0
  /\ a.onCredit = {}

LEMMA PairsFinite == IsFiniteSet(PairSet) /\ Len(Pairs) \in Nat /\ PairSet = {Pairs[i] : i \in PairPlaces}
  <1>1. PICK n \in Nat : n = Len(Pairs)
    BY AgentAssumption
  <1>2. IsFiniteSet(PairPlaces)
    BY <1>1, FS_Interval DEF PairPlaces
  <1> DEFINE f == [i \in PairPlaces |-> Pairs[i]]
  <1>3. f \in Surjection(PairPlaces, PairSet)
    BY DEF Surjection, PairSet, PairPlaces
  <1>4. IsFiniteSet(PairSet)
    <2> HIDE DEF f
    <2> QED BY <1>2, <1>3, FS_Surjection
  <1> QED BY <1>1, <1>4 DEF PairSet, PairPlaces

LEMMA TiedNat ==
  ASSUME NEW a \in Money, NEW s \in PairSet
  PROVE  Tied(a)[s] \in Nat /\ Tied(a)[s] = a.entry[s] * a.held[s] /\ a.entry[s] \in Nat /\ a.held[s] \in Nat
  <1>1. a.entry[s] \in Nat /\ a.held[s] \in Nat
    BY DEF Money
  <1>2. a.entry[s] * a.held[s] \in Nat
    BY <1>1, ProductNat
  <1> QED BY <1>1, <1>2 DEF Tied

LEMMA AverageIs ==
  ASSUME NEW cost \in Nat, NEW n \in Nat \ {0}, n <= cost
  PROVE  /\ AverageEntry(cost, n) \in Nat /\ AverageEntry(cost, n) > 0 /\ cost % n \in Nat
         /\ AverageEntry(cost, n) * n = cost - (cost % n)
  <1>1. cost \div n \in Nat /\ cost % n \in 0 .. n - 1 /\ cost = n * (cost \div n) + (cost % n)
    OBVIOUS
  <1>2. PICK q \in Nat, r \in 0 .. n - 1 : q = cost \div n /\ r = cost % n /\ cost = n * q + r
    BY <1>1
  <1>3. q # 0
    <2>1. n * 0 = 0
      OBVIOUS
    <2> QED BY <1>2, <2>1
  <1>4. q * n = n * q
    BY <1>2
  <1>5. n * q \in Nat
    BY <1>2, ProductNat
  <1> QED BY <1>2, <1>3, <1>4, <1>5 DEF AverageEntry

(* A purchase keeps the books, whatever else was held. *)
LEMMA BoughtBooks ==
  ASSUME NEW a, Books(a), NEW s \in PairSet, NEW qty \in Nat \ {0}, NEW price \in Nat \ {0}, a.cash > 0
  PROVE  Books(Bought(a, s, qty, price)) /\ \A t \in PairSet \ {s} : Bought(a, s, qty, price).held[t] = a.held[t]
  <1> DEFINE fee == (qty * price) \div FeeParts
             next == a.held[s] + qty
             cost == a.entry[s] * a.held[s] + price * qty
             avg == AverageEntry(cost, next)
             b == Bought(a, s, qty, price)
  <1>1. a \in Money /\ a.entry[s] \in Nat /\ a.held[s] \in Nat /\ Tied(a)[s] \in Nat /\ Tied(a)[s] = a.entry[s] * a.held[s]
    BY TiedNat DEF Books
  <1>2. qty * price \in Nat /\ price * qty \in Nat /\ price * qty = qty * price
    BY ProductNat
  <1>3. fee \in Nat
    BY <1>2, AgentAssumption, Quotient
  <1>4. next \in Nat \ {0} /\ cost \in Nat
    BY <1>1, <1>2
  <1>5. next <= cost
    <2>1. 1 * qty <= price * qty
      <3>1. PICK one \in Nat : one = 1
        OBVIOUS
      <3>2. one <= price
        BY <3>1
      <3>3. one * qty <= price * qty
        BY <3>2, ProductOrder
      <3> QED BY <3>1, <3>3
    <2>2. a.held[s] <= a.entry[s] * a.held[s]
      <3>1. CASE a.held[s] > 0
        <4>1. a.entry[s] > 0
          BY <3>1 DEF Books
        <4>2. PICK one \in Nat, e \in Nat, h \in Nat : one = 1 /\ e = a.entry[s] /\ h = a.held[s]
          BY <1>1
        <4>3. one <= e
          BY <4>1, <4>2
        <4>4. one * h <= e * h
          BY <4>3, ProductOrder
        <4> QED BY <4>2, <4>4
      <3>2. CASE ~(a.held[s] > 0)
        BY <1>1, <3>2
      <3> QED BY <3>1, <3>2
    <2> QED BY <1>1, <1>2, <2>1, <2>2
  <1>6. b = [a EXCEPT !.cash = a.cash - fee, !.held = [a.held EXCEPT ![s] = next], !.entry = [a.entry EXCEPT ![s] = avg],
                      !.flows = a.flows - qty * price, !.fees = a.fees + fee, !.rounding = a.rounding + (cost % next),
                      !.onCredit = a.onCredit \cup {}]
    BY DEF Bought
  <1> HIDE DEF fee, next, cost, avg, b
  <1>7. avg \in Nat /\ avg > 0 /\ cost % next \in Nat /\ avg * next = cost - (cost % next)
    BY <1>4, <1>5, AverageIs DEF avg
  <1>8. PICK rest \in Nat, paidOut \in Nat : rest = cost % next /\ paidOut = qty * price
    BY <1>2, <1>7
  <1>9. PICK H \in [PairSet -> Nat], E \in [PairSet -> Nat] :
          /\ H = [a.held EXCEPT ![s] = next] /\ E = [a.entry EXCEPT ![s] = avg]
          /\ H[s] = next /\ E[s] = avg /\ \A t \in PairSet \ {s} : H[t] = a.held[t] /\ E[t] = a.entry[t]
    <2>1. a.held \in [PairSet -> Nat] /\ a.entry \in [PairSet -> Nat]
      BY <1>1 DEF Money
    <2>2. PICK H, E : H = [a.held EXCEPT ![s] = next] /\ E = [a.entry EXCEPT ![s] = avg]
      OBVIOUS
    <2>3. H \in [PairSet -> Nat] /\ E \in [PairSet -> Nat] /\ H[s] = next /\ E[s] = avg
          /\ \A t \in PairSet \ {s} : H[t] = a.held[t] /\ E[t] = a.entry[t]
      BY <1>4, <1>7, <2>1, <2>2
    <2> QED BY <2>2, <2>3
  <1>10. b = [a EXCEPT !.cash = a.cash - fee, !.held = H, !.entry = E, !.flows = a.flows - paidOut, !.fees = a.fees + fee,
                      !.rounding = a.rounding + rest, !.onCredit = a.onCredit \cup {}]
    BY <1>6, <1>8, <1>9
  <1>11. b \in Money /\ b.held = H /\ b.entry = E /\ b.cash = a.cash - fee /\ b.gains = a.gains /\ b.flows = a.flows - paidOut
         /\ b.fees = a.fees + fee /\ b.rounding = a.rounding + rest /\ b.onCredit = {}
    <2>1. a.cash - fee \in Int /\ a.flows - paidOut \in Int /\ a.fees + fee \in Int /\ a.rounding + rest \in Int
      BY <1>1, <1>3, <1>8 DEF Money
    <2>2. a.onCredit \cup {} = {}
      BY DEF Books
    <2> QED BY <1>1, <1>9, <1>10, <2>1, <2>2 DEF Money
  <1>12. Total(Tied(b), PairSet) = Total(Tied(a), PairSet) + (paidOut - rest)
    <2>1. Whole(Tied(a), PairSet)
      BY <1>1, TiedNat DEF Whole
    <2>2. \A t \in PairSet \ {s} : Tied(b)[t] = Tied(a)[t]
      BY <1>1, <1>9, <1>11, TiedNat
    <2>3. PICK d \in Int : d = paidOut - rest
      OBVIOUS
    <2>4. Tied(b)[s] = Tied(a)[s] + d
      <3>1. Tied(b)[s] = avg * next
        BY <1>9, <1>11, TiedNat
      <3>2. cost = Tied(a)[s] + paidOut
        BY <1>1, <1>2, <1>8 DEF cost
      <3> QED BY <1>1, <1>7, <1>8, <2>3, <3>1, <3>2
    <2> QED BY <2>1, <2>2, <2>3, <2>4, PairsFinite, TotalRaised
  <1>13. a.gains \in Int /\ a.flows \in Int /\ a.rounding \in Int /\ a.fees \in Int /\ a.cash \in Int /\ Capital0 \in Int
    BY <1>1, AgentAssumption DEF Money
  <1>14. b.cash = Capital0 + b.gains - b.fees
    BY <1>3, <1>11, <1>13 DEF Books
  <1>15. Total(Tied(b), PairSet) = b.gains - b.flows - b.rounding
    BY <1>8, <1>11, <1>12, <1>13 DEF Books
  <1>16. \A t \in PairSet : b.held[t] > 0 <=> b.entry[t] > 0
    <2> SUFFICES ASSUME NEW t \in PairSet PROVE b.held[t] > 0 <=> b.entry[t] > 0
      OBVIOUS
    <2>1. CASE t = s
      BY <1>4, <1>7, <1>9, <1>11, <2>1
    <2>2. CASE t # s
      BY <1>9, <1>11, <2>2 DEF Books
    <2> QED BY <2>1, <2>2
  <1> QED BY <1>9, <1>11, <1>14, <1>15, <1>16 DEF Books, b

LEMMA SoldBooks ==
  ASSUME NEW a, Books(a), NEW s \in PairSet, NEW qty \in Nat \ {0}, NEW price \in Nat \ {0}, qty <= a.held[s]
  PROVE  Books(Sold(a, s, qty, price)) /\ Sold(a, s, qty, price).held[s] = a.held[s] - qty
         /\ \A t \in PairSet \ {s} : Sold(a, s, qty, price).held[t] = a.held[t]
  <1> DEFINE fee == (qty * price) \div FeeParts
             earned == (price - a.entry[s]) * qty
             left == a.held[s] - qty
             b == Sold(a, s, qty, price)
             e == IF left = 0 THEN 0 ELSE a.entry[s]
             won == IF earned > 0 THEN 1 ELSE 0
             lost == IF earned > 0 THEN 0 ELSE 1
  <1>1. a \in Money /\ a.entry[s] \in Nat /\ a.held[s] \in Nat /\ Tied(a)[s] \in Nat /\ Tied(a)[s] = a.entry[s] * a.held[s]
    BY TiedNat DEF Books
  <1>2. qty * price \in Nat /\ a.entry[s] * qty \in Nat
    BY <1>1, ProductNat
  <1>3. fee \in Nat
    BY <1>2, AgentAssumption, Quotient
  <1>4. left \in Nat /\ e \in Nat /\ won \in Nat /\ lost \in Nat
    BY <1>1
  <1>5. PICK got \in Nat, worth \in Nat : got = qty * price /\ worth = a.entry[s] * qty
    BY <1>2
  <1>6. earned = got - worth
    BY <1>1, <1>5
  <1>7. b = [a EXCEPT !.cash = a.cash + earned - fee, !.held = [a.held EXCEPT ![s] = left], !.entry = [a.entry EXCEPT ![s] = e],
                      !.wins = a.wins + won, !.losses = a.losses + lost, !.gains = a.gains + earned,
                      !.flows = a.flows + qty * price, !.fees = a.fees + fee]
    BY DEF Sold
  <1>8. e * left = a.entry[s] * a.held[s] - worth /\ (left > 0 <=> e > 0)
    <2>1. CASE left = 0
      <3>1. a.held[s] = qty /\ e = 0
        BY <1>1, <2>1
      <3>2. a.entry[s] * a.held[s] = worth
        BY <1>5, <3>1
      <3>3. e * left = 0
        BY <2>1, <3>1
      <3> QED BY <1>5, <2>1, <3>1, <3>2, <3>3
    <2>2. CASE left # 0
      <3>1. e = a.entry[s] /\ left > 0 /\ a.held[s] > 0
        BY <1>1, <1>4, <2>2
      <3>2. a.entry[s] > 0
        BY <3>1 DEF Books
      <3>3. a.entry[s] * left = a.entry[s] * a.held[s] - a.entry[s] * qty
        BY <1>1
      <3> QED BY <1>5, <3>1, <3>2, <3>3
    <2> QED BY <2>1, <2>2
  <1> HIDE DEF fee, earned, left, b, e, won, lost
  <1>9. PICK H \in [PairSet -> Nat], E \in [PairSet -> Nat] :
          /\ H = [a.held EXCEPT ![s] = left] /\ E = [a.entry EXCEPT ![s] = e]
          /\ H[s] = left /\ E[s] = e /\ \A t \in PairSet \ {s} : H[t] = a.held[t] /\ E[t] = a.entry[t]
    <2>1. a.held \in [PairSet -> Nat] /\ a.entry \in [PairSet -> Nat]
      BY <1>1 DEF Money
    <2>2. PICK H, E : H = [a.held EXCEPT ![s] = left] /\ E = [a.entry EXCEPT ![s] = e]
      OBVIOUS
    <2>3. H \in [PairSet -> Nat] /\ E \in [PairSet -> Nat] /\ H[s] = left /\ E[s] = e
          /\ \A t \in PairSet \ {s} : H[t] = a.held[t] /\ E[t] = a.entry[t]
      BY <1>4, <2>1, <2>2
    <2> QED BY <2>2, <2>3
  <1>10. b = [a EXCEPT !.cash = a.cash + earned - fee, !.held = H, !.entry = E, !.wins = a.wins + won, !.losses = a.losses + lost,
                      !.gains = a.gains + earned, !.flows = a.flows + got, !.fees = a.fees + fee]
    BY <1>5, <1>7, <1>9
  <1>11. b \in Money /\ b.held = H /\ b.entry = E /\ b.cash = a.cash + earned - fee /\ b.gains = a.gains + earned /\ b.flows = a.flows + got
         /\ b.fees = a.fees + fee /\ b.rounding = a.rounding /\ b.onCredit = {}
    <2>1. a.cash + earned - fee \in Int /\ a.flows + got \in Int /\ a.fees + fee \in Int /\ a.gains + earned \in Int
          /\ a.wins + won \in Nat /\ a.losses + lost \in Nat
      BY <1>1, <1>3, <1>4, <1>5, <1>6 DEF Money
    <2>2. a.onCredit = {}
      BY DEF Books
    <2> QED BY <1>1, <1>9, <1>10, <2>1, <2>2 DEF Money
  <1>12. Total(Tied(b), PairSet) = Total(Tied(a), PairSet) + (- worth)
    <2>1. Whole(Tied(a), PairSet)
      BY <1>1, TiedNat DEF Whole
    <2>2. \A t \in PairSet \ {s} : Tied(b)[t] = Tied(a)[t]
      BY <1>1, <1>9, <1>11, TiedNat
    <2>3. PICK d \in Int : d = - worth
      OBVIOUS
    <2>4. Tied(b)[s] = Tied(a)[s] + d
      <3>1. Tied(b)[s] = e * left
        BY <1>9, <1>11, TiedNat
      <3> QED BY <1>1, <1>8, <2>3, <3>1
    <2> QED BY <2>1, <2>2, <2>3, <2>4, PairsFinite, TotalRaised
  <1>13. a.gains \in Int /\ a.flows \in Int /\ a.rounding \in Int /\ a.fees \in Int /\ a.cash \in Int /\ Capital0 \in Int
    BY <1>1, AgentAssumption DEF Money
  <1>14. b.cash = Capital0 + b.gains - b.fees
    BY <1>3, <1>6, <1>11, <1>13 DEF Books
  <1>15. Total(Tied(b), PairSet) = b.gains - b.flows - b.rounding
    BY <1>5, <1>6, <1>11, <1>12, <1>13 DEF Books
  <1>16. \A t \in PairSet : b.held[t] > 0 <=> b.entry[t] > 0
    <2> SUFFICES ASSUME NEW t \in PairSet PROVE b.held[t] > 0 <=> b.entry[t] > 0
      OBVIOUS
    <2>1. CASE t = s
      BY <1>8, <1>9, <1>11, <2>1
    <2>2. CASE t # s
      BY <1>9, <1>11, <2>2 DEF Books
    <2> QED BY <2>1, <2>2
  <1> QED BY <1>9, <1>11, <1>14, <1>15, <1>16 DEF Books, b, left

Elsewhere(a, b, s) == \A t \in PairSet \ {s} : b.held[t] = a.held[t]

LEMMA RefusedBooks ==
  ASSUME NEW a, Books(a), NEW R \in SUBSET PairSet
  PROVE  LET b == [a EXCEPT !.refused = R] IN Books(b) /\ b.held = a.held
  <1> DEFINE b == [a EXCEPT !.refused = R]
  <1>1. a \in Money
    BY DEF Books
  <1>2. b \in Money /\ b.held = a.held /\ b.entry = a.entry /\ b.cash = a.cash /\ b.gains = a.gains /\ b.fees = a.fees
        /\ b.flows = a.flows /\ b.rounding = a.rounding /\ b.onCredit = a.onCredit
    BY <1>1 DEF Money
  <1> HIDE DEF b
  <1>3. Tied(b) = Tied(a)
    BY <1>2 DEF Tied
  <1>4. Books(b)
    BY <1>2, <1>3 DEF Books
  <1> QED BY <1>2, <1>4 DEF b

(* Nothing is bought without cash: the margin of a purchase would not be there. *)
LEMMA MarginNeedsCash ==
  ASSUME NEW a \in Money, NEW s \in PairSet, NEW qty \in Nat \ {0}, NEW price \in Nat \ {0},
         ShouldTrade(a, s, a.held[s] + qty, price)
  PROVE  a.cash > 0
  <1>1. a.held[s] \in Nat /\ a.cash \in Int
    BY DEF Money
  <1> DEFINE notional == ((a.held[s] + qty) - a.held[s]) * price
  <1>2. notional + MaxLeverage * (notional \div FeeParts) <= MaxLeverage * a.cash
    BY <1>1 DEF ShouldTrade, MarginThere
  <1>3. notional = qty * price /\ qty * price \in Nat \ {0}
    BY <1>1, ProductNat
  <1>4. PICK n \in Nat \ {0} : n = qty * price
    BY <1>3
  <1>5. n \div FeeParts \in Nat
    BY AgentAssumption, Quotient
  <1>6. PICK f \in Nat, l \in Nat \ {0} : f = n \div FeeParts /\ l = MaxLeverage
    BY <1>5, AgentAssumption
  <1>7. n + l * f <= l * a.cash
    BY <1>2, <1>3, <1>4, <1>6
  <1>8. l * f \in Nat
    BY <1>6, ProductNat
  <1>9. ASSUME a.cash <= 0 PROVE FALSE
    <2>1. PICK c \in Nat : c = - a.cash
      BY <1>1, <1>9
    <2>2. l * c \in Nat
      BY <1>6, <2>1, ProductNat
    <2>3. a.cash = - c /\ l * (- c) = - (l * c)
      BY <1>1, <1>6, <2>1
    <2>4. l * a.cash = - (l * c)
      BY <2>3
    <2>5. n + l * f > 0 /\ n + l * f \in Nat
      BY <1>4, <1>8
    <2> QED BY <1>7, <2>2, <2>4, <2>5
  <1> QED BY <1>1, <1>9

LEMMA ExecuteBooks ==
  ASSUME NEW a, Books(a), NEW s \in PairSet, NEW side \in {"buy", "sell"}, NEW qty \in Nat \ {0}, NEW price \in Nat \ {0}
  PROVE  Books(ExecuteTrade(a, s, side, qty, price)) /\ Elsewhere(a, ExecuteTrade(a, s, side, qty, price), s)
  <1> DEFINE target == IF side = "buy" THEN a.held[s] + qty ELSE a.held[s] - qty
  <1>1. a \in Money /\ a.held[s] \in Nat /\ a.refused \cup {s} \in SUBSET PairSet
    BY DEF Books, Money
  <1>2. CASE side = "sell" /\ qty > a.held[s]
    BY <1>2 DEF ExecuteTrade, Elsewhere
  <1>3. CASE ~(side = "sell" /\ qty > a.held[s]) /\ ~ShouldTrade(a, s, target, price)
    <2>1. PICK R : R = a.refused \cup {s}
      OBVIOUS
    <2>2. R \in SUBSET PairSet
      BY <1>1, <2>1
    <2>3. ExecuteTrade(a, s, side, qty, price) = [a EXCEPT !.refused = R]
      BY <1>3, <2>1 DEF ExecuteTrade
    <2> QED BY <2>2, <2>3, RefusedBooks DEF Elsewhere
  <1>4. CASE side = "buy" /\ ShouldTrade(a, s, target, price)
    <2>1. a.cash > 0
      BY <1>1, <1>4, MarginNeedsCash
    <2>2. ExecuteTrade(a, s, side, qty, price) = Bought(a, s, qty, price)
      BY <1>4 DEF ExecuteTrade
    <2> QED BY <2>1, <2>2, BoughtBooks DEF Elsewhere
  <1>5. CASE side = "sell" /\ ~(qty > a.held[s]) /\ ShouldTrade(a, s, target, price)
    <2>1. ExecuteTrade(a, s, side, qty, price) = Sold(a, s, qty, price)
      BY <1>5 DEF ExecuteTrade
    <2>2. qty <= a.held[s]
      BY <1>1, <1>5
    <2> QED BY <2>1, <2>2, SoldBooks DEF Elsewhere
  <1> QED BY <1>2, <1>3, <1>4, <1>5

LEMMA SizedNat ==
  ASSUME NEW a \in Money, NEW f \in Int, NEW price \in Nat \ {0}
  PROVE  SizedQty(a, f, price) \in Nat /\ (f = 0 => SizedQty(a, f, price) = 0)
  <1>1. f * a.cash * MaxLeverage \in Int /\ FullShare * price \in Nat \ {0}
    BY AgentAssumption DEF Money, FullShare
  <1>2. PICK x \in Int, y \in Nat \ {0} : x = f * a.cash * MaxLeverage /\ y = FullShare * price
    BY <1>1
  <1>3. x \div y \in Int /\ 0 \div y = 0
    BY <1>2
  <1>4. PICK q \in Int : q = x \div y
    BY <1>3
  <1>5. SizedQty(a, f, price) = IF 0 > q THEN 0 ELSE q
    BY <1>2, <1>4 DEF SizedQty, Bigger
  <1>6. f = 0 => x = 0
    BY <1>2, AgentAssumption DEF Money
  <1> QED BY <1>3, <1>4, <1>5, <1>6

LEMMA RebalanceBooks ==
  ASSUME NEW a, Books(a), NEW s \in PairSet, NEW f \in Int, market \in [PairSet -> MarketPrices]
  PROVE  /\ Books(Rebalance(a, s, f)) /\ Elsewhere(a, Rebalance(a, s, f), s)
         /\ f = 0 /\ market[s] > 0 => Rebalance(a, s, f).held[s] = 0
  <1> DEFINE price == market[s]  target == SizedQty(a, f, price)  b == Rebalance(a, s, f)
  <1>1. a \in Money /\ a.held[s] \in Nat
    BY DEF Books, Money
  <1>2. price \in Nat
    BY AgentAssumption
  <1>3. CASE price = 0
    BY <1>2, <1>3 DEF Rebalance, Elsewhere
  <1>4. CASE price # 0
    <2>1. target \in Nat /\ (f = 0 => target = 0)
      BY <1>1, <1>2, <1>4, SizedNat
    <2>2. CASE target = a.held[s]
      <3>1. b = a
        BY <1>4, <2>2 DEF Rebalance
      <3> QED BY <2>1, <2>2, <3>1 DEF Elsewhere
    <2>3. CASE target > a.held[s]
      <3>1. PICK qty \in Nat \ {0} : qty = target - a.held[s]
        BY <1>1, <2>1, <2>3
      <3>2. b = ExecuteTrade(a, s, "buy", qty, price)
        BY <1>1, <1>4, <2>1, <2>3, <3>1 DEF Rebalance
      <3>3. f # 0
        BY <1>1, <2>1, <2>3
      <3> HIDE DEF b, target, price
      <3>4. Books(b) /\ Elsewhere(a, b, s)
        BY <1>2, <1>4, <3>1, <3>2, ExecuteBooks
      <3> QED BY <3>3, <3>4 DEF b
    <2>4. CASE target < a.held[s]
      <3>1. PICK qty \in Nat \ {0} : qty = a.held[s] - target
        BY <1>1, <2>1, <2>4
      <3>2. b = ExecuteTrade(a, s, "sell", qty, price)
        BY <1>1, <1>4, <2>1, <2>4, <3>1 DEF Rebalance
      <3> HIDE DEF b, target, price
      <3>4. Books(b) /\ Elsewhere(a, b, s)
        BY <1>2, <1>4, <3>1, <3>2, ExecuteBooks
      <3>5. ASSUME f = 0 PROVE b.held[s] = 0
        <4>1. target = 0 /\ qty = a.held[s] /\ a.held[s] - qty = 0 /\ ~(qty > a.held[s])
          BY <1>1, <2>1, <3>1, <3>5
        <4>2. 0 * price = 0 /\ price > 0
          BY <1>2, <1>4
        <4>3. ShouldTrade(a, s, 0, price)
          <5>1. MarginThere(a, s, 0, price)
            <6>1. ~(0 > a.held[s])
              BY <1>1
            <6> QED BY <6>1 DEF MarginThere
          <5>2. 0 <= MaxLeverage * Bigger(a.cash, 0)
            <6>1. Bigger(a.cash, 0) \in Nat
              BY <1>1 DEF Bigger, Money
            <6>2. MaxLeverage * Bigger(a.cash, 0) \in Nat
              BY <6>1, AgentAssumption, ProductNat
            <6> QED BY <6>2
          <5> QED BY <4>2, <5>1, <5>2 DEF ShouldTrade, WithinLeverage
        <4>4. b = Sold(a, s, qty, price)
          BY <3>2, <4>1, <4>3 DEF ExecuteTrade
        <4>5. Sold(a, s, qty, price).held[s] = a.held[s] - qty
          BY <1>2, <1>4, <4>1, SoldBooks
        <4> QED BY <4>1, <4>4, <4>5
      <3> QED BY <3>4, <3>5 DEF b
    <2> QED BY <1>1, <2>1, <2>2, <2>3, <2>4
  <1> QED BY <1>3, <1>4

LEMMA SupervisedInt ==
  ASSUME NEW f \in Int
  PROVE  Supervised(f) \in Int /\ (f = 0 => Supervised(f) = 0)
  <1>1. f \div 4 \in Int /\ f \div 2 \in Int /\ 0 \div 4 = 0 /\ 0 \div 2 = 0 /\ 0 \in Int
    OBVIOUS
  <1>2. InlineFraction(f) \in {f \div 4, f \div 2, f}
    BY DEF InlineFraction
  <1>3. ModuleFraction(f) \in {0, f \div 4, f \div 2, f}
    BY DEF ModuleFraction
  <1>4. Supervised(f) \in {0, f \div 4, f \div 2, f}
    BY <1>2, <1>3 DEF Supervised
  <1> QED BY <1>1, <1>4

LEMMA TargetFractionInt ==
  ASSUME NEW d \in Int, NEW s, NEW an, multiplier \in Nat
  PROVE  TargetFraction(d, s \in an) \in Int /\ (d <= 0 => TargetFraction(d, s \in an) = 0)
  <1> DEFINE big == Bigger(0, d)  wanted == big \div (IF s \in an THEN 2 ELSE 1)  scaled == (wanted * multiplier) \div 4
  <1>1. big \in Nat /\ (d <= 0 => big = 0)
    BY DEF Bigger
  <1>2. wanted \in Nat /\ (d <= 0 => wanted = 0)
    <2>1. PICK n \in {1, 2} : n = IF s \in an THEN 2 ELSE 1
      OBVIOUS
    <2> HIDE DEF big
    <2>2. big \div n \in Nat /\ 0 \div n = 0
      BY <1>1, <2>1
    <2> QED BY <1>1, <2>1, <2>2
  <1> HIDE DEF wanted
  <1>3. scaled \in Nat /\ (d <= 0 => scaled = 0)
    <2>1. PICK w \in Nat, m \in Nat : w = wanted /\ m = multiplier
      BY <1>2
    <2>2. w * m \in Nat
      BY ProductNat
    <2>3. (w * m) \div 4 \in Nat /\ 0 * m = 0 /\ 0 \div 4 = 0
      BY <2>2
    <2> QED BY <1>2, <2>1, <2>3
  <1> HIDE DEF scaled
  <1>4. Supervised(scaled) \in Int /\ (d <= 0 => Supervised(scaled) = 0)
    BY <1>3, SupervisedInt
  <1>5. TargetFraction(d, s \in an) = IF Supervised(scaled) > FullShare THEN FullShare ELSE Supervised(scaled)
    BY DEF TargetFraction, scaled, wanted
  <1> QED BY <1>4, <1>5 DEF FullShare

(* The account after each symbol of an action. *)
AlongPairs(f, d, an) ==
  f = [i \in 0 .. Len(Pairs) |->
         IF i = 0 THEN [margin EXCEPT !.refused = {}]
         ELSE Rebalance(f[i - 1], Pairs[i], TargetFraction(d[Pairs[i]], Pairs[i] \in an))]

LEMMA AlongPairsExists ==
  ASSUME Books(margin), market \in [PairSet -> MarketPrices], multiplier \in Nat, NEW d \in [PairSet -> Directions], NEW an
  PROVE  \E f : AlongPairs(f, d, an) /\ Rebalanced(d, an) = f[Len(Pairs)]
  <1> DEFINE n == Len(Pairs)
             Accounts == {a \in Money : Books(a)}
             base == [margin EXCEPT !.refused = {}]
             step(i, a) == Rebalance(a, Pairs[i], TargetFraction(d[Pairs[i]], Pairs[i] \in an))
             F == [c \in PairPlaces \X Accounts |-> step(c[1], c[2])]
  <1>1. n \in Nat /\ PairPlaces = 1 .. n
    BY PairsFinite DEF PairPlaces
  <1>2. base \in Accounts
    <2>1. PICK R : R = {}
      OBVIOUS
    <2>2. Books([margin EXCEPT !.refused = R])
      BY <2>1, RefusedBooks
    <2> QED BY <2>1, <2>2 DEF Books
  <1>3. ASSUME NEW i \in 1 .. n, NEW a \in Accounts PROVE F[<<i, a>>] \in Accounts /\ F[<<i, a>>] = step(i, a)
    <2>1. i \in PairPlaces /\ Pairs[i] \in PairSet /\ d[Pairs[i]] \in Int
      BY <1>1, PairsFinite, AgentAssumption
    <2>2. PICK s \in PairSet, f \in Int : s = Pairs[i] /\ f = TargetFraction(d[Pairs[i]], Pairs[i] \in an)
      <3>1. PICK x, p : x \in Int /\ x = d[Pairs[i]] /\ p = Pairs[i]
        BY <2>1
      <3>2. TargetFraction(x, p \in an) \in Int
        BY <3>1, TargetFractionInt
      <3>3. PICK y \in Int : y = TargetFraction(x, p \in an)
        BY <3>2
      <3> QED BY <2>1, <3>1, <3>3
    <2>3. Books(Rebalance(a, s, f))
      BY RebalanceBooks
    <2>4. <<i, a>> \in PairPlaces \X Accounts /\ <<i, a>>[1] = i /\ <<i, a>>[2] = a
      BY <2>1
    <2> HIDE DEF Accounts
    <2>5. F[<<i, a>>] = step(i, a)
      BY <2>4
    <2>6. step(i, a) \in Accounts
      BY <2>2, <2>3 DEF Books, Accounts
    <2> QED BY <2>5, <2>6
  <1> HIDE DEF F, n, Accounts, base, step
  <1>4. PICK f \in [0 .. n -> Accounts] : FoldedFrom(f, base, n, F)
    <2>1. PICK A, b, m, G : A = Accounts /\ b = base /\ m = n /\ G = F
      OBVIOUS
    <2>2. b \in A /\ m \in Nat /\ \A i \in 1 .. m, a \in A : G[<<i, a>>] \in A
      BY <1>1, <1>2, <1>3, <2>1
    <2>3. \E f \in [0 .. m -> A] : FoldedFrom(f, b, m, G)
      BY <2>2, FoldExists
    <2> QED BY <2>1, <2>3
  <1>5. ASSUME NEW i \in 0 .. n PROVE f[i] = IF i = 0 THEN base ELSE step(i, f[i - 1])
    <2>1. f[i] = IF i = 0 THEN base ELSE F[<<i, f[i - 1]>>]
      BY <1>4 DEF FoldedFrom
    <2>2. CASE i # 0
      <3>1. i \in 1 .. n /\ i - 1 \in 0 .. n
        BY <1>1, <2>2
      <3>2. f[i - 1] \in Accounts
        BY <1>4, <3>1
      <3> QED BY <1>3, <2>1, <2>2, <3>1, <3>2
    <2> QED BY <2>1, <2>2
  <1>6. AlongPairs(f, d, an)
    <2>1. f = [i \in 0 .. n |-> f[i]]
      BY <1>4
    <2>2. f = [i \in 0 .. n |-> IF i = 0 THEN base ELSE step(i, f[i - 1])]
      BY <1>5, <2>1
    <2> QED BY <2>2 DEF AlongPairs, n, base, step
  <1>7. \E g : AlongPairs(g, d, an)
    BY <1>6
  <1>8. Rebalanced(d, an) = (CHOOSE g : AlongPairs(g, d, an))[Len(Pairs)]
    BY DEF Rebalanced, AlongPairs
  <1>9. PICK h : h = CHOOSE g : AlongPairs(g, d, an)
    OBVIOUS
  <1>10. AlongPairs(h, d, an)
    BY <1>7, <1>9
  <1> QED BY <1>8, <1>9, <1>10

(* What is wanted to be closed is closed. *)
LEMMA RebalancedBooks ==
  ASSUME Books(margin), market \in [PairSet -> MarketPrices], multiplier \in Nat, NEW d \in [PairSet -> Directions], NEW an
  PROVE  /\ Books(Rebalanced(d, an))
         /\ \A s \in PairSet : d[s] <= 0 /\ market[s] > 0 => Rebalanced(d, an).held[s] = 0
  <1>1. PICK f : AlongPairs(f, d, an) /\ Rebalanced(d, an) = f[Len(Pairs)]
    BY AlongPairsExists
  <1> DEFINE n == Len(Pairs)
             Closed(i) == \A j \in PairPlaces : j <= i /\ d[Pairs[j]] <= 0 /\ market[Pairs[j]] > 0 => f[i].held[Pairs[j]] = 0
             S == {i \in 0 .. n : Books(f[i]) /\ Closed(i)}
  <1>2. n \in Nat /\ PairPlaces = 1 .. n
    BY PairsFinite DEF PairPlaces
  <1>3. 0 \in S
    <2>1. f[0] = [margin EXCEPT !.refused = {}]
      BY <1>1, <1>2 DEF AlongPairs
    <2>2. PICK R : R = {}
      OBVIOUS
    <2>3. Books([margin EXCEPT !.refused = R])
      BY <2>2, RefusedBooks
    <2>4. \A j \in PairPlaces : ~(j <= 0)
      BY <1>2
    <2> QED BY <1>2, <2>1, <2>2, <2>3, <2>4
  <1>4. ASSUME NEW i \in 1 .. n, i - 1 \in S PROVE i \in S
    <2>1. Books(f[i - 1]) /\ Closed(i - 1) /\ i \in PairPlaces /\ Pairs[i] \in PairSet /\ d[Pairs[i]] \in Int
      BY <1>2, <1>4, PairsFinite, AgentAssumption
    <2>2. PICK a, s, q : s \in PairSet /\ q \in Int /\ a = f[i - 1] /\ s = Pairs[i] /\ q = TargetFraction(d[Pairs[i]], Pairs[i] \in an)
      <3>1. PICK x, p : x \in Int /\ x = d[Pairs[i]] /\ p = Pairs[i]
        BY <2>1
      <3>2. TargetFraction(x, p \in an) \in Int
        BY <3>1, TargetFractionInt
      <3>3. PICK y \in Int : y = TargetFraction(x, p \in an)
        BY <3>2
      <3> QED BY <2>1, <3>1, <3>3
    <2>3. d[s] <= 0 => q = 0
      <3>1. PICK x, p : x \in Int /\ x = d[Pairs[i]] /\ p = Pairs[i]
        BY <2>1
      <3>2. x <= 0 => TargetFraction(x, p \in an) = 0
        BY <3>1, TargetFractionInt
      <3> QED BY <2>2, <3>1, <3>2
    <2>4. f[i] = Rebalance(a, s, q)
      <3>1. i # 0 /\ i \in 0 .. Len(Pairs)
        BY <1>2
      <3>2. f[i] = Rebalance(f[i - 1], Pairs[i], TargetFraction(d[Pairs[i]], Pairs[i] \in an))
        BY <1>1, <3>1 DEF AlongPairs
      <3> QED BY <2>2, <3>2
    <2>5. Books(f[i]) /\ Elsewhere(a, f[i], s) /\ (q = 0 /\ market[s] > 0 => f[i].held[s] = 0)
      BY <2>1, <2>2, <2>4, RebalanceBooks
    <2>6. Closed(i)
      <3> SUFFICES ASSUME NEW j \in PairPlaces, j <= i, d[Pairs[j]] <= 0, market[Pairs[j]] > 0 PROVE f[i].held[Pairs[j]] = 0
        OBVIOUS
      <3>1. CASE j = i
        BY <2>2, <2>3, <2>5, <3>1
      <3>2. CASE j # i
        <4>1. Pairs[j] # Pairs[i] /\ Pairs[j] \in PairSet
          BY <1>2, <3>2, AgentAssumption, PairsFinite
        <4>2. f[i].held[Pairs[j]] = a.held[Pairs[j]]
          BY <2>2, <2>5, <4>1 DEF Elsewhere
        <4>3. j <= i - 1
          BY <1>2, <3>2
        <4> QED BY <2>1, <2>2, <4>2, <4>3
      <3> QED BY <3>1, <3>2
    <2> QED BY <1>2, <2>5, <2>6
  <1>5. 0 .. n \subseteq S
    <2> HIDE DEF S
    <2> QED BY <1>2, <1>3, <1>4, CountUp
  <1>6. n \in S
    BY <1>2, <1>5
  <1>7. \A s \in PairSet : d[s] <= 0 /\ market[s] > 0 => Rebalanced(d, an).held[s] = 0
    <2> SUFFICES ASSUME NEW s \in PairSet, d[s] <= 0, market[s] > 0 PROVE f[n].held[s] = 0
      BY <1>1
    <2>1. PICK j \in PairPlaces : s = Pairs[j]
      BY PairsFinite
    <2>2. j <= n
      BY <1>2
    <2> QED BY <1>6, <2>1, <2>2
  <1> QED BY <1>1, <1>6, <1>7

-----------------------------------------------------------------------------
Observations == PairSet \X {1, 2}

LEMMA LargestIn ==
  ASSUME NEW n \in Nat, NEW K \in SUBSET (1 .. n), K # {}
  PROVE  \E i \in K : \A j \in K : j <= i
  <1> DEFINE Left == {n - i : i \in K}
  <1>1. Left \subseteq Nat /\ Left # {}
    <2>1. \A i \in K : n - i \in Nat
      OBVIOUS
    <2>2. PICK i \in K : TRUE
      OBVIOUS
    <2> QED BY <2>1, <2>2
  <1>2. PICK m \in Left : \A k \in Left : m <= k
    <2> HIDE DEF Left
    <2> QED BY <1>1, LeastNatural
  <1>3. PICK i \in K : m = n - i
    BY <1>2
  <1>4. ASSUME NEW j \in K PROVE j <= i
    <2>1. n - j \in Left
      OBVIOUS
    <2>2. n - i <= n - j
      BY <1>2, <1>3, <2>1
    <2> QED BY <2>2
  <1> QED BY <1>4

(* The chunks reach every observation. *)
LEMMA AllAnswered == ASSUME NEW n \in Nat PROVE AnsweredAt(n) = 1 .. n
  <1> SUFFICES ASSUME NEW i \in 1 .. n PROVE \E c \in ChunkStarts(n) : i \in c + 1 .. c + BatchLen
    BY DEF AnsweredAt
  <1>1. PICK k \in Nat, l \in Nat \ {0} : k = i - 1 /\ l = BatchLen
    BY AgentAssumption
  <1>2. k \div l \in Nat /\ k % l \in 0 .. l - 1 /\ k = l * (k \div l) + (k % l)
    BY <1>1
  <1>3. PICK q \in Nat, r \in 0 .. l - 1 : k = l * q + r
    BY <1>2
  <1>4. q * l \in Nat /\ l * q = q * l
    BY <1>1, <1>3, ProductNat
  <1>5. PICK c \in Nat : c = q * l
    BY <1>4
  <1>6. c % l = 0
    BY <1>1, <1>3, <1>5, MultipleDivides
  <1>7. c \in 0 .. n - 1 /\ i \in c + 1 .. c + l
    BY <1>1, <1>3, <1>4, <1>5
  <1> QED BY <1>1, <1>6, <1>7 DEF ChunkStarts

LEMMA BatchIsLatest ==
  ASSUME NEW obs \in Seq(Observations), obs # <<>>
  PROVE  LET ans == BatchAnswers(obs)
         IN  /\ ans # <<>>
             /\ DOMAIN ans = {obs[i][1] : i \in 1 .. Len(obs)}
             /\ \A s \in DOMAIN ans :
                  \E i \in 1 .. Len(obs) : obs[i] = <<s, ans[s]>> /\ \A j \in i + 1 .. Len(obs) : obs[j][1] # s
  <1>1. PICK n : n = Len(obs)
    OBVIOUS
  <1>2. n \in Nat /\ n > 0 /\ \A i \in 1 .. n : obs[i] \in Observations
    BY <1>1
  <1> DEFINE of(s) == {i \in 1 .. n : obs[i][1] = s}
             ans == [s \in {t \in PairSet : of(t) # {}} |-> obs[CHOOSE i \in of(s) : \A j \in of(s) : j <= i][2]]
  <1>3. BatchAnswers(obs) = ans
    <2>1. PICK A : A = AnsweredAt(Len(obs))
      OBVIOUS
    <2>2. A = 1 .. n
      BY <1>1, <1>2, <2>1, AllAnswered
    <2>3. BatchAnswers(obs) = [s \in {t \in PairSet : {i \in A : obs[i][1] = t} # {}} |->
                                obs[CHOOSE i \in {k \in A : obs[k][1] = s} : \A j \in {k \in A : obs[k][1] = s} : j <= i][2]]
      BY <2>1 DEF BatchAnswers
    <2> QED BY <2>2, <2>3
  <1>4. \A i \in 1 .. n : obs[i] = <<obs[i][1], obs[i][2]>> /\ obs[i][1] \in PairSet
    BY <1>2 DEF Observations
  <1>5. DOMAIN ans = {t \in PairSet : of(t) # {}}
    OBVIOUS
  <1>6. {t \in PairSet : of(t) # {}} = {obs[i][1] : i \in 1 .. n}
    BY <1>4
  <1>7. ASSUME NEW s \in PairSet, of(s) # {}
        PROVE  \E i \in 1 .. n : obs[i] = <<s, ans[s]>> /\ \A j \in i + 1 .. n : obs[j][1] # s
    <2>1. \E i \in of(s) : \A j \in of(s) : j <= i
      <3>1. of(s) \in SUBSET (1 .. n)
        OBVIOUS
      <3> HIDE DEF of
      <3> QED BY <1>2, <1>7, <3>1, LargestIn
    <2>2. PICK i : i = CHOOSE k \in of(s) : \A j \in of(s) : j <= k
      OBVIOUS
    <2>3. i \in of(s) /\ \A j \in of(s) : j <= i
      <3> HIDE DEF of
      <3> QED BY <2>1, <2>2
    <2>4. ans[s] = obs[i][2]
      <3> HIDE DEF of
      <3> QED BY <1>7, <2>2
    <2>5. \A j \in i + 1 .. n : obs[j][1] # s
      <3> SUFFICES ASSUME NEW j \in i + 1 .. n, obs[j][1] = s PROVE FALSE
        OBVIOUS
      <3>1. j \in of(s) /\ i \in Nat /\ j > i
        BY <1>2, <2>3
      <3> QED BY <2>3, <3>1
    <2> QED BY <1>4, <2>3, <2>4, <2>5
  <1>8. ans # <<>>
    <2>1. 1 \in 1 .. n
      BY <1>2
    <2>2. obs[1][1] \in DOMAIN ans
      BY <1>5, <1>6, <2>1
    <2>3. PICK e : e = <<>>
      OBVIOUS
    <2>4. DOMAIN e = {}
      BY <2>3
    <2> HIDE DEF ans
    <2> QED BY <2>2, <2>3, <2>4
  <1> HIDE DEF ans
  <1>9. \A s \in DOMAIN ans : \E i \in 1 .. n : obs[i] = <<s, ans[s]>> /\ \A j \in i + 1 .. n : obs[j][1] # s
    BY <1>5, <1>7
  <1> QED BY <1>1, <1>3, <1>5, <1>6, <1>8, <1>9

AgentInv ==
  /\ Books(margin) /\ market \in [PairSet -> MarketPrices] /\ sentiment \in Sentiments \cup {NoSentiment}
  /\ multiplier \in Nat /\ decisions \in Nat /\ ~refusedExit
  /\ pending \in Seq(Observations) /\ asked \in Seq(Observations)
  /\ answers = <<>> => asked = pending
  /\ answers # <<>> => pending = <<>>
  /\ AnswersLatest

LEMMA AnswersStay == ASSUME AnswersLatest, asked' = asked, answers' = answers PROVE AnswersLatest'
  BY Zenon DEF AnswersLatest

LEMMA AgentInvInit == AgentInit => AgentInv
  <1> SUFFICES ASSUME AgentInit PROVE AgentInv
    OBVIOUS
  <1> USE DEF AgentInit
  <1>1. margin \in Money /\ margin.onCredit = {} /\ margin.cash = Capital0 /\ margin.gains = 0 /\ margin.fees = 0 /\ margin.flows = 0
        /\ margin.rounding = 0 /\ margin.held = [s \in PairSet |-> 0] /\ margin.entry = [s \in PairSet |-> 0]
    <2>1. [s \in PairSet |-> 0] \in [PairSet -> Nat] /\ Capital0 \in Int
      BY AgentAssumption
    <2> QED BY <2>1 DEF Money
  <1>2. \A s \in PairSet : Tied(margin)[s] = 0
    <2> SUFFICES ASSUME NEW s \in PairSet PROVE Tied(margin)[s] = 0
      OBVIOUS
    <2>1. Tied(margin)[s] = margin.entry[s] * margin.held[s]
      BY <1>1, TiedNat
    <2> QED BY <1>1, <2>1
  <1>3. Total(Tied(margin), PairSet) = 0
    BY <1>2, PairsFinite, TotalZero
  <1>4. Books(margin)
    BY <1>1, <1>3, AgentAssumption DEF Books
  <1>5. market \in [PairSet -> MarketPrices]
    <2>1. PICK p : p = CHOOSE x \in MarketPrices : x > 0
      OBVIOUS
    <2>2. p \in MarketPrices
      BY <2>1, AgentAssumption
    <2> QED BY <2>1, <2>2
  <1>6. AnswersLatest
    BY DEF AnswersLatest
  <1> QED BY <1>4, <1>5, <1>6 DEF AgentInv

LEMMA ActionKeeps ==
  ASSUME AgentInv, NEW d \in [PairSet -> Directions], NEW an, ProcessAction(d, an)
  PROVE  AgentInv'
  <1>1. Books(margin) /\ market \in [PairSet -> MarketPrices] /\ multiplier \in Nat /\ decisions \in Nat
    BY DEF AgentInv
  <1>2. PICK after : after = Rebalanced(d, an)
    OBVIOUS
  <1>3. Books(after) /\ \A s \in PairSet : d[s] <= 0 /\ market[s] > 0 => after.held[s] = 0
    BY <1>1, <1>2, RebalancedBooks
  <1>4. margin' = after /\ refusedExit' = (\E s \in PairSet : d[s] <= 0 /\ market[s] > 0 /\ after.held[s] > 0)
        /\ decisions' = decisions + 1
        /\ UNCHANGED <<market, sentiment, multiplier, supervisor, pending, asked, answers, inferences, part>>
    BY <1>2 DEF ProcessAction
  <1>5. ~refusedExit'
    BY <1>3, <1>4
  <1>6. AnswersLatest'
    BY <1>4, AnswersStay DEF AgentInv
  <1> QED BY <1>1, <1>3, <1>4, <1>5, <1>6 DEF AgentInv

LEMMA DirectKeeps ==
  ASSUME AgentInv, NEW side \in {"buy", "sell"}, NEW qty \in {4, 10}, TradeDirectly(Pairs[1], side, qty)
  PROVE  AgentInv'
  <1>1. Books(margin) /\ market \in [PairSet -> MarketPrices] /\ decisions \in Nat
    BY DEF AgentInv
  <1>2. PICK s, R, q : s = Pairs[1] /\ R = {} /\ q = qty
    OBVIOUS
  <1>3. s \in PairSet /\ R \in SUBSET PairSet /\ q \in Nat \ {0}
    <2>1. 1 \in PairPlaces
      BY AgentAssumption DEF PairPlaces
    <2> QED BY <1>2, <2>1, PairsFinite
  <1>4. market[s] \in Nat \ {0}
    BY <1>1, <1>2, <1>3, AgentAssumption DEF TradeDirectly
  <1>5. PICK a, p : a = [margin EXCEPT !.refused = R] /\ p = market[s]
    OBVIOUS
  <1>6. Books(a)
    BY <1>1, <1>3, <1>5, RefusedBooks
  <1>7. Books(ExecuteTrade(a, s, side, q, p))
    BY <1>3, <1>4, <1>5, <1>6, ExecuteBooks
  <1>8. margin' = ExecuteTrade(a, s, side, q, p) /\ decisions' = decisions + 1 /\ refusedExit' = FALSE
        /\ UNCHANGED <<market, sentiment, multiplier, supervisor, pending, asked, answers, inferences, part>>
    BY <1>2, <1>5 DEF TradeDirectly
  <1>9. AnswersLatest'
    BY <1>8, AnswersStay DEF AgentInv
  <1> QED BY <1>1, <1>7, <1>8, <1>9 DEF AgentInv

LEMMA WorldKeeps == ASSUME AgentInv, World PROVE AgentInv'
  <1>1. UNCHANGED <<margin, decisions, refusedExit, pending, asked, answers>>
    BY DEF World
  <1>2. market' \in [PairSet -> MarketPrices]
    BY DEF World, AgentInv
  <1>3. sentiment' \in Sentiments \cup {NoSentiment}
    BY DEF World, AgentInv
  <1>4. multiplier' \in Nat
    BY AgentAssumption DEF World, AgentInv
  <1>5. AnswersLatest'
    BY <1>1, AnswersStay DEF AgentInv
  <1> QED BY <1>1, <1>2, <1>3, <1>4, <1>5 DEF AgentInv

LEMMA BatchKeeps ==
  ASSUME AgentInv, NEW failed, NEW raises \in BOOLEAN, ProcessBatch(failed, raises)
  PROVE  AgentInv'
  <1>1. UNCHANGED <<margin, market, sentiment, multiplier, supervisor, decisions, refusedExit, part>>
    BY DEF ProcessBatch
  <1>2. CASE raises
    <2>1. UNCHANGED <<pending, asked, answers>>
      BY <1>2 DEF ProcessBatch
    <2>2. AnswersLatest'
      BY <2>1, AnswersStay DEF AgentInv
    <2> QED BY <1>1, <2>1, <2>2 DEF AgentInv
  <1>3. CASE ~raises
    <2>1. answers' = BatchAnswers(pending) /\ pending' = <<>> /\ asked' = asked /\ pending # <<>>
      BY <1>3 DEF ProcessBatch
    <2>2. pending \in Seq(Observations) /\ asked = pending
      BY <2>1 DEF AgentInv
    <2>3. PICK obs : obs = pending
      OBVIOUS
    <2>4. PICK ans : ans = BatchAnswers(obs)
      OBVIOUS
    <2>5. /\ ans # <<>>
          /\ DOMAIN ans = {obs[i][1] : i \in 1 .. Len(obs)}
          /\ \A s \in DOMAIN ans :
               \E i \in 1 .. Len(obs) : obs[i] = <<s, ans[s]>> /\ \A j \in i + 1 .. Len(obs) : obs[j][1] # s
      <3>1. obs \in Seq(Observations) /\ obs # <<>>
        BY <2>1, <2>2, <2>3
      <3>2. LET b == BatchAnswers(obs)
            IN  /\ b # <<>>
                /\ DOMAIN b = {obs[i][1] : i \in 1 .. Len(obs)}
                /\ \A s \in DOMAIN b :
                     \E i \in 1 .. Len(obs) : obs[i] = <<s, b[s]>> /\ \A j \in i + 1 .. Len(obs) : obs[j][1] # s
        BY <3>1, BatchIsLatest
      <3> QED BY <2>4, <3>2
    <2>6. answers' = ans /\ asked' = obs
      BY <2>1, <2>2, <2>3, <2>4
    <2>7. AnswersLatest'
      BY <2>5, <2>6, Zenon DEF AnswersLatest
    <2>8. pending' \in Seq(Observations)
      BY <2>1
    <2> QED BY <1>1, <2>1, <2>2, <2>3, <2>5, <2>6, <2>7, <2>8 DEF AgentInv
  <1> QED BY <1>2, <1>3

LEMMA AddedKeeps ==
  ASSUME AgentInv, NEW s \in PairSet, NEW obs \in {1, 2}, AddObservation(s, obs)
  PROVE  AgentInv'
  <1>1. UNCHANGED <<margin, market, sentiment, multiplier, supervisor, refusedExit, answers, inferences, part>> /\ answers = <<>>
        /\ pending' = Append(pending, <<s, obs>>) /\ asked' = Append(asked, <<s, obs>>) /\ decisions' = decisions + 1
    BY DEF AddObservation
  <1>2. pending \in Seq(Observations) /\ asked = pending /\ decisions \in Nat
    BY <1>1 DEF AgentInv
  <1>3. pending' \in Seq(Observations) /\ asked' = pending' /\ decisions' \in Nat
    BY <1>1, <1>2 DEF Observations
  <1>4. AnswersLatest'
    BY <1>1 DEF AnswersLatest
  <1> QED BY <1>1, <1>3, <1>4 DEF AgentInv

LEMMA CollectKeeps == ASSUME AgentInv, Collect PROVE AgentInv'
  <1>1. AnswersLatest'
    BY DEF Collect, AnswersLatest
  <1> QED BY <1>1 DEF AgentInv, Collect

(* The live agent's books balance over any trades, a position the policy wants closed is closed,       *)
(* nothing is bought without cash, and a batch answers every symbol from its latest observation        *)
(* however its chunks fail, for any symbols and prices (rl/agent_integration.py).                      *)
THEOREM AgentIsSound == AgentSpec => []AgentSound
  <1>1. AgentInv /\ [AgentNext]_agentVars => AgentInv'
    <2> SUFFICES ASSUME AgentInv, [AgentNext]_agentVars PROVE AgentInv'
      OBVIOUS
    <2>1. CASE \E d \in [PairSet -> Directions], an \in {{}, {Pairs[1]}} : ProcessAction(d, an)
      BY <2>1, ActionKeeps
    <2>2. CASE \E side \in {"buy", "sell"}, qty \in {4, 10} : TradeDirectly(Pairs[1], side, qty)
      BY <2>2, DirectKeeps
    <2>3. CASE World
      BY <2>3, WorldKeeps
    <2>4. CASE \E s \in PairSet, obs \in {1, 2} : AddObservation(s, obs)
      BY <2>4, AddedKeeps
    <2>5. CASE \E failed \in SUBSET {0, BatchLen}, raises \in BOOLEAN : ProcessBatch(failed, raises)
      BY <2>5, BatchKeeps
    <2>6. CASE Collect
      BY <2>6, CollectKeeps
    <2>7. CASE UNCHANGED agentVars
      <3>1. AnswersLatest'
        BY <2>7, AnswersStay DEF agentVars, AgentInv
      <3> QED BY <2>7, <3>1 DEF agentVars, AgentInv
    <2> QED BY <2>1, <2>2, <2>3, <2>4, <2>5, <2>6, <2>7 DEF AgentNext
  <1>2. AgentInv => AgentSound
    <2> SUFFICES ASSUME AgentInv PROVE AgentSound
      OBVIOUS
    <2>1. margin \in Money /\ Total(Tied(margin), PairSet) = margin.gains - margin.flows - margin.rounding
      BY DEF AgentInv, Books
    <2>2. SumOver([s \in PairSet |-> margin.entry[s] * margin.held[s]]) = Total(Tied(margin), PairSet)
      BY DEF SumOver, Total, Tied
    <2>3. AgentBooksBalance
      BY <2>1, <2>2 DEF AgentInv, Books, AgentBooksBalance
    <2>4. AgentTypeOK
      BY <2>1 DEF AgentInv, AgentTypeOK, Money, Observations
    <2> QED BY <2>3, <2>4 DEF AgentInv, AgentSound, ExitsGoThrough, NothingOnCredit, Books
  <1> QED BY AgentInvInit, <1>1, <1>2, PTL DEF AgentSpec

-----------------------------------------------------------------------------
(* The replay buffer, its tree of sums, and the drift detector. *)

LastNode == 2 * Capacity - 2

LEMMA NodesAre ==
  /\ LastNode \in Nat /\ Nodes = 0 .. LastNode /\ Leaves = Capacity - 1 .. LastNode /\ Leaves \subseteq Nodes
  /\ Capacity \in Nat /\ Capacity >= 2 /\ IsFiniteSet(Nodes) /\ IsFiniteSet(Leaves)
  <1>1. LastNode \in Nat /\ Capacity \in Nat /\ Capacity >= 2
    BY ReplayAssumption DEF LastNode
  <1>2. Nodes = 0 .. LastNode /\ Leaves = Capacity - 1 .. LastNode /\ Leaves \subseteq Nodes
    BY <1>1 DEF Nodes, Leaves, LastNode
  <1>3. IsFiniteSet(Nodes)
    <2>1. IsFiniteSet(0 .. LastNode)
      BY <1>1, FS_Interval
    <2> QED BY <1>2, <2>1
  <1>4. IsFiniteSet(Leaves)
    BY <1>2, <1>3, FS_Subset
  <1> QED BY <1>1, <1>2, <1>3, <1>4

LEMMA ParentIs ==
  ASSUME NEW n \in Nodes, n # 0
  PROVE  /\ Parent(n) \in Nodes /\ Parent(n) < n /\ Parent(n) \notin Leaves
         /\ \A m \in Nat : (n = 2 * m + 1 \/ n = 2 * m + 2) <=> m = Parent(n)
  <1>1. n \in Nat \ {0} /\ n <= 2 * Capacity - 2 /\ Capacity \in Nat
    BY NodesAre DEF LastNode
  <1>2. PICK p \in Nat : p = Parent(n) /\ 2 * p <= n - 1 /\ n - 1 <= 2 * p + 1
    BY <1>1 DEF Parent
  <1> QED BY <1>1, <1>2, NodesAre DEF LastNode, Nodes, Leaves

LEMMA AboveIs ==
  \A n \in Nodes : /\ Above[n] = IF n = 0 THEN {} ELSE {Parent(n)} \cup Above[Parent(n)]
                   /\ Above[n] \in SUBSET Nodes
  <1> DEFINE A == SUBSET Nodes
             T == [0 .. LastNode -> A]
             F == [c \in (0 .. LastNode) \X T |-> IF c[1] = 0 THEN {} ELSE {Parent(c[1])} \cup c[2][Parent(c[1])]]
             g0 == [i \in 0 .. LastNode |-> {}]
             IsAbove(f) == f = [n \in Nodes |-> IF n = 0 THEN {} ELSE {Parent(n)} \cup f[Parent(n)]]
  <1>1. LastNode \in Nat /\ Nodes = 0 .. LastNode
    BY NodesAre
  <1>2. g0 \in T
    OBVIOUS
  <1>3. ASSUME NEW i \in 0 .. LastNode, NEW g \in T
        PROVE  F[<<i, g>>] = (IF i = 0 THEN {} ELSE {Parent(i)} \cup g[Parent(i)]) /\ F[<<i, g>>] \in A
    <2>1. F[<<i, g>>] = IF i = 0 THEN {} ELSE {Parent(i)} \cup g[Parent(i)]
      <3>1. <<i, g>> \in (0 .. LastNode) \X T /\ <<i, g>>[1] = i /\ <<i, g>>[2] = g
        OBVIOUS
      <3> HIDE DEF T
      <3> QED BY <3>1
    <2>2. i # 0 => Parent(i) \in Nodes /\ g[Parent(i)] \in A
      BY <1>1, ParentIs
    <2> HIDE DEF F
    <2> QED BY <2>1, <2>2
  <1>4. ASSUME NEW i \in 0 .. LastNode, NEW g \in T, NEW h \in T, Agree(g, h, i)
        PROVE  F[<<i, g>>] = F[<<i, h>>]
    <2>1. i # 0 => Parent(i) \in 0 .. i - 1
      BY <1>1, ParentIs
    <2>2. i # 0 => g[Parent(i)] = h[Parent(i)]
      BY <1>4, <2>1 DEF Agree
    <2>3. F[<<i, g>>] = (IF i = 0 THEN {} ELSE {Parent(i)} \cup g[Parent(i)]) /\ F[<<i, h>>] = (IF i = 0 THEN {} ELSE {Parent(i)} \cup h[Parent(i)])
      BY <1>3
    <2> HIDE DEF F, T
    <2> QED BY <2>2, <2>3
  <1> HIDE DEF A, F, g0
  <1>5. PICK f \in T : \A i \in 0 .. LastNode : f[i] = F[<<i, f>>]
    <2>1. PICK n, a, G, g : n = LastNode /\ a = A /\ G = F /\ g = g0
      OBVIOUS
    <2>2. n \in Nat /\ g \in [0 .. n -> a]
      BY <1>1, <1>2, <2>1
    <2>3. FromBelow(G, a, n)
      <3>1. \A i \in 0 .. LastNode : \A k \in T : F[<<i, k>>] \in A
        BY <1>3
      <3>2. \A i \in 0 .. LastNode : \A k, h \in T : Agree(k, h, i) => F[<<i, k>>] = F[<<i, h>>]
        BY <1>4
      <3>3. FromBelow(F, A, LastNode)
        BY <3>1, <3>2, Zenon DEF FromBelow
      <3> QED BY <2>1, <3>3
    <2>5. \E f \in [0 .. n -> a] : Solves(f, G, n)
      BY <2>2, <2>3, RecursionExists
    <2> QED BY <2>1, <2>5 DEF Solves
  <1>6. IsAbove(f)
    <2>1. \A n \in Nodes : f[n] = IF n = 0 THEN {} ELSE {Parent(n)} \cup f[Parent(n)]
      BY <1>1, <1>3, <1>5
    <2>2. f = [n \in Nodes |-> f[n]]
      BY <1>1, <1>5
    <2> QED BY <2>1, <2>2
  <1>7. PICK h : h = CHOOSE g : IsAbove(g)
    OBVIOUS
  <1>8. IsAbove(h)
    <2> HIDE DEF IsAbove
    <2> QED BY <1>6, <1>7
  <1>9. Above = h
    BY <1>7 DEF Above
  <1>10. \A n \in Nodes : Above[n] = IF n = 0 THEN {} ELSE {Parent(n)} \cup Above[Parent(n)]
    BY <1>8, <1>9
  <1>11. \A n \in Nodes : Above[n] \in SUBSET Nodes
    <2> DEFINE S == {n \in 0 .. LastNode : \A m \in 0 .. n : Above[m] \in SUBSET Nodes}
    <2>1. 0 \in S
      <3>1. Above[0] = {}
        <4>1. 0 \in Nodes
          BY <1>1
        <4> QED BY <1>10, <4>1
      <3>2. \A m \in 0 .. 0 : m = 0
        OBVIOUS
      <3> QED BY <1>1, <3>1, <3>2
    <2>2. ASSUME NEW n \in 1 .. LastNode, n - 1 \in S PROVE n \in S
      <3>1. n \in Nodes /\ n # 0 /\ Parent(n) \in 0 .. n - 1 /\ Parent(n) \in Nodes
        BY <1>1, ParentIs
      <3>2. Above[n] = {Parent(n)} \cup Above[Parent(n)]
        BY <1>10, <3>1
      <3>3. Above[n] \in SUBSET Nodes
        BY <2>2, <3>1, <3>2
      <3> QED BY <2>2, <3>3
    <2>3. 0 .. LastNode \subseteq S
      <3> HIDE DEF S
      <3> QED BY <1>1, <2>1, <2>2, CountUp
    <2> QED BY <1>1, <2>3
  <1> QED BY <1>10, <1>11

(* The way from a node up to the root. *)
PathOf(n) == {n} \cup Above[n]

(* An inner node is on the way if one of its children is, and then exactly one. *)
OneChildOf(x, m) ==
  /\ ~(2 * m + 1 \in PathOf(x) /\ 2 * m + 2 \in PathOf(x))
  /\ m \in Above[x] <=> 2 * m + 1 \in PathOf(x) \/ 2 * m + 2 \in PathOf(x)

LEMMA PathClimbs ==
  ASSUME NEW x \in Nodes
  PROVE  /\ \A m \in Nodes : OneChildOf(x, m)
         /\ \A y \in Above[x] : y < x /\ y \notin Leaves
         /\ 0 \in PathOf(x)
  <1> DEFINE Good(n) == /\ \A m \in Nodes : OneChildOf(n, m)
                        /\ \A y \in Above[n] : y < n /\ y \notin Leaves
                        /\ 0 \in PathOf(n)
             S == {n \in 0 .. LastNode : \A k \in 0 .. n : Good(k)}
  <1>1. LastNode \in Nat /\ Nodes = 0 .. LastNode
    BY NodesAre
  <1>2. 0 \in S
    <2>1. Above[0] = {} /\ PathOf(0) = {0}
      <3>1. 0 \in Nodes
        BY <1>1
      <3>2. Above[0] = {}
        BY <3>1, AboveIs
      <3> QED BY <3>2 DEF PathOf
    <2>2. \A m \in Nodes : 2 * m + 1 # 0 /\ 2 * m + 2 # 0
      BY <1>1
    <2>3. Good(0)
      BY <2>1, <2>2 DEF OneChildOf
    <2> QED BY <1>1, <2>3
  <1>3. ASSUME NEW n \in 1 .. LastNode, n - 1 \in S PROVE n \in S
    <2> DEFINE p == Parent(n)
    <2>1. n \in Nodes /\ n \in Nat /\ n # 0 /\ p \in 0 .. n - 1 /\ p \in Nodes /\ p \in Nat /\ p < n /\ p \notin Leaves
          /\ \A m \in Nat : (n = 2 * m + 1 \/ n = 2 * m + 2) <=> m = p
      BY <1>1, ParentIs
    <2> HIDE DEF p
    <2>2. Good(p)
      BY <1>3, <2>1
    <2>3. Above[n] = {p} \cup Above[p] /\ PathOf(n) = {n, p} \cup Above[p] /\ PathOf(p) = {p} \cup Above[p] /\ Above[p] \subseteq Nodes
      BY <2>1, AboveIs DEF PathOf, p
    <2>4. \A y \in PathOf(p) : y \in Nat /\ y <= p
      BY <1>1, <2>1, <2>2, <2>3
    <2>5. ASSUME NEW m \in Nodes PROVE OneChildOf(n, m)
      <3>1. PICK a, b : a = 2 * m + 1 /\ b = 2 * m + 2
        OBVIOUS
      <3>2. m \in Nat /\ a \in Nat /\ b \in Nat /\ a # b /\ ((n = a \/ n = b) <=> m = p)
        BY <1>1, <2>1, <3>1
      <3>3. CASE m = p
        <4>1. a > p /\ b > p
          BY <2>1, <3>1, <3>3
        <4>2. a \notin PathOf(p) /\ b \notin PathOf(p)
          BY <2>1, <2>4, <3>2, <4>1
        <4>3. m \in Above[n]
          BY <2>3, <3>3
        <4> QED BY <2>3, <3>1, <3>2, <3>3, <4>2, <4>3 DEF OneChildOf
      <3>4. CASE m # p
        <4>1. a # n /\ b # n
          BY <3>2, <3>4
        <4>2. (a \in PathOf(n) <=> a \in PathOf(p)) /\ (b \in PathOf(n) <=> b \in PathOf(p))
          BY <2>3, <4>1
        <4>3. m \in Above[n] <=> m \in Above[p]
          BY <2>3, <3>4
        <4>4. OneChildOf(p, m)
          BY <2>2
        <4> QED BY <3>1, <4>2, <4>3, <4>4 DEF OneChildOf
      <3> QED BY <3>3, <3>4
    <2>6. \A y \in Above[n] : y < n /\ y \notin Leaves
      BY <2>1, <2>2, <2>3, <2>4
    <2>7. 0 \in PathOf(n)
      BY <2>2, <2>3
    <2>8. Good(n)
      BY <2>5, <2>6, <2>7
    <2> HIDE DEF Good
    <2> QED BY <1>3, <2>8
  <1>4. 0 .. LastNode \subseteq S
    <2> HIDE DEF S
    <2> QED BY <1>1, <1>2, <1>3, CountUp
  <1>5. Good(x)
    <2>1. x \in S /\ x \in 0 .. x
      BY <1>1, <1>4
    <2> HIDE DEF Good
    <2> QED BY <2>1
  <1> QED BY <1>5

SumsOfTree(t) == \A n \in Nodes \ Leaves : t[n] = t[2 * n + 1] + t[2 * n + 2]
SumTree(t) == t \in [Nodes -> Nat] /\ SumsOfTree(t)

LEMMA ChildrenAre ==
  ASSUME NEW n \in Nodes
  PROVE  /\ n \in Leaves => 2 * n + 1 \notin Nodes
         /\ n \notin Leaves => /\ 2 * n + 1 \in Nodes /\ 2 * n + 2 \in Nodes
                               /\ n < 2 * n + 1 /\ n < 2 * n + 2 /\ 2 * n + 1 # 2 * n + 2
  BY NodesAre DEF LastNode

(* What holds of every leaf, and of every node both of whose children have it, holds of all nodes. *)
LEMMA LeavesUp ==
  ASSUME NEW Q \in SUBSET Nodes, Leaves \subseteq Q,
         \A n \in Nodes \ Leaves : 2 * n + 1 \in Q /\ 2 * n + 2 \in Q => n \in Q
  PROVE  Nodes \subseteq Q
  <1> DEFINE S == {i \in 0 .. LastNode : \A k \in 0 .. i : LastNode - k \in Q}
  <1>1. LastNode \in Nat /\ Nodes = 0 .. LastNode
    BY NodesAre
  <1>2. ASSUME NEW i \in 0 .. LastNode, \A k \in 0 .. i - 1 : LastNode - k \in Q PROVE LastNode - i \in Q
    <2>1. PICK n \in Nodes : n = LastNode - i
      BY <1>1
    <2>2. CASE n \in Leaves
      BY <2>1, <2>2
    <2>3. CASE n \notin Leaves
      <3>1. PICK a \in Nodes, b \in Nodes : a = 2 * n + 1 /\ b = 2 * n + 2 /\ n < a /\ n < b
        BY <2>3, ChildrenAre
      <3>2. LastNode - a \in 0 .. i - 1 /\ LastNode - b \in 0 .. i - 1
        BY <1>1, <2>1, <3>1
      <3>3. LastNode - (LastNode - a) = a /\ LastNode - (LastNode - b) = b
        BY <1>1, <3>1
      <3>4. a \in Q /\ b \in Q
        BY <1>2, <3>2, <3>3
      <3> QED BY <2>1, <2>3, <3>1, <3>4
    <2> QED BY <2>2, <2>3
  <1>3. 0 \in S
    <2>1. \A k \in 0 .. 0 - 1 : LastNode - k \in Q
      OBVIOUS
    <2>2. PICK z \in 0 .. LastNode : z = 0
      BY <1>1
    <2>3. LastNode - z \in Q
      BY <1>2, <2>1, <2>2
    <2>4. \A k \in 0 .. 0 : k = z
      BY <2>2
    <2> QED BY <2>2, <2>3, <2>4
  <1>4. ASSUME NEW i \in 1 .. LastNode, i - 1 \in S PROVE i \in S
    <2>1. \A k \in 0 .. i - 1 : LastNode - k \in Q
      BY <1>4
    <2>2. i \in 0 .. LastNode
      OBVIOUS
    <2>3. LastNode - i \in Q
      BY <1>2, <2>1, <2>2
    <2>4. \A k \in 0 .. i : k = i \/ k \in 0 .. i - 1
      BY <2>2
    <2> QED BY <2>1, <2>2, <2>3, <2>4
  <1>5. 0 .. LastNode \subseteq S
    <2> HIDE DEF S
    <2> QED BY <1>1, <1>3, <1>4, CountUp
  <1>6. ASSUME NEW n \in Nodes PROVE n \in Q
    <2>1. PICK k \in 0 .. LastNode : k = LastNode - n
      BY <1>1
    <2>2. k \in S /\ k \in 0 .. k /\ LastNode - k = n
      BY <1>1, <1>5, <2>1
    <2> QED BY <2>2
  <1> QED BY <1>6

LEMMA SetPriorityIs ==
  ASSUME NEW t \in [Nodes -> Int], NEW leaf \in Leaves, NEW p \in Int
  PROVE  LET u == SetPriority(t, leaf, p)
         IN  /\ u \in [Nodes -> Int]
             /\ \A n \in Nodes : u[n] = IF n \in PathOf(leaf) THEN t[n] + (p - t[leaf]) ELSE t[n]
  <1>1. leaf \in Nodes /\ leaf \notin Above[leaf]
    <2>1. leaf \in Nodes
      BY NodesAre
    <2> QED BY <2>1, PathClimbs
  <1>2. PICK w, d : w = [t EXCEPT ![leaf] = p] /\ d = p - t[leaf]
    OBVIOUS
  <1>3. w \in [Nodes -> Int] /\ w[leaf] = p /\ (\A n \in Nodes \ {leaf} : w[n] = t[n]) /\ d \in Int
    BY <1>1, <1>2
  <1>4. PICK u : u = SetPriority(t, leaf, p)
    OBVIOUS
  <1>5. u = [n \in Nodes |-> IF n \in Above[leaf] THEN w[n] + d ELSE w[n]]
    BY <1>2, <1>4 DEF SetPriority, Propagate
  <1>6. ASSUME NEW n \in Nodes PROVE u[n] \in Int /\ u[n] = IF n \in PathOf(leaf) THEN t[n] + d ELSE t[n]
    <2>1. CASE n = leaf
      BY <1>1, <1>2, <1>3, <1>5, <2>1 DEF PathOf
    <2>2. CASE n # leaf
      BY <1>3, <1>5, <2>2 DEF PathOf
    <2> QED BY <2>1, <2>2
  <1>7. u \in [Nodes -> Int]
    BY <1>5, <1>6
  <1> QED BY <1>2, <1>4, <1>6, <1>7

LEMMA SetPriorityKeeps ==
  ASSUME NEW t, SumTree(t), NEW leaf \in Leaves, NEW p \in Nat
  PROVE  LET u == SetPriority(t, leaf, p)
         IN  SumTree(u) /\ u[leaf] = p /\ \A k \in Leaves \ {leaf} : u[k] = t[k]
  <1>1. PICK u : u = SetPriority(t, leaf, p)
    OBVIOUS
  <1>2. t \in [Nodes -> Int] /\ t \in [Nodes -> Nat] /\ leaf \in Nodes /\ p \in Int
    BY NodesAre DEF SumTree
  <1>3. PICK d \in Int : d = p - t[leaf]
    BY <1>2
  <1>4. u \in [Nodes -> Int] /\ \A n \in Nodes : u[n] = IF n \in PathOf(leaf) THEN t[n] + d ELSE t[n]
    BY <1>1, <1>2, <1>3, SetPriorityIs
  <1>5. u[leaf] = p
    BY <1>2, <1>3, <1>4 DEF PathOf
  <1>6. ASSUME NEW k \in Leaves \ {leaf} PROVE u[k] = t[k]
    <2>1. k \in Nodes
      BY NodesAre
    <2>2. k \notin PathOf(leaf)
      BY <1>2, PathClimbs DEF PathOf
    <2> QED BY <1>4, <2>1, <2>2
  <1>7. ASSUME NEW n \in Nodes \ Leaves PROVE u[n] = u[2 * n + 1] + u[2 * n + 2]
    <2>1. PICK a \in Nodes, b \in Nodes : a = 2 * n + 1 /\ b = 2 * n + 2
      BY ChildrenAre
    <2>2. t[n] = t[a] + t[b]
      BY <2>1 DEF SumTree, SumsOfTree
    <2>3. ~(a \in PathOf(leaf) /\ b \in PathOf(leaf)) /\ (n \in Above[leaf] <=> a \in PathOf(leaf) \/ b \in PathOf(leaf))
      BY <1>2, <2>1, PathClimbs DEF OneChildOf
    <2>4. n \in PathOf(leaf) <=> n \in Above[leaf]
      BY DEF PathOf
    <2>5. t[n] \in Nat /\ t[a] \in Nat /\ t[b] \in Nat
      BY <1>2
    <2>6. u[n] = u[a] + u[b]
      BY <1>3, <1>4, <2>2, <2>3, <2>4, <2>5
    <2> QED BY <2>1, <2>6
  <1>8. u \in [Nodes -> Nat]
    <2> DEFINE Q == {n \in Nodes : u[n] \in Nat}
    <2>1. ASSUME NEW k \in Leaves PROVE k \in Q
      <3>1. k \in Nodes
        BY NodesAre
      <3> QED BY <1>2, <1>5, <1>6, <3>1
    <2>2. ASSUME NEW n \in Nodes \ Leaves, 2 * n + 1 \in Q, 2 * n + 2 \in Q PROVE n \in Q
      BY <1>7, <2>2
    <2>3. Nodes \subseteq Q
      <3>1. Q \in SUBSET Nodes /\ Leaves \subseteq Q
        BY <2>1
      <3> HIDE DEF Q
      <3> QED BY <2>2, <3>1, LeavesUp
    <2> QED BY <1>4, <2>3
  <1> QED BY <1>1, <1>5, <1>6, <1>7, <1>8 DEF SumTree, SumsOfTree

Slots == 0 .. Capacity - 1
Exps == [td : Nat, known : BOOLEAN]
Buffers == [tree : [Nodes -> Nat], pointer : Slots, leaves : 0 .. Capacity, data : [Slots -> Exps \cup {NoExp}],
            position : Slots, size : 0 .. Capacity, max : Nat]

(* What holds of the buffer, and of the one save() wrote. *)
PrioritiesRight(t, data) ==
  \A leaf \in Leaves : data[SlotOf(leaf)] # NoExp =>
    t[leaf] \in {Priority(data[SlotOf(leaf)].td, FALSE), Priority(data[SlotOf(leaf)].td, data[SlotOf(leaf)].known)}
GoodBuffer(b) ==
  /\ b \in Buffers /\ SumTree(b.tree) /\ b.pointer = b.position /\ b.leaves = b.size
  /\ \A i \in Slots : i < b.size => b.data[i] # NoExp
  /\ b.size < Capacity => b.position = b.size
  /\ PrioritiesRight(b.tree, b.data)
  /\ \A i \in Slots : b.data[i] # NoExp => b.data[i].td <= b.max
Phantom(b, leaf) == b.tree[leaf] > 0 /\ b.data[SlotOf(leaf)] = NoExp

LEMMA SlotsAre ==
  /\ \A leaf \in Leaves : SlotOf(leaf) \in Slots /\ SlotOf(leaf) + Capacity - 1 = leaf
  /\ \A i \in Slots : i + Capacity - 1 \in Leaves /\ SlotOf(i + Capacity - 1) = i
  /\ \A leaf, k \in Leaves : SlotOf(leaf) = SlotOf(k) => leaf = k
  BY NodesAre DEF Leaves, Slots, SlotOf, LastNode

LEMMA PriorityNat ==
  ASSUME NEW td \in Nat, NEW boosted
  PROVE  Priority(td, boosted) \in Nat /\ Priority(td, boosted) > 0
  <1>1. PICK x \in Nat \ {0}, y \in Nat \ {0} : x = td + Epsilon /\ y = IF boosted THEN Boost ELSE 1
    BY ReplayAssumption
  <1>2. x * y \in Nat \ {0}
    BY <1>1
  <1> QED BY <1>1, <1>2 DEF Priority

LEMMA EmptyIsGood == GoodBuffer(EmptyBuffer) /\ \A leaf \in Leaves : ~Phantom(EmptyBuffer, leaf)
  <1>1. PICK t, data : t = [n \in Nodes |-> 0] /\ data = [i \in Slots |-> NoExp]
    OBVIOUS
  <1>2. Capacity \in Nat \ {0} /\ 0 \in Slots /\ 0 \in 0 .. Capacity
    BY NodesAre DEF Slots
  <1>3. t \in [Nodes -> Nat] /\ data \in [Slots -> Exps \cup {NoExp}]
    BY <1>1
  <1>4. EmptyBuffer = [tree |-> t, pointer |-> 0, leaves |-> 0, data |-> data, position |-> 0, size |-> 0, max |-> 1]
    BY <1>1 DEF EmptyBuffer, Slots
  <1>5. EmptyBuffer \in Buffers /\ EmptyBuffer.tree = t /\ EmptyBuffer.data = data /\ EmptyBuffer.size = 0 /\ EmptyBuffer.leaves = 0
        /\ EmptyBuffer.pointer = 0 /\ EmptyBuffer.position = 0
    BY <1>2, <1>3, <1>4 DEF Buffers
  <1>6. SumTree(t)
    <2>1. \A n \in Nodes \ Leaves : t[n] = t[2 * n + 1] + t[2 * n + 2]
      <3> SUFFICES ASSUME NEW n \in Nodes \ Leaves PROVE t[n] = t[2 * n + 1] + t[2 * n + 2]
        OBVIOUS
      <3>1. 2 * n + 1 \in Nodes /\ 2 * n + 2 \in Nodes
        BY ChildrenAre
      <3> QED BY <1>1, <3>1
    <2> QED BY <1>3, <2>1 DEF SumTree, SumsOfTree
  <1>7. \A i \in Slots : data[i] = NoExp
    BY <1>1
  <1>8. \A i \in Slots : ~(i < 0)
    BY <1>2 DEF Slots
  <1>9. PrioritiesRight(t, data)
    BY <1>7, SlotsAre DEF PrioritiesRight
  <1>10. \A leaf \in Leaves : ~Phantom(EmptyBuffer, leaf)
    <2>1. \A leaf \in Leaves : t[leaf] = 0
      BY <1>1, NodesAre
    <2> QED BY <1>5, <2>1 DEF Phantom
  <1> QED BY <1>5, <1>6, <1>7, <1>8, <1>9, <1>10 DEF GoodBuffer

(* A transition goes where the cursor is, in the tree and beside it. *)
LEMMA AddIsGood ==
  ASSUME GoodBuffer(buf), NEW td \in TdErrors \cup {NoExp}, NEW known \in BOOLEAN, NEW recent \in BOOLEAN, Add(td, known, recent)
  PROVE  /\ GoodBuffer(buf')
         /\ \A leaf \in Leaves : Phantom(buf', leaf) => Phantom(buf, leaf)
         /\ \A i \in Slots : buf.data[i] # NoExp => buf'.data[i] # NoExp
  <1>1. buf \in Buffers /\ SumTree(buf.tree) /\ buf.pointer = buf.position /\ buf.leaves = buf.size
    BY DEF GoodBuffer
  <1>2. buf.tree \in [Nodes -> Nat] /\ buf.data \in [Slots -> Exps \cup {NoExp}] /\ buf.position \in Slots /\ buf.size \in 0 .. Capacity
        /\ buf.max \in Nat /\ Capacity \in Nat \ {0} /\ Epsilon \in Nat
    BY <1>1, NodesAre, ReplayAssumption DEF Buffers
  <1>3. PICK e : e = [td |-> IF td = NoExp THEN buf.max ELSE td, known |-> known]
    OBVIOUS
  <1>4. e \in Exps /\ e.td \in Nat /\ e # NoExp /\ e.known = known
    <2>1. e \in Exps
      BY <1>2, <1>3, ReplayAssumption DEF Exps
    <2>2. NoExp \notin Exps
      BY ReplayAssumption DEF Exps
    <2> QED BY <1>3, <2>1, <2>2 DEF Exps
  <1>5. PICK pos \in Slots, leaf \in Leaves : pos = buf.position /\ leaf = buf.pointer + Capacity - 1 /\ SlotOf(leaf) = pos
    BY <1>1, <1>2, SlotsAre
  <1>6. PICK x \in Nat : x = Priority(e.td, known /\ recent) /\ x \in {Priority(e.td, FALSE), Priority(e.td, e.known)}
    <2>1. (known /\ recent) = FALSE \/ (known /\ recent) = known
      OBVIOUS
    <2>2. Priority(e.td, known /\ recent) \in {Priority(e.td, FALSE), Priority(e.td, e.known)}
      BY <1>4, <2>1 DEF Priority
    <2>3. Priority(e.td, FALSE) \in Nat /\ Priority(e.td, e.known) \in Nat
      BY <1>4, PriorityNat
    <2> QED BY <2>2, <2>3
  <1>7. PICK u : u = SetPriority(buf.tree, leaf, x)
    OBVIOUS
  <1>8. SumTree(u) /\ u \in [Nodes -> Nat] /\ u[leaf] = x /\ \A k \in Leaves \ {leaf} : u[k] = buf.tree[k]
    BY <1>1, <1>7, SetPriorityKeeps DEF SumTree
  <1>9. PICK data : data = [buf.data EXCEPT ![pos] = e]
    OBVIOUS
  <1>10. data \in [Slots -> Exps \cup {NoExp}] /\ data[pos] = e /\ \A i \in Slots \ {pos} : data[i] = buf.data[i]
    BY <1>2, <1>4, <1>9
  <1>11. PICK next \in Slots : next = (pos + 1) % Capacity /\ (pos + 1 < Capacity => next = pos + 1)
    <2>1. PICK y \in Nat, c \in Nat \ {0} : y = pos + 1 /\ c = Capacity /\ y <= c
      BY <1>2 DEF Slots
    <2>2. PICK z \in Nat : z = y % c /\ (y < c => z = y) /\ z < c
      BY <2>1
    <2>3. z \in Slots
      BY <2>1, <2>2 DEF Slots
    <2> QED BY <2>1, <2>2, <2>3
  <1>12. PICK size \in 0 .. Capacity : size = Min({buf.size + 1, Capacity}) /\ size = IF buf.size < Capacity THEN buf.size + 1 ELSE Capacity
    <2>1. PICK y \in Int, z \in Int : y = buf.size + 1 /\ z = Capacity
      BY <1>2
    <2>2. Min({y, z}) = IF y <= z THEN y ELSE z
      BY MinOfTwo
    <2>3. PICK m : m = Min({y, z})
      OBVIOUS
    <2>4. m \in 0 .. Capacity /\ m = IF buf.size < Capacity THEN buf.size + 1 ELSE Capacity
      BY <1>2, <2>1, <2>2, <2>3
    <2> QED BY <2>1, <2>3, <2>4, Zenon
  <1>13. PICK top \in Nat : top = Max({buf.max, e.td + Epsilon}) /\ buf.max <= top /\ e.td <= top
    <2>1. PICK y \in Nat, z \in Nat : y = buf.max /\ z = e.td + Epsilon
      BY <1>2, <1>4
    <2>2. Max({y, z}) = IF y >= z THEN y ELSE z
      BY MaxOfTwo
    <2>3. PICK m : m = Max({y, z})
      OBVIOUS
    <2>4. m \in Nat /\ buf.max <= m /\ e.td <= m
      BY <1>2, <1>4, <2>1, <2>2, <2>3
    <2> QED BY <2>1, <2>3, <2>4, Zenon
  <1>14. buf' = [tree |-> u, pointer |-> next, leaves |-> size, data |-> data, position |-> next, size |-> size, max |-> top]
    <2>1. buf' = [tree |-> SetPriority(buf.tree, buf.pointer + Capacity - 1, Priority(e.td, known /\ recent)),
                  pointer |-> (buf.pointer + 1) % Capacity, leaves |-> Min({buf.leaves + 1, Capacity}),
                  data |-> [buf.data EXCEPT ![buf.position] = e], position |-> (buf.position + 1) % Capacity,
                  size |-> Min({buf.size + 1, Capacity}), max |-> Max({buf.max, e.td + Epsilon})]
      BY <1>3, Zenon DEF Add
    <2> QED BY <1>1, <1>5, <1>6, <1>7, <1>9, <1>11, <1>12, <1>13, <2>1
  <1>15. PICK b : b = buf'
    OBVIOUS
  <1>16. b \in Buffers /\ b.tree = u /\ b.data = data /\ b.size = size /\ b.leaves = size /\ b.pointer = next /\ b.position = next /\ b.max = top
    BY <1>8, <1>10, <1>14, <1>15 DEF Buffers
  <1>17. \A i \in Slots : i < size => data[i] # NoExp
    <2> SUFFICES ASSUME NEW i \in Slots, i < size PROVE data[i] # NoExp
      OBVIOUS
    <2>1. CASE i = pos
      BY <1>4, <1>10, <2>1
    <2>2. CASE i # pos
      <3>1. i < buf.size
        <4>1. buf.size < Capacity => buf.size = pos
          BY <1>5 DEF GoodBuffer
        <4>2. i \in Nat /\ i < Capacity
          BY <1>2 DEF Slots
        <4> QED BY <1>2, <1>12, <2>2, <4>1, <4>2
      <3> QED BY <1>10, <2>2, <3>1 DEF GoodBuffer
    <2> QED BY <2>1, <2>2
  <1>18. size < Capacity => next = size
    <2>1. buf.size < Capacity => buf.size = pos
      BY <1>5 DEF GoodBuffer
    <2>2. pos \in Nat /\ buf.size \in Nat /\ size \in Nat
      BY <1>2 DEF Slots
    <2>3. CASE buf.size < Capacity
      BY <1>2, <1>11, <1>12, <2>1, <2>2, <2>3
    <2>4. CASE ~(buf.size < Capacity)
      BY <1>2, <1>12, <2>2, <2>4
    <2> QED BY <2>3, <2>4
  <1>19. PrioritiesRight(u, data)
    <2> SUFFICES ASSUME NEW k \in Leaves, data[SlotOf(k)] # NoExp
                 PROVE  u[k] \in {Priority(data[SlotOf(k)].td, FALSE), Priority(data[SlotOf(k)].td, data[SlotOf(k)].known)}
      BY DEF PrioritiesRight
    <2>1. CASE k = leaf
      BY <1>5, <1>6, <1>8, <1>10, <2>1
    <2>2. CASE k # leaf
      <3>1. SlotOf(k) \in Slots \ {pos}
        BY <1>5, <2>2, SlotsAre
      <3>2. data[SlotOf(k)] = buf.data[SlotOf(k)] /\ u[k] = buf.tree[k]
        BY <1>8, <1>10, <2>2, <3>1
      <3>3. PrioritiesRight(buf.tree, buf.data)
        BY DEF GoodBuffer
      <3> QED BY <3>2, <3>3 DEF PrioritiesRight
    <2> QED BY <2>1, <2>2
  <1>20. \A i \in Slots : data[i] # NoExp => data[i].td <= top
    <2> SUFFICES ASSUME NEW i \in Slots, data[i] # NoExp PROVE data[i].td <= top
      OBVIOUS
    <2>1. CASE i = pos
      BY <1>10, <1>13, <2>1
    <2>2. CASE i # pos
      <3>1. data[i] = buf.data[i] /\ buf.data[i] \in Exps
        BY <1>2, <1>10, <2>2
      <3>2. buf.data[i].td <= buf.max /\ buf.data[i].td \in Nat
        BY <3>1 DEF GoodBuffer, Exps
      <3> QED BY <1>2, <1>13, <3>1, <3>2
    <2> QED BY <2>1, <2>2
  <1>21. GoodBuffer(b)
    BY <1>8, <1>16, <1>17, <1>18, <1>19, <1>20 DEF GoodBuffer
  <1>22. \A k \in Leaves : Phantom(b, k) => Phantom(buf, k)
    <2> SUFFICES ASSUME NEW k \in Leaves, Phantom(b, k) PROVE Phantom(buf, k)
      OBVIOUS
    <2>1. u[k] > 0 /\ data[SlotOf(k)] = NoExp
      BY <1>16 DEF Phantom
    <2>2. k # leaf /\ SlotOf(k) \in Slots \ {pos}
      BY <1>4, <1>5, <1>10, <2>1, SlotsAre
    <2> QED BY <1>8, <1>10, <2>1, <2>2 DEF Phantom
  <1>23. \A i \in Slots : buf.data[i] # NoExp => b.data[i] # NoExp
    BY <1>4, <1>10, <1>16
  <1> QED BY <1>15, <1>21, <1>22, <1>23

(* One priority written back: an empty slot stays empty. *)
LEMMA UpdateOneIsGood ==
  ASSUME NEW b, GoodBuffer(b), NEW leaf \in Leaves, NEW td \in Nat, NEW recent \in BOOLEAN
  PROVE  LET c == UpdateOne(b, leaf, td, recent)
         IN  /\ GoodBuffer(c) /\ c.size = b.size
             /\ \A i \in Slots : c.data[i] = NoExp <=> b.data[i] = NoExp
             /\ \A k \in Leaves : Phantom(c, k) => Phantom(b, k) \/ (k = leaf /\ b.data[SlotOf(leaf)] = NoExp)
  <1>1. b \in Buffers /\ SumTree(b.tree) /\ b.pointer = b.position /\ b.leaves = b.size
    BY DEF GoodBuffer
  <1>2. b.tree \in [Nodes -> Nat] /\ b.data \in [Slots -> Exps \cup {NoExp}] /\ b.max \in Nat
    BY <1>1 DEF Buffers
  <1>3. PICK pos \in Slots, exp \in Exps \cup {NoExp} : pos = SlotOf(leaf) /\ exp = b.data[pos]
    BY <1>2, SlotsAre
  <1>4. NoExp \notin Exps
    BY ReplayAssumption DEF Exps
  <1>5. PICK e \in Exps \cup {NoExp} : e = IF exp = NoExp THEN NoExp ELSE [exp EXCEPT !.td = td]
    <2>1. CASE exp = NoExp
      BY <2>1
    <2>2. CASE exp # NoExp
      <3>1. exp \in [td : Nat, known : BOOLEAN]
        BY <1>3, <2>2 DEF Exps
      <3>2. [exp EXCEPT !.td = td] \in [td : Nat, known : BOOLEAN]
        BY <3>1
      <3> QED BY <2>2, <3>2 DEF Exps
    <2> QED BY <2>1, <2>2
  <1>6. (e = NoExp <=> exp = NoExp) /\ (e # NoExp => e.td = td /\ e.known = exp.known /\ exp.known \in BOOLEAN)
    <2>1. CASE exp = NoExp
      BY <1>5, <2>1
    <2>2. CASE exp # NoExp
      <3>1. exp \in [td : Nat, known : BOOLEAN]
        BY <1>3, <2>2 DEF Exps
      <3>2. e = [exp EXCEPT !.td = td]
        BY <1>5, <2>2
      <3>3. e \in Exps /\ e.td = td /\ e.known = exp.known /\ exp.known \in BOOLEAN
        BY <3>1, <3>2 DEF Exps
      <3> QED BY <1>4, <2>2, <3>3
    <2> QED BY <2>1, <2>2
  <1>7. PICK x \in Nat : /\ x = Priority(td, exp # NoExp /\ exp.known /\ recent)
                         /\ e # NoExp => x \in {Priority(e.td, FALSE), Priority(e.td, e.known)}
    <2>1. PICK boosted : boosted = (exp # NoExp /\ exp.known /\ recent)
      OBVIOUS
    <2>2. Priority(td, boosted) \in Nat
      BY PriorityNat
    <2>3. e # NoExp => Priority(td, boosted) \in {Priority(e.td, FALSE), Priority(e.td, e.known)}
      <3> SUFFICES ASSUME e # NoExp PROVE Priority(td, boosted) \in {Priority(td, FALSE), Priority(td, e.known)}
        BY <1>6
      <3>1. exp.known \in BOOLEAN /\ e.known = exp.known /\ exp # NoExp
        BY <1>6
      <3>2. boosted = FALSE \/ boosted = e.known
        BY <2>1, <3>1
      <3> QED BY <3>2
    <2> QED BY <2>1, <2>2, <2>3
  <1>8. PICK u : u = SetPriority(b.tree, leaf, x)
    OBVIOUS
  <1>9. SumTree(u) /\ u \in [Nodes -> Nat] /\ u[leaf] = x /\ \A k \in Leaves \ {leaf} : u[k] = b.tree[k]
    BY <1>1, <1>8, SetPriorityKeeps DEF SumTree
  <1>10. PICK data : data = [b.data EXCEPT ![pos] = e]
    OBVIOUS
  <1>11. data \in [Slots -> Exps \cup {NoExp}] /\ data[pos] = e /\ \A i \in Slots \ {pos} : data[i] = b.data[i]
    BY <1>2, <1>10
  <1>12. PICK top \in Nat : top = Max({b.max, td}) /\ b.max <= top /\ td <= top
    <2>1. PICK y \in Nat : y = b.max
      BY <1>2
    <2>2. Max({y, td}) = IF y >= td THEN y ELSE td
      BY MaxOfTwo
    <2>3. PICK m : m = Max({y, td})
      OBVIOUS
    <2>4. m \in Nat /\ b.max <= m /\ td <= m
      BY <2>1, <2>2, <2>3
    <2> QED BY <2>1, <2>3, <2>4, Zenon
  <1>13. PICK c : c = UpdateOne(b, leaf, td, recent)
    OBVIOUS
  <1>14. c = [b EXCEPT !.data[pos] = e, !.tree = u, !.max = top]
    BY <1>3, <1>5, <1>7, <1>8, <1>12, <1>13 DEF UpdateOne
  <1>15. c \in Buffers /\ c.tree = u /\ c.data = data /\ c.max = top /\ c.size = b.size /\ c.leaves = b.leaves
         /\ c.pointer = b.pointer /\ c.position = b.position
    BY <1>1, <1>9, <1>10, <1>11, <1>12, <1>14 DEF Buffers
  <1>16. \A i \in Slots : data[i] = NoExp <=> b.data[i] = NoExp
    BY <1>3, <1>6, <1>11
  <1>17. PrioritiesRight(u, data)
    <2> SUFFICES ASSUME NEW k \in Leaves, data[SlotOf(k)] # NoExp
                 PROVE  u[k] \in {Priority(data[SlotOf(k)].td, FALSE), Priority(data[SlotOf(k)].td, data[SlotOf(k)].known)}
      BY DEF PrioritiesRight
    <2>1. CASE k = leaf
      BY <1>3, <1>7, <1>9, <1>11, <2>1
    <2>2. CASE k # leaf
      <3>1. SlotOf(k) \in Slots \ {pos}
        BY <1>3, <2>2, SlotsAre
      <3>2. data[SlotOf(k)] = b.data[SlotOf(k)] /\ u[k] = b.tree[k]
        BY <1>9, <1>11, <2>2, <3>1
      <3>3. PrioritiesRight(b.tree, b.data)
        BY DEF GoodBuffer
      <3> QED BY <3>2, <3>3 DEF PrioritiesRight
    <2> QED BY <2>1, <2>2
  <1>18. \A i \in Slots : data[i] # NoExp => data[i].td <= top
    <2> SUFFICES ASSUME NEW i \in Slots, data[i] # NoExp PROVE data[i].td <= top
      OBVIOUS
    <2>1. CASE i = pos
      BY <1>6, <1>11, <1>12, <2>1
    <2>2. CASE i # pos
      <3>1. data[i] = b.data[i] /\ b.data[i] \in Exps
        BY <1>2, <1>11, <2>2
      <3>2. b.data[i].td <= b.max /\ b.data[i].td \in Nat
        BY <3>1 DEF GoodBuffer, Exps
      <3> QED BY <1>2, <1>12, <3>1, <3>2
    <2> QED BY <2>1, <2>2
  <1>19. GoodBuffer(c)
    BY <1>1, <1>9, <1>15, <1>16, <1>17, <1>18 DEF GoodBuffer
  <1>20. \A k \in Leaves : Phantom(c, k) => Phantom(b, k) \/ (k = leaf /\ b.data[SlotOf(leaf)] = NoExp)
    <2> SUFFICES ASSUME NEW k \in Leaves, Phantom(c, k), k # leaf \/ b.data[SlotOf(leaf)] # NoExp PROVE Phantom(b, k)
      OBVIOUS
    <2>1. u[k] > 0 /\ b.data[SlotOf(k)] = NoExp
      BY <1>15, <1>16, SlotsAre DEF Phantom
    <2>2. k # leaf
      BY <2>1
    <2> QED BY <1>9, <2>1, <2>2 DEF Phantom
  <1> QED BY <1>13, <1>15, <1>16, <1>19, <1>20

(* The buffer after each priority of a batch. *)
AlongBatch(f, tds, recent) ==
  f = [i \in 0 .. BatchSize |-> IF i = 0 THEN buf ELSE UpdateOne(f[i - 1], held[i], tds[i], recent)]

LEMMA AlongBatchExists ==
  ASSUME GoodBuffer(buf), held \in [1 .. BatchSize -> Leaves], NEW tds \in [1 .. BatchSize -> TdErrors], NEW recent \in BOOLEAN
  PROVE  \E f : AlongBatch(f, tds, recent)
  <1> DEFINE n == BatchSize
             Good == {b \in Buffers : GoodBuffer(b)}
             step(i, b) == UpdateOne(b, held[i], tds[i], recent)
             F == [c \in (1 .. n) \X Good |-> step(c[1], c[2])]
  <1>1. n \in Nat
    BY ReplayAssumption
  <1>2. buf \in Good
    BY DEF GoodBuffer
  <1>3. ASSUME NEW i \in 1 .. n, NEW b \in Good PROVE F[<<i, b>>] \in Good /\ F[<<i, b>>] = step(i, b)
    <2>1. PICK leaf \in Leaves, td \in Nat : leaf = held[i] /\ td = tds[i]
      BY ReplayAssumption
    <2>2. GoodBuffer(UpdateOne(b, leaf, td, recent))
      BY UpdateOneIsGood
    <2>3. step(i, b) \in Good
      BY <2>1, <2>2 DEF GoodBuffer
    <2>4. <<i, b>> \in (1 .. n) \X Good /\ <<i, b>>[1] = i /\ <<i, b>>[2] = b
      OBVIOUS
    <2> HIDE DEF Good
    <2>5. F[<<i, b>>] = step(i, b)
      BY <2>4
    <2> QED BY <2>3, <2>5
  <1> HIDE DEF F, n, Good, step
  <1>4. PICK f \in [0 .. n -> Good] : FoldedFrom(f, buf, n, F)
    <2>1. PICK A, b, m, G : A = Good /\ b = buf /\ m = n /\ G = F
      OBVIOUS
    <2>2. b \in A /\ m \in Nat /\ \A i \in 1 .. m, a \in A : G[<<i, a>>] \in A
      BY <1>1, <1>2, <1>3, <2>1
    <2>3. \E f \in [0 .. m -> A] : FoldedFrom(f, b, m, G)
      BY <2>2, FoldExists
    <2> QED BY <2>1, <2>3
  <1>5. ASSUME NEW i \in 0 .. n PROVE f[i] = IF i = 0 THEN buf ELSE step(i, f[i - 1])
    <2>1. f[i] = IF i = 0 THEN buf ELSE F[<<i, f[i - 1]>>]
      BY <1>4 DEF FoldedFrom
    <2>2. CASE i # 0
      <3>1. i \in 1 .. n /\ i - 1 \in 0 .. n
        BY <1>1, <2>2
      <3>2. f[i - 1] \in Good
        BY <1>4, <3>1
      <3> QED BY <1>3, <2>1, <2>2, <3>1, <3>2
    <2> QED BY <2>1, <2>2
  <1>6. f = [i \in 0 .. n |-> f[i]]
    BY <1>4
  <1>7. f = [i \in 0 .. n |-> IF i = 0 THEN buf ELSE step(i, f[i - 1])]
    BY <1>5, <1>6
  <1> QED BY <1>7 DEF AlongBatch, n, step

(* A batch written back: the buffer stays right, and only if a leaf held has no transition is there *)
(* a priority of nothing that was not there before.                                                 *)
LEMMA UpdateIsGood ==
  ASSUME GoodBuffer(buf), held \in [1 .. BatchSize -> Leaves], UpdatePriorities
  PROVE  /\ GoodBuffer(buf')
         /\ \A k \in Leaves : Phantom(buf', k) => Phantom(buf, k) \/ \E i \in 1 .. BatchSize : buf.data[SlotOf(held[i])] = NoExp
  <1>1. PICK tds \in [1 .. BatchSize -> TdErrors], recent \in BOOLEAN : buf' = (CHOOSE f : AlongBatch(f, tds, recent))[BatchSize]
    BY DEF UpdatePriorities, AlongBatch
  <1>2. PICK f : f = CHOOSE g : AlongBatch(g, tds, recent)
    OBVIOUS
  <1>3. AlongBatch(f, tds, recent)
    <2>1. \E g : AlongBatch(g, tds, recent)
      BY AlongBatchExists
    <2> QED BY <1>2, <2>1, Zenon
  <1> DEFINE n == BatchSize
             Fresh(k) == Phantom(buf, k) \/ \E i \in 1 .. n : buf.data[SlotOf(held[i])] = NoExp
             Kept(b) == /\ GoodBuffer(b) /\ \A i \in Slots : b.data[i] = NoExp <=> buf.data[i] = NoExp
                        /\ \A k \in Leaves : Phantom(b, k) => Fresh(k)
             S == {i \in 0 .. n : Kept(f[i])}
  <1>4. n \in Nat
    BY ReplayAssumption
  <1>5. 0 \in S
    <2>1. f[0] = buf
      BY <1>3, <1>4 DEF AlongBatch
    <2>2. 0 \in 0 .. n
      BY <1>4
    <2> QED BY <2>1, <2>2
  <1>6. ASSUME NEW i \in 1 .. n, i - 1 \in S PROVE i \in S
    <2>1. PICK b, c : b = f[i - 1] /\ c = f[i] /\ Kept(b)
      BY <1>6
    <2>2. PICK leaf \in Leaves, td \in Nat : leaf = held[i] /\ td = tds[i]
      BY ReplayAssumption
    <2>3. c = UpdateOne(b, leaf, td, recent)
      <3>1. i # 0 /\ i \in 0 .. BatchSize
        BY <1>4
      <3>2. f[i] = UpdateOne(f[i - 1], held[i], tds[i], recent)
        BY <1>3, <3>1 DEF AlongBatch
      <3> QED BY <2>1, <2>2, <3>2
    <2>4. /\ GoodBuffer(c) /\ \A k \in Slots : c.data[k] = NoExp <=> b.data[k] = NoExp
          /\ \A k \in Leaves : Phantom(c, k) => Phantom(b, k) \/ (k = leaf /\ b.data[SlotOf(leaf)] = NoExp)
      BY <2>1, <2>3, UpdateOneIsGood
    <2>5. b.data[SlotOf(leaf)] = NoExp => buf.data[SlotOf(held[i])] = NoExp
      BY <2>1, <2>2, SlotsAre
    <2>6. Kept(c)
      BY <2>1, <2>4, <2>5
    <2> HIDE DEF Kept
    <2> QED BY <2>1, <2>6
  <1>7. n \in S
    <2>1. 0 .. n \subseteq S
      <3> HIDE DEF S
      <3> QED BY <1>4, <1>5, <1>6, CountUp
    <2>2. n \in 0 .. n
      BY <1>4
    <2> QED BY <2>1, <2>2
  <1>8. Kept(f[n])
    BY <1>7
  <1> QED BY <1>1, <1>2, <1>8

(* The way down the tree, from every node and for every remainder, when scale is 1. *)
IsDown(f, t) ==
  f = [n \in Nodes |-> [r \in Int |-> IF 2 * n + 1 \notin Nodes THEN n
                                      ELSE IF r <= 1 * t[2 * n + 1] THEN f[2 * n + 1][r]
                                      ELSE f[2 * n + 2][r - 1 * t[2 * n + 1]]]]

LEMMA DownExists ==
  ASSUME NEW t \in [Nodes -> Nat]
  PROVE  \E f : IsDown(f, t) /\ \A s \in Int : Retrieve(t, s, 1) = f[0][s]
  <1> DEFINE A == [Int -> Nodes]
             T == [0 .. LastNode -> A]
             At(n) == LastNode - n
             Go(n, g, r) == IF 2 * n + 1 \notin Nodes THEN n
                            ELSE IF r <= t[2 * n + 1] THEN g[At(2 * n + 1)][r] ELSE g[At(2 * n + 2)][r - t[2 * n + 1]]
             Row(n, g) == [r \in Int |-> Go(n, g, r)]
             F == [c \in (0 .. LastNode) \X T |-> Row(At(c[1]), c[2])]
  <1>1. LastNode \in Nat /\ Nodes = 0 .. LastNode
    BY NodesAre
  <1>2. PICK g0 \in T : TRUE
    <2>1. 0 \in Nodes
      BY <1>1
    <2>2. [i \in 0 .. LastNode |-> [r \in Int |-> 0]] \in T
      BY <2>1
    <2> QED BY <2>2
  <1>3. ASSUME NEW n \in Nodes, 2 * n + 1 \in Nodes
        PROVE  /\ 2 * n + 2 \in Nodes /\ At(2 * n + 1) \in 0 .. At(n) - 1 /\ At(2 * n + 2) \in 0 .. At(n) - 1
               /\ t[2 * n + 1] \in Int
    <2>1. n \notin Leaves
      BY <1>3, ChildrenAre
    <2>2. PICK a \in Nodes, b \in Nodes : a = 2 * n + 1 /\ b = 2 * n + 2 /\ n < a /\ n < b
      BY <2>1, ChildrenAre
    <2>3. At(a) \in 0 .. At(n) - 1 /\ At(b) \in 0 .. At(n) - 1
      BY <1>1, <2>2
    <2> QED BY <2>2, <2>3
  <1>4. ASSUME NEW n \in Nodes, NEW g \in T PROVE Row(n, g) \in A
    <2>1. ASSUME NEW r \in Int PROVE Go(n, g, r) \in Nodes
      <3>1. CASE 2 * n + 1 \notin Nodes
        BY <3>1
      <3>2. CASE 2 * n + 1 \in Nodes
        <4>1. PICK i \in 0 .. LastNode, j \in 0 .. LastNode, y \in Int : i = At(2 * n + 1) /\ j = At(2 * n + 2) /\ y = t[2 * n + 1]
          <5>1. At(n) \in 0 .. LastNode
            BY <1>1
          <5>2. PICK m, x, y : m = At(n) /\ x = At(2 * n + 1) /\ y = At(2 * n + 2)
            OBVIOUS
          <5>3. x \in 0 .. m - 1 /\ y \in 0 .. m - 1 /\ m \in 0 .. LastNode
            BY <1>3, <3>2, <5>1, <5>2
          <5>4. x \in 0 .. LastNode /\ y \in 0 .. LastNode
            BY <1>1, <5>3
          <5>5. t[2 * n + 1] \in Int
            BY <1>3, <3>2
          <5> QED BY <5>2, <5>4, <5>5
        <4>2. g[i] \in A /\ g[j] \in A /\ r - y \in Int
          <5>1. g \in T /\ i \in 0 .. LastNode /\ j \in 0 .. LastNode /\ r - y \in Int
            OBVIOUS
          <5> HIDE DEF A
          <5> QED BY <5>1
        <4>3. g[i][r] \in Nodes /\ g[j][r - y] \in Nodes
          BY <4>2
        <4> HIDE DEF At
        <4> QED BY <3>2, <4>1, <4>3
      <3> QED BY <3>1, <3>2
    <2> HIDE DEF Go
    <2> QED BY <2>1
  <1>5. ASSUME NEW n \in Nodes, NEW g \in T, NEW h \in T, Agree(g, h, At(n)) PROVE Row(n, g) = Row(n, h)
    <2>1. 2 * n + 1 \in Nodes => g[At(2 * n + 1)] = h[At(2 * n + 1)] /\ g[At(2 * n + 2)] = h[At(2 * n + 2)]
      BY <1>3, <1>5 DEF Agree
    <2>2. ASSUME NEW r \in Int PROVE Go(n, g, r) = Go(n, h, r)
      <3> HIDE DEF At
      <3> QED BY <2>1
    <2> HIDE DEF Go
    <2> QED BY <2>2
  <1> HIDE DEF Row, A, Go
  <1>6. ASSUME NEW i \in 0 .. LastNode, NEW g \in T PROVE F[<<i, g>>] = Row(At(i), g) /\ F[<<i, g>>] \in A /\ At(i) \in Nodes /\ At(At(i)) = i
    <2>1. At(i) \in Nodes /\ At(At(i)) = i
      BY <1>1
    <2>2. <<i, g>> \in (0 .. LastNode) \X T /\ <<i, g>>[1] = i /\ <<i, g>>[2] = g
      OBVIOUS
    <2>3. F[<<i, g>>] = Row(At(i), g)
      <3> HIDE DEF T, At
      <3> QED BY <2>2
    <2>4. Row(At(i), g) \in A
      <3> HIDE DEF T, At
      <3> QED BY <1>4, <2>1
    <2> QED BY <2>1, <2>3, <2>4
  <1>7. FromBelow(F, A, LastNode)
    <2>1. \A i \in 0 .. LastNode : \A k \in T : F[<<i, k>>] \in A
      BY <1>6
    <2>2. \A i \in 0 .. LastNode : \A k, h \in T : Agree(k, h, i) => F[<<i, k>>] = F[<<i, h>>]
      <3> SUFFICES ASSUME NEW i \in 0 .. LastNode, NEW k \in T, NEW h \in T, Agree(k, h, i) PROVE F[<<i, k>>] = F[<<i, h>>]
        OBVIOUS
      <3>1. PICK n \in Nodes : n = At(i) /\ At(n) = i
        BY <1>6
      <3>2. Row(n, k) = Row(n, h)
        BY <1>5, <3>1
      <3> HIDE DEF F, T, At
      <3> QED BY <1>6, <3>1, <3>2
    <2> HIDE DEF F
    <2> QED BY <2>1, <2>2, Zenon DEF FromBelow
  <1> HIDE DEF F
  <1>8. PICK h \in T : \A i \in 0 .. LastNode : h[i] = F[<<i, h>>]
    <2>1. PICK n, a, G, g : n = LastNode /\ a = A /\ G = F /\ g = g0
      OBVIOUS
    <2>2. n \in Nat /\ g \in [0 .. n -> a] /\ FromBelow(G, a, n)
      BY <1>1, <1>2, <1>7, <2>1
    <2>3. \E f \in [0 .. n -> a] : Solves(f, G, n)
      BY <2>2, RecursionExists
    <2> QED BY <2>1, <2>3 DEF Solves
  <1>9. PICK f \in [Nodes -> A] : \A n \in Nodes : f[n] = h[At(n)]
    <2>1. \A n \in Nodes : h[At(n)] \in A
      BY <1>1
    <2>2. [n \in Nodes |-> h[At(n)]] \in [Nodes -> A]
      <3> HIDE DEF At
      <3> QED BY <2>1
    <2> HIDE DEF At
    <2> QED BY <2>2
  <1>10. ASSUME NEW n \in Nodes
         PROVE  f[n] = [r \in Int |-> IF 2 * n + 1 \notin Nodes THEN n
                                      ELSE IF r <= 1 * t[2 * n + 1] THEN f[2 * n + 1][r]
                                      ELSE f[2 * n + 2][r - 1 * t[2 * n + 1]]]
    <2>1. At(n) \in 0 .. LastNode /\ At(At(n)) = n
      BY <1>1
    <2>2. f[n] = Row(n, h)
      <3> HIDE DEF At
      <3> QED BY <1>6, <1>8, <1>9, <2>1
    <2>3. ASSUME NEW r \in Int
          PROVE  Go(n, h, r) = IF 2 * n + 1 \notin Nodes THEN n
                               ELSE IF r <= 1 * t[2 * n + 1] THEN f[2 * n + 1][r]
                               ELSE f[2 * n + 2][r - 1 * t[2 * n + 1]]
      <3>1. CASE 2 * n + 1 \notin Nodes
        BY <3>1 DEF Go
      <3>2. CASE 2 * n + 1 \in Nodes
        <4>1. 2 * n + 2 \in Nodes /\ t[2 * n + 1] \in Int
          BY <1>3, <3>2
        <4>2. PICK a \in Nodes, b \in Nodes, y \in Int : a = 2 * n + 1 /\ b = 2 * n + 2 /\ y = t[a] /\ 1 * t[a] = y
          BY <3>2, <4>1
        <4>3. f[a] = h[At(a)] /\ f[b] = h[At(b)]
          BY <1>9
        <4> HIDE DEF At
        <4> QED BY <4>2, <4>3 DEF Go
      <3> QED BY <3>1, <3>2
    <2> QED BY <2>2, <2>3 DEF Row
  <1>11. IsDown(f, t)
    <2>1. f = [n \in Nodes |-> f[n]]
      BY <1>9
    <2> QED BY <1>10, <2>1 DEF IsDown
  <1>12. PICK d : d = CHOOSE g : IsDown(g, t)
    OBVIOUS
  <1>13. IsDown(d, t)
    BY <1>11, <1>12, Zenon
  <1>14. \A s \in Int : Retrieve(t, s, 1) = d[0][s]
    BY <1>12 DEF Retrieve, IsDown
  <1> QED BY <1>13, <1>14

Hits(f, t, n, leaf) == {s \in 1 .. t[n] : f[n][s] = leaf}

(* As many again, further up. *)
LEMMA ShiftedCard ==
  ASSUME NEW S, S \subseteq Int, IsFiniteSet(S), NEW k \in Int
  PROVE  IsFiniteSet({s + k : s \in S}) /\ Cardinality({s + k : s \in S}) = Cardinality(S)
  <1>1. PICK U : U = {s + k : s \in S}
    OBVIOUS
  <1>2. PICK f : f = [s \in S |-> s + k]
    OBVIOUS
  <1>3. f \in Surjection(S, U)
    BY <1>1, <1>2 DEF Surjection
  <1>4. f \in Injection(S, U)
    <2>1. f \in [S -> U]
      BY <1>1, <1>2
    <2>2. ASSUME NEW x \in S, NEW y \in S, f[x] = f[y] PROVE x = y
      BY <1>2, <2>2
    <2> QED BY <2>1, <2>2 DEF Injection, IsInjective
  <1> QED BY <1>1, <1>3, <1>4, FS_Surjection

(* Of the steps up to the sum at a node, a leaf below it gets as many as its priority, any other none. *)
LEMMA HitsAre ==
  ASSUME NEW t, SumTree(t), NEW f, IsDown(f, t), NEW leaf \in Leaves
  PROVE  \A n \in Nodes : /\ IsFiniteSet(Hits(f, t, n, leaf))
                          /\ Cardinality(Hits(f, t, n, leaf)) = IF n \in PathOf(leaf) THEN t[leaf] ELSE 0
  <1> DEFINE Count(n) == IF n \in PathOf(leaf) THEN t[leaf] ELSE 0
             H(n) == Hits(f, t, n, leaf)
             Q == {n \in Nodes : IsFiniteSet(H(n)) /\ Cardinality(H(n)) = Count(n)}
  <1>1. t \in [Nodes -> Nat] /\ leaf \in Nodes
    BY NodesAre DEF SumTree
  <1>2. \A y \in Above[leaf] : y \notin Leaves
    BY <1>1, PathClimbs
  <1>3. ASSUME NEW n \in Leaves PROVE n \in Q
    <2>1. n \in Nodes /\ 2 * n + 1 \notin Nodes
      BY NodesAre, ChildrenAre
    <2>2. \A s \in Int : f[n][s] = n
      BY <2>1 DEF IsDown
    <2>3. n \in PathOf(leaf) <=> n = leaf
      BY <1>2 DEF PathOf
    <2>4. CASE n = leaf
      <3>1. H(n) = 1 .. t[leaf]
        BY <2>2, <2>4 DEF Hits
      <3>2. t[leaf] \in Nat
        BY <1>1
      <3>3. IsFiniteSet(1 .. t[leaf]) /\ Cardinality(1 .. t[leaf]) = t[leaf]
        <4>1. PICK x \in Nat : x = t[leaf]
          BY <3>2
        <4>2. IsFiniteSet(1 .. x) /\ Cardinality(1 .. x) = x
          BY FS_Interval
        <4> QED BY <4>1, <4>2
      <3>4. Count(n) = t[leaf]
        BY <2>3, <2>4
      <3> QED BY <2>1, <3>1, <3>3, <3>4
    <2>5. CASE n # leaf
      <3>1. H(n) = {}
        BY <2>2, <2>5 DEF Hits
      <3>2. Count(n) = 0
        BY <2>3, <2>5
      <3>3. IsFiniteSet({}) /\ Cardinality({}) = 0
        BY FS_EmptySet
      <3> QED BY <2>1, <3>1, <3>2, <3>3
    <2> QED BY <2>4, <2>5
  <1>4. ASSUME NEW n \in Nodes \ Leaves, 2 * n + 1 \in Q, 2 * n + 2 \in Q PROVE n \in Q
    <2>1. PICK a \in Nodes, b \in Nodes : a = 2 * n + 1 /\ b = 2 * n + 2 /\ a \in Q /\ b \in Q
      BY <1>4, ChildrenAre
    <2>2. PICK x \in Nat, y \in Nat : x = t[a] /\ y = t[b] /\ t[n] = x + y
      BY <1>1, <2>1 DEF SumTree, SumsOfTree
    <2>3. \A s \in Int : f[n][s] = IF s <= x THEN f[a][s] ELSE f[b][s - x]
      <3>1. 1 * t[2 * n + 1] = x /\ 2 * n + 1 \in Nodes
        BY <2>1, <2>2
      <3>2. f[n] = [r \in Int |-> IF 2 * n + 1 \notin Nodes THEN n
                                  ELSE IF r <= 1 * t[2 * n + 1] THEN f[2 * n + 1][r]
                                  ELSE f[2 * n + 2][r - 1 * t[2 * n + 1]]]
        BY DEF IsDown
      <3> QED BY <2>1, <3>1, <3>2
    <2>4. PICK U : U = {s + x : s \in H(b)}
      OBVIOUS
    <2>5. H(a) = {s \in 1 .. x : f[a][s] = leaf} /\ H(b) = {s \in 1 .. y : f[b][s] = leaf}
          /\ H(n) = {s \in 1 .. x + y : f[n][s] = leaf}
      BY <2>2 DEF Hits
    <2> HIDE DEF H
    <2>6. H(n) = H(a) \cup U
      <3>1. ASSUME NEW s \in H(n) PROVE s \in H(a) \cup U
        <4>1. s \in 1 .. x + y /\ f[n][s] = leaf
          BY <2>5
        <4>2. CASE s <= x
          <5>1. s \in 1 .. x /\ f[a][s] = leaf
            BY <2>3, <4>1, <4>2
          <5> QED BY <2>5, <5>1
        <4>3. CASE ~(s <= x)
          <5>1. PICK r \in 1 .. y : r = s - x /\ r + x = s /\ f[b][r] = leaf
            BY <2>3, <4>1, <4>3
          <5>2. r \in H(b)
            BY <2>5, <5>1
          <5> QED BY <2>4, <5>1, <5>2
        <4> QED BY <4>2, <4>3
      <3>2. ASSUME NEW s \in H(a) PROVE s \in H(n)
        <4>1. s \in 1 .. x /\ f[a][s] = leaf /\ s \in 1 .. x + y /\ s \in Int
          BY <2>5
        <4>2. f[n][s] = leaf
          BY <2>3, <4>1
        <4> QED BY <2>5, <4>1, <4>2
      <3>3. ASSUME NEW r \in H(b) PROVE r + x \in H(n)
        <4>1. r \in 1 .. y /\ f[b][r] = leaf
          BY <2>5
        <4>2. PICK s \in 1 .. x + y : s = r + x /\ ~(s <= x) /\ s - x = r
          BY <4>1
        <4>3. f[n][s] = leaf
          BY <2>3, <4>1, <4>2
        <4> QED BY <2>5, <4>2, <4>3
      <3> QED BY <2>4, <3>1, <3>2, <3>3
    <2>7. H(a) \cap U = {}
      <3> SUFFICES ASSUME NEW s \in H(a), s \in U PROVE FALSE
        OBVIOUS
      <3>1. PICK r \in H(b) : s = r + x
        BY <2>4
      <3>2. r \in 1 .. y /\ s \in 1 .. x
        BY <2>5
      <3> QED BY <3>1, <3>2
    <2>8. IsFiniteSet(H(a)) /\ IsFiniteSet(H(b)) /\ Cardinality(H(a)) = Count(a) /\ Cardinality(H(b)) = Count(b)
      BY <2>1
    <2>9. IsFiniteSet(U) /\ Cardinality(U) = Count(b)
      <3>1. H(b) \subseteq Int
        BY <2>5
      <3> HIDE DEF Count
      <3> QED BY <2>4, <2>8, <3>1, ShiftedCard
    <2>10. IsFiniteSet(H(n)) /\ Cardinality(H(n)) = Count(a) + Count(b)
      <3>1. PICK V, W : V = H(a) /\ W = H(a) \cup U
        OBVIOUS
      <3>2. IsFiniteSet(W) /\ Cardinality(W) = Cardinality(V) + Cardinality(U) - Cardinality(V \cap U)
        BY <2>8, <2>9, <3>1, FS_Union
      <3>3. Cardinality(V \cap U) = 0
        <4>1. V \cap U = {}
          BY <2>7, <3>1
        <4> QED BY <4>1, FS_EmptySet
      <3>4. Count(a) \in Nat /\ Count(b) \in Nat
        BY <1>1
      <3> HIDE DEF Count
      <3>5. Cardinality(W) = Count(a) + Count(b)
        BY <2>8, <2>9, <3>1, <3>2, <3>3, <3>4
      <3> QED BY <2>6, <3>1, <3>2, <3>5
    <2>11. Count(n) = Count(a) + Count(b)
      <3>1. ~(a \in PathOf(leaf) /\ b \in PathOf(leaf)) /\ (n \in Above[leaf] <=> a \in PathOf(leaf) \/ b \in PathOf(leaf))
        BY <1>1, <2>1, PathClimbs DEF OneChildOf
      <3>2. n \in PathOf(leaf) <=> n \in Above[leaf]
        BY DEF PathOf
      <3>3. t[leaf] \in Nat
        BY <1>1
      <3> QED BY <3>1, <3>2, <3>3
    <2> QED BY <2>10, <2>11
  <1>5. Nodes \subseteq Q
    <2>1. Q \in SUBSET Nodes /\ Leaves \subseteq Q
      BY <1>3
    <2> HIDE DEF Q
    <2> QED BY <1>4, <2>1, LeavesUp
  <1> QED BY <1>5

LEMMA SamplingIsProportional ==
  ASSUME NEW t, SumTree(t), NEW leaf \in Leaves
  PROVE  Cardinality({s \in 1 .. t[0] : Retrieve(t, s, 1) = leaf}) = t[leaf]
  <1>1. t \in [Nodes -> Nat] /\ leaf \in Nodes /\ 0 \in Nodes /\ 0 \in PathOf(leaf)
    <2>1. leaf \in Nodes /\ 0 \in Nodes
      BY NodesAre
    <2> QED BY <2>1, PathClimbs DEF SumTree
  <1>2. PICK f : IsDown(f, t) /\ \A s \in Int : Retrieve(t, s, 1) = f[0][s]
    BY <1>1, DownExists
  <1>3. Cardinality(Hits(f, t, 0, leaf)) = t[leaf]
    BY <1>1, <1>2, HitsAre
  <1>4. {s \in 1 .. t[0] : Retrieve(t, s, 1) = leaf} = Hits(f, t, 0, leaf)
    BY <1>2 DEF Hits
  <1> QED BY <1>3, <1>4

(* Before the first reward the detector is new; while the rewards only fall the sum of the           *)
(* deviations is at its lowest, and no reward so far was below the last.                             *)
DriftInv ==
  /\ drift.count \in Nat /\ drift.sum \in Nat /\ drift.last \in Nat /\ drift.cum \in Int /\ rose \in BOOLEAN
  /\ DOMAIN drift = {"count", "sum", "last", "cum", "low", "lastAt"}
  /\ drift.count = 0 => drift.sum = 0 /\ drift.cum = 0 /\ drift.low = NoExp /\ (seen > 0 => rose)
  /\ drift.count > 0 => /\ drift.low \in Int
                        /\ ~rose => drift.sum >= drift.count * drift.last /\ drift.low = drift.cum

BatchInv ==
  held # NoBatch => /\ held \in [1 .. BatchSize -> Leaves]
                    /\ behind \/ \A i \in 1 .. BatchSize : buf.data[SlotOf(held[i])] # NoExp

FileInv == file # <<>> => GoodBuffer(file[1]) /\ \A k \in Leaves : Phantom(file[1], k) => late

ReplayInv ==
  /\ GoodBuffer(buf) /\ behind \in BOOLEAN /\ late \in BOOLEAN
  /\ \A k \in Leaves : Phantom(buf, k) => late
  /\ BatchInv /\ FileInv /\ DriftInv

LEMMA ReplayInvHolds == ReplayInv => ReplaySound
  <1> SUFFICES ASSUME ReplayInv PROVE ReplaySound
    OBVIOUS
  <1>1. GoodBuffer(buf) /\ SumTree(buf.tree) /\ buf \in Buffers
    BY DEF ReplayInv, GoodBuffer
  <1>2. SumsMatch
    BY <1>1 DEF SumTree, SumsOfTree, SumsMatch
  <1>3. Proportional
    BY <1>1, SamplingIsProportional DEF Proportional
  <1>4. PrioritiesMatch
    BY <1>1 DEF GoodBuffer, PrioritiesRight, PrioritiesMatch, Filled
  <1>5. NoPhantoms
    BY DEF ReplayInv, Phantom, NoPhantoms, Filled
  <1>6. InStep
    BY <1>1 DEF GoodBuffer, InStep
  <1>7. NewestFirst
    <2>1. DOMAIN buf.data = Slots
      BY <1>1 DEF Buffers
    <2> QED BY <1>1, <2>1 DEF GoodBuffer, NewestFirst
  <1>8. FallsUnseen
    BY DEF ReplayInv, DriftInv, FallsUnseen
  <1> QED BY <1>2, <1>3, <1>4, <1>5, <1>6, <1>7, <1>8 DEF ReplaySound

LEMMA ReplayInvInit == ReplayInit => ReplayInv
  <1> SUFFICES ASSUME ReplayInit PROVE ReplayInv
    OBVIOUS
  <1>1. GoodBuffer(buf) /\ \A k \in Leaves : ~Phantom(buf, k)
    BY EmptyIsGood DEF ReplayInit
  <1>2. BatchInv /\ FileInv
    BY DEF ReplayInit, BatchInv, FileInv
  <1>3. DriftInv
    <2>1. drift.count = 0 /\ drift.sum = 0 /\ drift.last = 0 /\ drift.cum = 0 /\ drift.low = NoExp
          /\ DOMAIN drift = {"count", "sum", "last", "cum", "low", "lastAt"}
      BY DEF ReplayInit, NewDetector
    <2>2. rose = FALSE /\ ~(seen > 0)
      BY DEF ReplayInit
    <2>3. rose \in BOOLEAN
      BY <2>2
    <2> QED BY <2>1, <2>2, <2>3 DEF DriftInv
  <1> QED BY <1>1, <1>2, <1>3 DEF ReplayInit, ReplayInv

(* No step of the buffer but a batch written back, a clear() and a load() empties a slot. *)
LEMMA AddKeeps ==
  ASSUME ReplayInv, NEW td \in TdErrors \cup {NoExp}, NEW known \in BOOLEAN, NEW recent \in BOOLEAN, Add(td, known, recent)
  PROVE  ReplayInv'
  <1>1. GoodBuffer(buf)
    BY DEF ReplayInv
  <1>2. /\ GoodBuffer(buf')
        /\ \A leaf \in Leaves : Phantom(buf', leaf) => Phantom(buf, leaf)
        /\ \A i \in Slots : buf.data[i] # NoExp => buf'.data[i] # NoExp
    BY <1>1, AddIsGood
  <1>3. held' = held /\ behind' = behind /\ late' = late /\ file' = file /\ drift' = drift /\ seen' = seen /\ rose' = rose
    BY DEF Add
  <1>4. BatchInv'
    <2>1. \A k \in Leaves : buf.data[SlotOf(k)] # NoExp => buf'.data[SlotOf(k)] # NoExp
      BY <1>2, SlotsAre
    <2> QED BY <1>3, <2>1 DEF ReplayInv, BatchInv
  <1>5. FileInv' /\ DriftInv'
    BY <1>3 DEF ReplayInv, FileInv, DriftInv
  <1>6. \A k \in Leaves : Phantom(buf', k) => late'
    BY <1>2, <1>3 DEF ReplayInv
  <1> QED BY <1>2, <1>3, <1>4, <1>5, <1>6 DEF ReplayInv

LEMMA SampleKeeps == ASSUME ReplayInv, Sample PROVE ReplayInv'
  <1>1. GoodBuffer(buf) /\ buf \in Buffers
    BY DEF ReplayInv, GoodBuffer
  <1>2. buf' = buf /\ late' = late /\ behind' = FALSE /\ file' = file /\ drift' = drift /\ seen' = seen /\ rose' = rose
    BY DEF Sample
  <1>3. held' \in [1 .. BatchSize -> Leaves] /\ \A i \in 1 .. BatchSize : held'[i] \in DrawFrom(i - 1)
    BY DEF Sample
  <1>4. ASSUME NEW i \in 1 .. BatchSize PROVE buf.data[SlotOf(held'[i])] # NoExp
    <2>1. PICK x, j : x = held'[i] /\ j = i - 1
      OBVIOUS
    <2>2. x \in DrawFrom(j)
      BY <1>3, <2>1
    <2>3. PICK s \in buf.tree[0] * j .. buf.tree[0] * (j + 1), d \in 0 .. buf.size - 1 :
            x = LET leaf == Retrieve(buf.tree, s, BatchSize)
                IN  IF buf.data[SlotOf(leaf)] # NoExp THEN leaf ELSE d + Capacity - 1
      BY <2>2 DEF DrawFrom
    <2>4. PICK leaf : x = IF buf.data[SlotOf(leaf)] # NoExp THEN leaf ELSE d + Capacity - 1
      BY <2>3
    <2>5. d \in Slots /\ d < buf.size
      <3>1. buf.size \in 0 .. Capacity
        BY <1>1 DEF Buffers
      <3> QED BY <3>1, NodesAre DEF Slots
    <2>6. SlotOf(d + Capacity - 1) = d /\ buf.data[d] # NoExp
      BY <1>1, <2>5, SlotsAre DEF GoodBuffer
    <2> QED BY <2>1, <2>4, <2>6
  <1>5. BatchInv'
    BY <1>2, <1>3, <1>4 DEF BatchInv
  <1>6. FileInv' /\ DriftInv'
    BY <1>2 DEF ReplayInv, FileInv, DriftInv
  <1> QED BY <1>2, <1>5, <1>6 DEF ReplayInv

LEMMA UpdateKeeps == ASSUME ReplayInv, UpdatePriorities PROVE ReplayInv'
  <1>1. GoodBuffer(buf) /\ held \in [1 .. BatchSize -> Leaves]
        /\ (behind \/ \A i \in 1 .. BatchSize : buf.data[SlotOf(held[i])] # NoExp)
    BY DEF ReplayInv, BatchInv, UpdatePriorities
  <1>2. /\ GoodBuffer(buf')
        /\ \A k \in Leaves : Phantom(buf', k) => Phantom(buf, k) \/ \E i \in 1 .. BatchSize : buf.data[SlotOf(held[i])] = NoExp
    BY <1>1, UpdateIsGood
  <1>3. held' = NoBatch /\ late' = (late \/ behind) /\ behind' = behind /\ file' = file /\ drift' = drift /\ seen' = seen /\ rose' = rose
    BY DEF UpdatePriorities
  <1>4. behind \in BOOLEAN /\ late' \in BOOLEAN
    BY <1>3 DEF ReplayInv
  <1>5. \A k \in Leaves : Phantom(buf', k) => late'
    BY <1>1, <1>2, <1>3 DEF ReplayInv
  <1>6. BatchInv'
    BY <1>3 DEF BatchInv
  <1>7. FileInv'
    BY <1>3 DEF ReplayInv, FileInv
  <1>8. DriftInv'
    BY <1>3 DEF ReplayInv, DriftInv
  <1> QED BY <1>2, <1>3, <1>4, <1>5, <1>6, <1>7, <1>8 DEF ReplayInv

LEMMA FileKeeps == ASSUME ReplayInv, Save \/ CrashInSave \/ Load \/ Clear PROVE ReplayInv'
  <1>1. drift' = drift /\ seen' = seen /\ rose' = rose /\ late' = late
    BY DEF Save, CrashInSave, Load, Clear
  <1>2. DriftInv'
    BY <1>1 DEF ReplayInv, DriftInv
  <1>3. CASE Save
    <2>1. file' = <<buf>> /\ file'[1] = buf /\ buf' = buf /\ held' = held /\ behind' = behind
      BY <1>3 DEF Save
    <2>2. FileInv'
      BY <1>1, <2>1 DEF ReplayInv, FileInv
    <2>3. BatchInv'
      BY <2>1 DEF ReplayInv, BatchInv
    <2> QED BY <1>1, <1>2, <2>1, <2>2, <2>3 DEF ReplayInv
  <1>4. CASE CrashInSave
    <2>1. file' = <<>> /\ buf' = EmptyBuffer /\ held' = NoBatch /\ behind' = behind
      BY <1>4 DEF CrashInSave
    <2>2. FileInv' /\ BatchInv'
      BY <2>1 DEF FileInv, BatchInv
    <2> QED BY <1>1, <1>2, <2>1, <2>2, EmptyIsGood DEF ReplayInv
  <1>5. CASE Load
    <2>1. file # <<>> /\ buf' = file[1] /\ behind' = TRUE /\ held' = held /\ file' = file
      BY <1>5 DEF Load
    <2>2. GoodBuffer(buf') /\ \A k \in Leaves : Phantom(buf', k) => late'
      BY <1>1, <2>1 DEF ReplayInv, FileInv
    <2>3. FileInv'
      BY <1>1, <2>1 DEF ReplayInv, FileInv
    <2>4. BatchInv'
      BY <2>1 DEF ReplayInv, BatchInv
    <2> QED BY <1>1, <1>2, <2>1, <2>2, <2>3, <2>4 DEF ReplayInv
  <1>6. CASE Clear
    <2>1. buf' = EmptyBuffer /\ behind' = TRUE /\ held' = held /\ file' = file
      BY <1>6 DEF Clear
    <2>2. FileInv'
      BY <1>1, <2>1 DEF ReplayInv, FileInv
    <2>3. BatchInv'
      BY <2>1 DEF ReplayInv, BatchInv
    <2> QED BY <1>1, <1>2, <2>1, <2>2, <2>3, EmptyIsGood DEF ReplayInv
  <1> QED BY <1>3, <1>4, <1>5, <1>6

(* The mean of the rewards is not below the newest if none was below the last and it is not above it. *)
LEMMA MeanAbove ==
  ASSUME NEW n \in Nat, n > 0, NEW sum \in Nat, NEW last \in Nat, NEW r \in Nat, sum >= n * last, r <= last
  PROVE  sum + r >= (n + 1) * r /\ (12 * (sum + r)) \div (n + 1) >= 12 * r
  <1>1. n * r <= n * last /\ n * r \in Nat /\ n * last \in Nat
    OBVIOUS
  <1>2. (n + 1) * r = n * r + r
    OBVIOUS
  <1>3. sum + r >= (n + 1) * r
    BY <1>1, <1>2
  <1>4. PICK a \in Nat, m \in Nat \ {0}, y \in Nat : a = 12 * (sum + r) /\ m = n + 1 /\ y = 12 * r
    OBVIOUS
  <1>5. m * y <= a
    <2>1. m * y = 12 * ((n + 1) * r)
      BY <1>4
    <2>2. PICK z \in Nat : z = (n + 1) * r
      OBVIOUS
    <2> QED BY <1>3, <1>4, <2>1, <2>2
  <1>6. PICK q \in Nat : q = a \div m /\ m * q <= a /\ a < m * q + m
    BY <1>4
  <1>7. ASSUME q < y PROVE FALSE
    <2>1. m * (q + 1) <= m * y
      BY <1>7
    <2>2. m * (q + 1) = m * q + m
      OBVIOUS
    <2> QED BY <1>5, <1>6, <2>1, <2>2
  <1>8. q >= y
    BY <1>7
  <1> QED BY <1>3, <1>4, <1>6, <1>8

(* A falling reward lowers the sum of the deviations: the detector does not fire. *)
LEMMA RewardKeeps ==
  ASSUME ReplayInv, NEW r \in Rewards, Reward(r)
  PROVE  ReplayInv'
  <1>1. buf' = buf /\ held' = held /\ behind' = behind /\ late' = late /\ file' = file
    BY DEF Reward
  <1>2. BatchInv' /\ FileInv'
    BY <1>1 DEF ReplayInv, BatchInv, FileInv
  <1>3. PICK d, o, n, cum : d = drift /\ o = Observed(r) /\ n = d.count + 1 /\ cum = d.cum + Deviation(12 * r, (12 * (d.sum + r)) \div n)
    OBVIOUS
  <1>4. /\ d.count \in Nat /\ d.sum \in Nat /\ d.last \in Nat /\ d.cum \in Int /\ rose \in BOOLEAN /\ r \in Nat /\ n \in Nat \ {0}
        /\ DOMAIN d = {"count", "sum", "last", "cum", "low", "lastAt"}
    BY <1>3, ReplayAssumption DEF ReplayInv, DriftInv
  <1>5. PICK mean \in Int : mean = (12 * (d.sum + r)) \div n
    BY <1>4
  <1>6. cum \in Int /\ cum = d.cum + (12 * r - mean)
    BY <1>3, <1>4, <1>5 DEF Deviation
  <1>7. PICK low : low = IF d.low = NoExp THEN cum ELSE Min({d.low, cum})
    OBVIOUS
  <1>8. o = [d EXCEPT !.count = n, !.sum = d.sum + r, !.last = r, !.cum = cum, !.low = low]
    BY <1>3, <1>7 DEF Observed
  <1>9. o.count = n /\ o.sum = d.sum + r /\ o.last = r /\ o.cum = cum /\ o.low = low
        /\ DOMAIN o = {"count", "sum", "last", "cum", "low", "lastAt"}
    BY <1>4, <1>8
  <1>10. low \in Int /\ (d.low = NoExp => low = cum) /\ (d.low # NoExp => d.low \in Int /\ low <= cum /\ low = IF d.low <= cum THEN d.low ELSE cum)
    <2>1. CASE d.low = NoExp
      BY <1>6, <1>7, <2>1
    <2>2. CASE d.low # NoExp
      <3>1. d.low \in Int
        BY <1>3, <1>4, <2>2 DEF ReplayInv, DriftInv
      <3>2. PICK x \in Int, y \in Int : x = d.low /\ y = cum
        BY <1>6, <3>1
      <3>3. Min({x, y}) = IF x <= y THEN x ELSE y
        BY MinOfTwo
      <3>4. low = Min({x, y})
        BY <1>7, <2>2, <3>2, Zenon
      <3> QED BY <2>2, <3>1, <3>2, <3>3, <3>4
    <2> QED BY <2>1, <2>2
  <1>11. rose' = (d.count > 0 /\ (rose \/ r > d.last)) /\ seen' = seen + 1
    BY <1>3 DEF Reward
  <1>12. rose' \in BOOLEAN
    BY <1>11
  <1>13. ASSUME ~rose' PROVE low = cum /\ o.sum >= o.count * o.last
    <2>1. CASE d.count = 0
      <3>1. d.sum = 0 /\ d.cum = 0 /\ d.low = NoExp /\ n = 1
        BY <1>3, <2>1 DEF ReplayInv, DriftInv
      <3>2. o.sum = r /\ o.count = 1 /\ o.last = r
        BY <1>4, <1>9, <3>1
      <3> QED BY <1>4, <1>10, <3>1, <3>2
    <2>2. CASE d.count # 0
      <3>1. ~rose /\ r <= d.last /\ d.count > 0
        <4>1. ~(d.count > 0 /\ (rose \/ r > d.last))
          BY <1>11, <1>13, Zenon
        <4>2. d.count > 0
          BY <1>4, <2>2
        <4>3. ~rose /\ ~(r > d.last)
          BY <4>1, <4>2, Zenon
        <4> QED BY <1>4, <4>2, <4>3
      <3>2. d.low \in Int /\ d.sum >= d.count * d.last /\ d.low = d.cum
        BY <1>3, <3>1 DEF ReplayInv, DriftInv
      <3>3. PICK c, s, l : c = d.count /\ s = d.sum /\ l = d.last
        OBVIOUS
      <3>4. c \in Nat /\ c > 0 /\ s \in Nat /\ l \in Nat /\ s >= c * l /\ r <= l /\ n = c + 1
        BY <1>3, <1>4, <3>1, <3>2, <3>3
      <3>5. s + r >= (c + 1) * r /\ (12 * (s + r)) \div (c + 1) >= 12 * r
        BY <1>4, <3>4, MeanAbove
      <3>6. mean >= 12 * r
        BY <1>5, <3>3, <3>4, <3>5
      <3>7. cum <= d.low
        BY <1>4, <1>6, <3>2, <3>6
      <3>8. low = cum
        BY <1>6, <1>10, <3>2, <3>7
      <3>9. o.sum >= o.count * o.last
        BY <1>9, <3>3, <3>4, <3>5
      <3> QED BY <3>8, <3>9
    <2> QED BY <2>1, <2>2
  <1>14. CASE Drifted(o)
    <2>1. cum - low > 12 * Threshold
      BY <1>9, <1>14 DEF Drifted
    <2>2. low # cum
      BY <1>6, <2>1, ReplayAssumption
    <2>3. rose'
      BY <1>12, <1>13, <2>2
    <2>4. drift' = [NewDetector EXCEPT !.lastAt = drift.count + 1]
      BY <1>3, <1>14, Zenon DEF Reward
    <2>5. drift'.count = 0 /\ drift'.sum = 0 /\ drift'.last = 0 /\ drift'.cum = 0 /\ drift'.low = NoExp
          /\ DOMAIN drift' = {"count", "sum", "last", "cum", "low", "lastAt"}
      BY <2>4 DEF NewDetector
    <2>6. DriftInv'
      BY <1>12, <2>3, <2>5 DEF DriftInv
    <2> QED BY <1>1, <1>2, <2>6 DEF ReplayInv
  <1>15. CASE ~Drifted(o)
    <2>1. drift' = o
      BY <1>3, <1>15, Zenon DEF Reward
    <2>2. o.sum \in Nat /\ o.count \in Nat /\ o.count > 0 /\ o.count # 0 /\ o.last \in Nat /\ o.cum \in Int /\ o.low \in Int
      BY <1>4, <1>6, <1>9, <1>10
    <2>3. ~rose' => o.sum >= o.count * o.last /\ o.low = o.cum
      BY <1>9, <1>13
    <2>4. DriftInv'
      BY <1>9, <1>12, <2>1, <2>2, <2>3 DEF DriftInv
    <2> QED BY <1>1, <1>2, <2>4 DEF ReplayInv
  <1> QED BY <1>14, <1>15

(* The replay buffer and the drift detector are right in every behaviour: every inner node of the    *)
(* tree is the sum of its children, each leaf is drawn in proportion to its priority, which is that  *)
(* of the transition stored there, a priority of nothing comes only from a batch written back after  *)
(* a clear or a load, and falling rewards are no drift (rl/experience_replay.py).                    *)
THEOREM ReplayIsSound == ReplaySpec => []ReplaySound
  <1>1. ASSUME ReplayInv, [ReplayNext]_replayVars PROVE ReplayInv'
    <2>1. CASE UNCHANGED replayVars
      <3>1. buf' = buf /\ held' = held /\ behind' = behind /\ late' = late /\ file' = file /\ drift' = drift /\ seen' = seen /\ rose' = rose
        BY <2>1 DEF replayVars
      <3>2. BatchInv' /\ FileInv'
        BY <1>1, <3>1 DEF ReplayInv, BatchInv, FileInv
      <3>3. DriftInv'
        BY <1>1, <3>1 DEF ReplayInv, DriftInv
      <3> QED BY <1>1, <3>1, <3>2, <3>3 DEF ReplayInv
    <2>2. ASSUME NEW r \in Rewards, Reward(r) PROVE ReplayInv'
      BY <1>1, <2>2, RewardKeeps
    <2>3. ASSUME BufferNext PROVE ReplayInv'
      BY <1>1, <2>3, AddKeeps, SampleKeeps, UpdateKeeps, FileKeeps DEF BufferNext
    <2> QED BY <1>1, <2>1, <2>2, <2>3 DEF ReplayNext
  <1> QED BY <1>1, ReplayInvInit, ReplayInvHolds, PTL DEF ReplaySpec

(* Everything the learning agents learn and trade by, whose parts share no variable: the environment   *)
(* they act in, the experience they replay, the portfolio they study on, the account they trade and    *)
(* the regime of the market.                                                                           *)
THEOREM LearnersAreSound ==
  EnvSpec /\ ReplaySpec /\ PortfolioSpec /\ AgentSpec /\ RegimesSpec => []LearnersSound
  BY EnvIsSound, ReplayIsSound, PortfolioIsSound, AgentIsSound, RegimesAreSound, PTL DEF LearnersSound
=============================================================================
