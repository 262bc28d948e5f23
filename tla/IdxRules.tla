------------------------------ MODULE IdxRules ------------------------------
(***************************************************************************)
(* The price rules of the Indonesian exchange, src/execution/idx_rules.py. *)
(* Around a reference price (the previous close) an order may pay at most  *)
(* the upper auto-reject price ARA and may ask for at least the lower one, *)
(* ARB; both are multiples of the tick of the price level they fall in.    *)
(*                                                                         *)
(* The code computes with floats.  Prices here are integers (rupiah) and   *)
(* the raw limits are kept in hundredths of a rupiah, which is exact, so   *)
(* the model says nothing about a float that lands just beside a tick.     *)
(***************************************************************************)
EXTENDS Integers

RegularMinPrice == 50
FcaMinPrice     == 1

(* fraksi_harga_tick, of a price given in hundredths of a rupiah. *)
TickOf(cents) ==
  CASE cents <  20000                      -> 1
    [] cents >= 20000  /\ cents < 50000    -> 2
    [] cents >= 50000  /\ cents < 200000   -> 5
    [] cents >= 200000 /\ cents < 500000   -> 10
    [] cents >= 500000                     -> 25

(* round_down_to_valid_tick: the largest multiple of the level's tick that *)
(* is not above the price.                                                 *)
RoundDown(cents) == (cents \div (100 * TickOf(cents))) * TickOf(cents)

(* round_up_to_valid_tick: the smallest multiple that is not below it. *)
RoundUpNextTick(cents) ==
  (cents \div (100 * TickOf(cents)) + 1) * TickOf(cents)

RoundUp(cents) ==
  LET step == 100 * TickOf(cents)
  IN  ((cents + step - 1) \div step) * TickOf(cents)

(* The symmetric band, in percent of the previous close. *)
BandPct(prevClose, fca) ==
  CASE fca                                                    -> 10
    [] ~fca /\ prevClose < 200                                -> 35
    [] ~fca /\ prevClose >= 200 /\ prevClose <= 5000          -> 25
    [] ~fca /\ prevClose > 5000                               -> 20

Floor(fca) == IF fca THEN FcaMinPrice ELSE RegularMinPrice

(* The two prices calculate_idx_limits returns. *)
ARACloseTick(prevClose, fca) ==
  LET tick == TickOf(100 * prevClose)
  IN  ((prevClose * (100 + BandPct(prevClose, fca))) \div (100 * tick)) * tick

ARA(prevClose, fca) == RoundDown(prevClose * (100 + BandPct(prevClose, fca)))

ARBAbove(prevClose, fca) ==
  RoundUp(prevClose * (100 + BandPct(prevClose, fca)))

ARB(prevClose, fca) ==
  LET rounded == RoundUp(prevClose * (100 - BandPct(prevClose, fca)))
  IN  IF rounded > Floor(fca) THEN rounded ELSE Floor(fca)

(* The check both order paths of the manager make: no buy above ARA, no    *)
(* sell below ARB (the manager never asks for the FCA board).              *)
WithinBand(side, price, prevClose) ==
  /\ side = "buy"  => price <= ARA(prevClose, FALSE)
  /\ side = "sell" => price >= ARB(prevClose, FALSE)

-----------------------------------------------------------------------------
(* What the limits are to be.  A price is valid when it is a multiple of   *)
(* the tick of its own level; the edges of the band in hundredths.         *)
ValidPrice(price) == price % TickOf(100 * price) = 0
UpperEdge(prevClose, fca) == prevClose * (100 + BandPct(prevClose, fca))
LowerEdge(prevClose, fca) == prevClose * (100 - BandPct(prevClose, fca))

(* ARA is the highest valid price within the band, also where the band's   *)
(* edge lies on another tick level than the close (the case the comment at *)
(* idx_rules.py:94-96 is about).                                           *)
ARAIsHighestValid(prevClose, fca) ==
  /\ ValidPrice(ARA(prevClose, fca))
  /\ 100 * ARA(prevClose, fca) <= UpperEdge(prevClose, fca)
  /\ \A p \in ARA(prevClose, fca) + 1 .. UpperEdge(prevClose, fca) \div 100 : ~ValidPrice(p)

(* ARB is the lowest valid price within the band that is not below the     *)
(* board's floor.                                                          *)
ARBIsLowestValid(prevClose, fca) ==
  /\ ValidPrice(ARB(prevClose, fca))
  /\ ARB(prevClose, fca) >= Floor(fca)
  /\ 100 * ARB(prevClose, fca) >= LowerEdge(prevClose, fca) \/ ARB(prevClose, fca) = Floor(fca)
  /\ \A p \in (LowerEdge(prevClose, fca) + 99) \div 100 .. ARB(prevClose, fca) - 1 :
       p >= Floor(fca) => ~ValidPrice(p)

(* A close that is a legal price on its board lies inside its own band, so *)
(* an order at the close is never refused.  (On the regular board a close  *)
(* below 38 leaves no price at all: ARB is the floor, 50, and above ARA.)  *)
CloseIsTradable(prevClose, fca) ==
  prevClose >= Floor(fca) =>
    /\ ARB(prevClose, fca) <= prevClose
    /\ prevClose <= ARA(prevClose, fca)

(* All three: the band is the widest of valid prices, and the close is in  *)
(* it.                                                                     *)
BandIsRight(prevClose, fca) ==
  ARAIsHighestValid(prevClose, fca) /\ ARBIsLowestValid(prevClose, fca) /\ CloseIsTradable(prevClose, fca)
=============================================================================
