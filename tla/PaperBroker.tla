----------------------------- MODULE PaperBroker -----------------------------
(***************************************************************************)
(* The paper broker, src/execution/executor.py, behind the adapter of      *)
(* src/brokers/paper_adapter.py: cash and positions, and market orders     *)
(* that fill at once at the price they name or are rejected.               *)
(*                                                                         *)
(* Money is counted in ten-thousandths of the currency, the unit in which  *)
(* the fees (15 and 25 basis points) are whole numbers.  A symbol that     *)
(* positions does not hold has position 0; place_order pops the key when a *)
(* sale empties it, so the code's dictionary is exactly the non-zero part. *)
(* place_order takes no lock; here it is one step.                         *)
(***************************************************************************)
EXTENDS Integers

CONSTANTS
  Symbols,        \* the traded symbols
  StartingCash    \* PaperBroker(cash=...), in currency units

VARIABLES
  cash,           \* self.cash
  positions       \* self.positions

brokerVars == <<cash, positions>>

Unit       == 10000
BuyFeeBps  == 15
SellFeeBps == 25

BuyCost(qty, price) == qty * price * (Unit + BuyFeeBps)
SellNet(qty, price) == qty * price * (Unit - SellFeeBps)

(* get_balance with the price map {symbol: price}: a holding in a symbol   *)
(* the map does not price counts for nothing.                              *)
Balance(symbol, price) == cash + Unit * positions[symbol] * price

(* get_positions: the symbols that are held. *)
Held == {s \in Symbols : positions[s] # 0}

BrokerInit ==
  /\ cash = StartingCash * Unit
  /\ positions = [s \in Symbols |-> 0]

(* place_order's decision ... *)
CanFillOnCredit(symbol, side, qty, price) ==
  /\ qty > 0
  /\ side = "sell" => qty <= positions[symbol]

CanFill(symbol, side, qty, price) ==
  /\ qty > 0
  /\ side = "buy"  => BuyCost(qty, price) <= cash
  /\ side = "sell" => qty <= positions[symbol]

(* ... and its effect when the order fills.  Rejections change nothing. *)
Fill(symbol, side, qty, price) ==
  /\ CanFill(symbol, side, qty, price)
  /\ \/ /\ side = "buy"
        /\ cash' = cash - BuyCost(qty, price)
        /\ positions' = [positions EXCEPT ![symbol] = @ + qty]
     \/ /\ side = "sell"
        /\ cash' = cash + SellNet(qty, price)
        /\ positions' = [positions EXCEPT ![symbol] = @ - qty]

(* No order of a single caller overdraws the account or sells what it does *)
(* not hold: every path to the broker is checked there, whatever the       *)
(* manager let through.                                                    *)
Solvent ==
  /\ cash >= 0
  /\ \A s \in Symbols : positions[s] >= 0
=============================================================================
