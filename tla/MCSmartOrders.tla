--------------------------- MODULE MCSmartOrders ---------------------------
(***************************************************************************)
(* Instances of SmartOrders for TLC.  Prices are small numbers; a rate of  *)
(* 30 fires when the price is 30% away from the peak (10 -> 7 -> 4).       *)
(***************************************************************************)
EXTENDS SmartOrders, TLC

CONSTANTS btc, eth, timer, nats

\* The two goroutines of cmd/trading run the same code.
CheckerSymmetry == Permutations(Checkers)

StopLoss   == [symbol |-> btc, side |-> "sell", type |-> "stop_loss", trigger |-> 7, rate |-> 0]
TakeProfit == [symbol |-> eth, side |-> "sell", type |-> "take_profit", trigger |-> 10, rate |-> 0]
TrailSell  == [symbol |-> btc, side |-> "sell", type |-> "trailing_stop", trigger |-> 0, rate |-> 30]
TrailBuy   == [symbol |-> btc, side |-> "buy", type |-> "trailing_stop", trigger |-> 0, rate |-> 30]
\* Rejected by the handler: a stop-loss without a trigger price.
NoTrigger  == [StopLoss EXCEPT !.trigger = 0]

AllRequests   == {StopLoss, TakeProfit, TrailSell, TrailBuy, NoTrigger}
FixedRequests == {StopLoss, TakeProfit}
Trailing      == {TrailSell, TrailBuy}
OneStop       == {StopLoss}
=============================================================================
