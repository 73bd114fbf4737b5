--------------------------- MODULE MCPositionSync ---------------------------
(***************************************************************************)
(* Instances of PositionSync for TLC.                                      *)
(***************************************************************************)
EXTENDS PositionSync

CONSTANTS btc, eth, long, short, live, other

NoTrades == {}
Seconds  == {t \in Trades : t[2] = 2}
Firsts   == {t \in Trades : t[2] = 1}
LongKeys == Symbols \X {Long}

\* Each symbol settles in a category of its own.
Settles == [s \in Symbols |-> IF s = btc THEN "USDT" ELSE "inverse"]
=============================================================================
