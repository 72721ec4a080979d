------------------------------- MODULE MCPnl --------------------------------
(* A small instance of Pnl for TLC. *)
EXTENDS Pnl

\* Three orders in one market, of which two lose together, or only one of
\* them when the market is invalid, and between them one in another market.
FourOrders ==
  [o \in Orders |->
     [wallet |-> IF o <= 2 THEN "a" ELSE "b",
      condition |-> IF o = 3 THEN 2 ELSE 1,
      token |-> IF o = 4 THEN "no" ELSE "yes",
      side |-> IF o \in {1, 4} THEN "SELL" ELSE "BUY",
      size |-> IF o = 1 THEN 1 ELSE 4]]

\* Listed worst ask first, which is best bid first.
OneBook == { << [price |-> 3, size |-> 1], [price |-> 2, size |-> 1] >> }
=============================================================================
