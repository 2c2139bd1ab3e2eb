-------------------------- MODULE MCOrderBookRefines --------------------------
(***************************************************************************)
(* OrderBookRefines with small sets.  A quantity may be below 0: the       *)
(* promise covers what the code does with one.                             *)
(***************************************************************************)
EXTENDS OrderBookRefines

MCPrices == 1..2
MCQtys   == {-1, 1, 2}
=============================================================================
