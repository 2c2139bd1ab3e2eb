--------------------------- MODULE MCArrayOrderBook ---------------------------
(***************************************************************************)
(* ArrayOrderBook with six levels in words of two bits, two ticks apart:   *)
(* the window starts and ends at a word boundary and has one in the middle *)
(* of each side, and there are prices below it, above it and between two   *)
(* levels.                                                                 *)
(***************************************************************************)
EXTENDS ArrayOrderBookRefines, TLC

MCPrices   == {8, 10, 12, 13, 14, 16, 18, 20, 22}   \* levels at 10, 12, ..., 20
MCFewPrices == {8, 10, 13, 16, 18}                  \* of four levels the first and the last,
                                                    \* and one before, between and behind
MCQtys     == 1..2
MCAnyQtys  == {-1, 1, 2}
MCAllSides == {Buy, Sell, SellShort}
MCSymmetry == Permutations(Refs)
===============================================================================
