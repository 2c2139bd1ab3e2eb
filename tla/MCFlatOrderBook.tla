--------------------------- MODULE MCFlatOrderBook ----------------------------
(***************************************************************************)
(* FlatOrderBook with two slots, four entries and one level.  Two of the   *)
(* references have the last entry for home, so that a walk wraps; what is  *)
(* pushed on by it has the home of a third, 0, which is also what an       *)
(* unused entry holds.  Between them they can leave no entry Empty.        *)
(***************************************************************************)
EXTENDS FlatOrderBookRefines, TLC

MCPrices == {10}
MCQtys   == 1..2
MCRefs   == {0, 2, 3, 7}  \* at home in entries 0, 2, 3 and 3 of 4

\* "With the load factor capped at 0.5 this cannot happen" (flat_order_book.hpp,
\* of a walk that stops only at Empty and would run forever): there is always
\* an Empty entry for it to stop at.
SomeEntryEmpty == InState("Empty") # {}
=============================================================================
