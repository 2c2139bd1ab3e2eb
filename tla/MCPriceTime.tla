----------------------------- MODULE MCPriceTime -----------------------------
(***************************************************************************)
(* PriceTimeBook on a small instance: four references, of which three may  *)
(* rest at a time, two ticks the book can hold and one it cannot.          *)
(***************************************************************************)
EXTENDS PriceTimeHistory, TLC

MCPrices   == 1..3
MCTradable == 1..2
MCQtys     == {1, 3}
MCSymmetry == Permutations(Refs)

\* Each call of the book, taken as a whole, is a step of AtomicBook: fills,
\* returned quantity and resting book are those price-time priority over the
\* order of arrival dictates (order_book.cpp, the comment of submit).
ImplementsAtomicBook == Atomic!Spec
=============================================================================
