------------------------------ MODULE BookTypes ------------------------------
(***************************************************************************)
(* The vocabulary the four order books share: the sides of a book, which   *)
(* of two prices of a side comes first, and when an incoming order may     *)
(* trade at a resting price.                                               *)
(***************************************************************************)
EXTENDS Integers, Sequences

\* common::Side.  Only Buy and Sell name a side of a book.
Buy            == "Buy"
Sell           == "Sell"
SellShort      == "SellShort"
SellShortExempt == "SellShortExempt"

Side     == {Buy, Sell, SellShort, SellShortExempt}
BookSide == {Buy, Sell}

Opposite(side) == IF side = Buy THEN Sell ELSE Buy

\* The order of the two std::maps: bids descend, asks ascend, so that the
\* best price is first on both sides.
Better(side, p, q) == IF side = Buy THEN p > q ELSE p < q

\* Mutant of Crosses: < for <=, so that orders at the same price pass each other.
CrossesStrictly(side, limit_price, p) ==
    IF side = Buy THEN p < limit_price ELSE p > limit_price

\* An order of this side and limit may trade with the level at price p of
\* the opposite side (the negation of the `break` of the matching loop).
Crosses(side, limit_price, p) ==
    IF side = Buy THEN p <= limit_price ELSE p >= limit_price

\* Mutant of Lesser: no std::min, the whole resting order is filled.
WholeFront(m, n) == n

\* std::min
Lesser(m, n) == IF m <= n THEN m ELSE n

\* What a sequence of quantities adds up to, and what the orders of a list
\* have left between them.
Total(qtys) ==
    LET upTo[n \in 0..Len(qtys)] == IF n = 0 THEN 0 ELSE upTo[n - 1] + qtys[n]
    IN  upTo[Len(qtys)]
TotalLeft(list) == Total([i \in DOMAIN list |-> list[i].remainQty])
=============================================================================
