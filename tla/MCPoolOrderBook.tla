--------------------------- MODULE MCPoolOrderBook ----------------------------
(***************************************************************************)
(* PoolOrderBook with a pool smaller than the number of references, so     *)
(* that it runs out, and large enough for a queue of three.                *)
(***************************************************************************)
EXTENDS PoolOrderBookRefines, TLC

MCPrices   == {8, 10, 12, 13, 14}   \* levels at 10 and 12; the others are refused
MCQtys     == 1..2
MCAnyQtys  == {-1, 2}
MCSides    == {Buy, Sell}
MCShortSides == {Buy, SellShort}
MCSymmetry == Permutations(Refs)

\* "If an order arrives when the free list is empty, it is rejected"
\* (pool_order_book.hpp): an order's first fill finds the pool as the order
\* found it, so there is none when the free list is empty.
RejectedWhenPoolEmpty ==
    [][fills = <<>> /\ fills' # <<>> => free_head # kNil]_vars
=============================================================================
