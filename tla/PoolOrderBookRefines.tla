------------------------- MODULE PoolOrderBookRefines -------------------------
(***************************************************************************)
(* PoolOrderBook read as a PriceTimeBook of kMaxOrders orders, whose       *)
(* queues are found by walking the links.                                  *)
(***************************************************************************)
EXTENDS PoolOrderBook

\* The orders of a level as PriceTimeBook keeps them.
Entries(held) ==
    [k \in DOMAIN held |-> [resting |-> held[k].ref, remainQty |-> held[k].remainQty]]

InWindow == {p \in Prices : \E i \in LevelIdx : p = priceAt(i)}
Queues   == [side \in BookSide |-> [p \in Prices |->
                IF p \in InWindow THEN Entries(Held(side, index(p))) ELSE <<>>]]
Worker   == IF req = None THEN None
            ELSE [ref |-> req.ref, side |-> ownSide, limit_price |-> req.limit_price,
                  remaining |-> remaining]

PriceTime == INSTANCE PriceTimeBook WITH
    Tradable <- InWindow, Capacity <- kMaxOrders,
    queue <- Queues, taker <- Worker, result <- returned

\* What the mapping asks of the value None.
NoWorker == None \notin PriceTime!Taker

\* Read through its links, PoolOrderBook is the book PriceTimeBook promises,
\* of kMaxOrders orders: in particular the pool runs out only for an order
\* that has traded with nothing, so that no refusal is half applied.  That
\* submits come to their end is SubmitReturns.
ImplementsPriceTimeBook == PriceTime!Spec
=============================================================================
