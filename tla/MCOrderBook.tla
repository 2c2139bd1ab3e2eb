----------------------------- MODULE MCOrderBook -----------------------------
(***************************************************************************)
(* OrderBook on small instances, for callers that keep the contract.       *)
(***************************************************************************)
EXTENDS OrderBookContract, TLC

MCPrices   == 1..3
MCQtys     == 1..2
MCAllSides == {Buy, Sell, SellShort}
MCSymmetry == Permutations(Refs)

\* "Returns the quantity left resting in the book" (order_book.hpp, submit):
\* when a submit returns a quantity, an order of that quantity is resting.
ReturnsQuantityResting ==
    [][pc # "idle" /\ pc' = "idle" /\ returned' > 0 =>
         /\ req.ref \in DOMAIN refMap'
         /\ \E i \in DOMAIN levels'[refMap'[req.ref].side][refMap'[req.ref].price].orders :
              levels'[refMap'[req.ref].side][refMap'[req.ref].price].orders[i] =
                  [resting |-> req.ref, remainQty |-> returned']]_vars
=============================================================================
