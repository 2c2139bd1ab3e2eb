--------------------------- MODULE OrderBookRefines ---------------------------
(***************************************************************************)
(* The mapping under which OrderBook is the book PriceTimeBook promises,   *)
(* for callers who use the two sides the promise knows.                    *)
(***************************************************************************)
EXTENDS OrderBook

\* The lists of the levels, a price without a level having none.
Queues == [side \in BookSide |-> [p \in Prices |-> LevelOrNew(side, p).orders]]

\* The request being worked, with what is left of it.
Worker == IF req = None THEN None
          ELSE [ref |-> req.ref, side |-> req.side, limit_price |-> req.limit_price,
                remaining |-> remaining]

PriceTime == INSTANCE PriceTimeBook WITH
    Tradable <- Prices, Capacity <- -1,
    queue <- Queues, taker <- Worker, result <- returned

\* What the mapping asks of the callers and of the value None.
TwoSides == SubmitSides \subseteq BookSide
NoWorker == None \notin PriceTime!Taker

\* OrderBook does what PriceTimeBook promises, step by step: every trade is
\* with the oldest order of the best level, what is left rests at the back,
\* every call returns what the promise says, and every submit comes to its end.
ImplementsPriceTimeBook == PriceTime!FairSpec
=============================================================================
