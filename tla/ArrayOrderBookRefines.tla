------------------------ MODULE ArrayOrderBookRefines ------------------------
(***************************************************************************)
(* The mapping under which ArrayOrderBook is the book PriceTimeBook        *)
(* promises over the prices of its window, for callers who use the two     *)
(* sides the promise knows.                                                *)
(***************************************************************************)
EXTENDS ArrayOrderBook

\* The prices of the levels, and the lists of those levels.
InWindow == {p \in Prices : \E i \in LevelIdx : p = priceAt(i)}
Queues   == [side \in BookSide |-> [p \in Prices |->
               IF p \in InWindow THEN levels[side][index(p)].orders ELSE <<>>]]

\* The request being worked, with what is left of it.
Worker == IF req = None THEN None
          ELSE [ref |-> req.ref, side |-> req.side, limit_price |-> req.limit_price,
                remaining |-> remaining]

PriceTime == INSTANCE PriceTimeBook WITH
    Tradable <- InWindow, Capacity <- -1,
    queue <- Queues, taker <- Worker, result <- returned

\* What the mapping asks of the callers and of the value None.
TwoSides == SubmitSides \subseteq BookSide
NoWorker == None \notin PriceTime!Taker

\* Over the prices of its window ArrayOrderBook does what PriceTimeBook
\* promises, step by step, and it refuses the others whole.
ImplementsPriceTimeBook == PriceTime!FairSpec
=============================================================================
