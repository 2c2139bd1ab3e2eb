------------------------- MODULE FlatOrderBookRefines --------------------------
(***************************************************************************)
(* FlatOrderBook implements PoolOrderBook: "Only the ref index differs".   *)
(***************************************************************************)
EXTENDS FlatOrderBook

\* The index of PoolOrderBook: what the Occupied entries say.
indexed == [ref \in {r \in Refs : Holding(r) # {}} |->
               ref_table[CHOOSE h \in Holding(ref) : TRUE].slot]

PoolBook == INSTANCE PoolOrderBook WITH refMap <- indexed

\* With the table read as a map FlatOrderBook is PoolOrderBook step by step, and
\* so the book PriceTimeBook promises.  In particular the third way to refuse an
\* order is never taken.
ImplementsPoolOrderBook == PoolBook!Spec
=============================================================================
