---------------------------- MODULE PriceTimeBook ----------------------------
(***************************************************************************)
(* What every order book of libs/matching promises, one trade at a time.   *)
(*                                                                         *)
(* The book is a queue of resting orders for each side and price, and a    *)
(* submit is a series of trades, each with the front of the best queue of  *)
(* the other side, after which the rest of the order joins the back of the *)
(* queue at its own price.  Nothing else is in this module: no index of    *)
(* references, no containers, no touch.  OrderBook, ArrayOrderBook and     *)
(* PoolOrderBook each implement it.                                        *)
(*                                                                         *)
(* The contract asks for quantities above 0 and no book checks it, so they *)
(* are integers here: an order for less than nothing matches with nothing  *)
(* and rests, and whoever meets it later trades its whole quantity.        *)
(***************************************************************************)
EXTENDS BookTypes, FiniteSets

CONSTANTS Refs,      \* order reference numbers
          Prices,    \* limit prices an order may name
          Qtys,      \* quantities an order may ask for
          Tradable,  \* the prices this book can hold; an order elsewhere is refused
          Capacity,  \* how many orders may rest at a time, or Unlimited
          None       \* no submit is being worked

Unlimited == -1

ASSUME PricesAssumption   == Prices \subseteq Int /\ Tradable \subseteq Prices
ASSUME QtysAssumption     == Qtys \subseteq Int
ASSUME CapacityAssumption == Capacity \in Nat \cup {Unlimited}

VARIABLES queue,   \* queue[side][price]: the resting orders, oldest first
          taker,   \* the order being submitted and what is left of it, or None
          fills,   \* the caller's vector of fills
          result   \* what the last submit or cancel returned

vars == <<queue, taker, fills, result>>

RestingOrder == [resting : Refs, remainQty : Int \ {0}]
Taker == [ref : Refs, side : BookSide, limit_price : Prices, remaining : Int]
Fill  == [aggressor : Refs, resting : Refs, price : Prices, qty : Int \ {0}]

ASSUME NoneAssumption == None \notin Taker

\* Every structure has its type; no resting order has nothing left, and an
\* order that has traded is never filled beyond what it asked for.
TypeOK ==
    /\ queue \in [BookSide -> [Prices -> Seq(RestingOrder)]]
    /\ taker \in Taker \cup {None}
    /\ taker # None => taker.remaining >= 0 \/ fills = <<>>
    /\ fills \in Seq(Fill)
    /\ result \in Int

Rests(r, side, p, i) == i \in DOMAIN queue[side][p] /\ queue[side][p][i].resting = r
InBook(r) == \E side \in BookSide, p \in Prices : \E i \in 1..Len(queue[side][p]) :
                 Rests(r, side, p, i)
Full == Capacity # Unlimited /\ Cardinality({r \in Refs : InBook(r)}) >= Capacity

Init ==
    /\ queue = [side \in BookSide |-> [p \in Prices |-> <<>>]]
    /\ taker = None
    /\ fills = <<>>
    /\ result = 0
-----------------------------------------------------------------------------
\* Mutant of IsTouch: any level within the limit, not the best of them.
IsWithinLimit(p) ==
    /\ queue[Opposite(taker.side)][p] # <<>>
    /\ Crosses(taker.side, taker.limit_price, p)

\* p holds the orders the taker trades with next: the best occupied price of
\* the other side, if it is within the taker's limit.
IsTouch(p) ==
    LET side == Opposite(taker.side)
    IN  /\ queue[side][p] # <<>>
        /\ \A q \in Prices : Better(side, q, p) => queue[side][q] = <<>>
        /\ Crosses(taker.side, taker.limit_price, p)

\* A submit begins: the caller's vector is cleared and the order goes to work.
Arrive(ref, side, qty, price) ==
    /\ taker = None
    /\ taker' = [ref |-> ref, side |-> side, limit_price |-> price, remaining |-> qty]
    /\ price \in Tradable
    /\ ~InBook(ref)
    /\ fills' = <<>>
    /\ UNCHANGED <<queue, result>>

\* A price this book cannot hold is turned away whole.
Refuse(ref, price) ==
    /\ taker = None
    /\ fills' = <<>>
    /\ result' = 0
    /\ price \notin Tradable
    /\ ~InBook(ref)
    /\ UNCHANGED <<queue, taker>>

\* One trade, at the resting order's price, with the oldest order there.  An
\* order that is filled leaves; one filled in part keeps its place.
Trade ==
    /\ taker # None
    /\ taker.remaining > 0
    /\ \E p \in Prices :
         LET side  == Opposite(taker.side)
             front == Head(queue[side][p])
             qty   == Lesser(taker.remaining, front.remainQty)
         IN  /\ IsTouch(p)
             /\ taker' = [taker EXCEPT !.remaining = @ - qty]
             /\ queue' = [queue EXCEPT ![side][p] =
                    IF front.remainQty = qty THEN Tail(@)
                    ELSE [@ EXCEPT ![1] = [front EXCEPT !.remainQty = @ - qty]]]
             /\ fills' = Append(fills, [aggressor |-> taker.ref, resting |-> front.resting,
                                        price |-> p, qty |-> qty])
    /\ UNCHANGED result

CanTrade == taker.remaining > 0 /\ \E p \in Prices : IsTouch(p)

\* What is left joins the back of the queue at the order's own price.
Rest ==
    /\ taker # None
    /\ taker.remaining # 0
    /\ ~CanTrade
    /\ ~Full
    /\ queue' = [queue EXCEPT ![taker.side][taker.limit_price] =
           Append(@, [resting |-> taker.ref, remainQty |-> taker.remaining])]
    /\ result' = taker.remaining
    /\ taker' = None
    /\ UNCHANGED fills

\* There is no room for it.  That can happen only to an order that has traded
\* with nothing: a refusal is never half applied.
Drop ==
    /\ taker # None
    /\ taker.remaining # 0
    /\ ~CanTrade
    /\ Full
    /\ fills = <<>>
    /\ result' = 0
    /\ taker' = None
    /\ UNCHANGED <<queue, fills>>

\* Nothing is left of it.
Done ==
    /\ taker # None
    /\ taker.remaining = 0
    /\ result' = 0
    /\ taker' = None
    /\ UNCHANGED <<queue, fills>>

\* Cancelling a resting order returns what was left of it ...
Cancel(ref) ==
    /\ taker = None
    /\ \E side \in BookSide, p \in Prices : \E i \in 1..Len(queue[side][p]) :
         /\ Rests(ref, side, p, i)
         /\ queue' = [queue EXCEPT ![side][p] = SubSeq(@, 1, i - 1) \o SubSeq(@, i + 1, Len(@))]
         /\ result' = queue[side][p][i].remainQty
    /\ UNCHANGED <<taker, fills>>

\* ... and cancelling any other returns 0, which no resting order does.
CancelUnknown(ref) ==
    /\ taker = None
    /\ ~InBook(ref)
    /\ result' = 0
    /\ UNCHANGED <<queue, taker, fills>>
-----------------------------------------------------------------------------
Working == Trade \/ Rest \/ Drop \/ Done

Next ==
    \/ \E ref \in Refs, side \in BookSide, qty \in Qtys, price \in Prices :
          Arrive(ref, side, qty, price)
    \/ \E ref \in Refs, price \in Prices : Refuse(ref, price)
    \/ Working
    \/ \E ref \in Refs : Cancel(ref) \/ CancelUnknown(ref)

Spec == Init /\ [][Next]_vars

\* A submit that has begun is carried on: the code runs to its return.
FairSpec == Spec /\ WF_vars(Working)
=============================================================================
