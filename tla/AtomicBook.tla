----------------------------- MODULE AtomicBook ------------------------------
(***************************************************************************)
(* What a submit does, seen from outside and all at once.                  *)
(*                                                                         *)
(* The book is one list of orders in the order they arrived, with no       *)
(* levels and no queues.  Price-time priority is then a statement about    *)
(* that list: the opposing orders an incoming order may trade with are     *)
(* ranked by price and, at one price, by arrival; each of them receives    *)
(* what is left of the incoming quantity after everyone ranked before it.  *)
(***************************************************************************)
EXTENDS BookTypes, FiniteSets, FiniteSetsExt

CONSTANTS Refs, Prices, Qtys, Tradable, Capacity

Unlimited == -1

VARIABLES book,    \* the resting orders, in order of arrival
          fills,   \* the fills of the last submit
          result   \* what the last submit or cancel returned

vars == <<book, fills, result>>

Init == book = <<>> /\ fills = <<>> /\ result = 0

IsIn(ref) == \E i \in DOMAIN book : book[i].ref = ref

\* The entries of s that are still in the book, in their order.
Kept(s) == SelectSeq(s, LAMBDA o : o.remaining > 0)
-----------------------------------------------------------------------------
(***************************************************************************)
(* The outcome of one submit                                               *)
(***************************************************************************)
\* The resting orders the incoming order may trade with.
Eligible(side, limit_price) ==
    {i \in DOMAIN book : book[i].side # side /\ Crosses(side, limit_price, book[i].price)}

\* Price first, then time: i is served before j.
Before(i, j) ==
    \/ Better(book[i].side, book[i].price, book[j].price)
    \/ book[i].price = book[j].price /\ i < j

\* What order i receives of an incoming quantity.
Taken(i, side, qty, limit_price) ==
    LET E     == Eligible(side, limit_price)
        ahead == MapThenSumSet(LAMBDA j : book[j].remaining, {j \in E : Before(j, i)})
    IN  IF i \in E THEN Max({0, Lesser(book[i].remaining, qty - ahead)}) ELSE 0

Submit(ref, side, qty, price) ==
    LET taken  == [i \in DOMAIN book |-> Taken(i, side, qty, price)]
        Hit    == {i \in DOMAIN book : taken[i] > 0}
        rank   == [i \in Hit |-> Cardinality({j \in Hit : Before(j, i)}) + 1]
        left   == qty - MapThenSumSet(LAMBDA i : taken[i], Hit)
        after  == Kept([i \in DOMAIN book |->
                      [book[i] EXCEPT !.remaining = @ - taken[i]]])
        full   == Capacity # Unlimited /\ Len(after) >= Capacity
        rests  == IF full THEN 0 ELSE left
        entry  == [ref |-> ref, side |-> side, price |-> price, remaining |-> rests]
    IN  /\ ~IsIn(ref)
        /\ price \in Tradable
        /\ fills' = [k \in 1..Cardinality(Hit) |->
               LET i == CHOOSE i \in Hit : rank[i] = k
               IN  [aggressor |-> ref, resting |-> book[i].ref,
                    price |-> book[i].price, qty |-> taken[i]]]
        /\ book' = Kept(Append(after, entry))
        /\ result' = rests

Refuse(ref, price) ==
    /\ ~IsIn(ref)
    /\ price \notin Tradable
    /\ fills' = <<>>
    /\ result' = 0
    /\ UNCHANGED book

Cancel(ref) ==
    /\ book' = SelectSeq(book, LAMBDA o : o.ref # ref)
    /\ result' = MapThenSumSet(LAMBDA i : book[i].remaining,
                               {i \in DOMAIN book : book[i].ref = ref})
    /\ UNCHANGED fills
-----------------------------------------------------------------------------
Next ==
    \/ \E ref \in Refs, side \in BookSide, qty \in Qtys, price \in Prices :
          Submit(ref, side, qty, price)
    \/ \E ref \in Refs, price \in Prices : Refuse(ref, price)
    \/ \E ref \in Refs : Cancel(ref)

Spec == Init /\ [][Next]_vars
=============================================================================
