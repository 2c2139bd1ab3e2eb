------------------------------ MODULE OrderBook ------------------------------
(***************************************************************************)
(* libs/matching OrderBook: a std::map of levels per side, a std::list of  *)
(* orders per level, and an unordered_map from reference to locator.       *)
(*                                                                         *)
(* submit is the only operation with loops, so it alone is split into      *)
(* steps, one per round of each loop; cancel is one step.  The book is     *)
(* single-threaded: the caller's next operation waits for pc = "idle".     *)
(***************************************************************************)
EXTENDS BookTypes, FiniteSets

CONSTANTS Refs,         \* OrderRefNum values, unique among live orders
          Prices,       \* limit prices
          Qtys,         \* quantities: nothing checks that they are above 0
          SubmitSides,  \* the sides callers use
          None          \* no request is being worked

ASSUME PricesAssumption == Prices \subseteq Int
ASSUME QtysAssumption   == Qtys \subseteq Int
ASSUME SidesAssumption  == SubmitSides \subseteq Side

VARIABLES levels,        \* levels[side]: the std::map `buy` or `sell`, price -> Level
          refMap,        \* ref -> Locator, for every resting order
          orders_count,  \* buy_orders_count, sell_orders_count
          pc,            \* where submit is: "idle", "match", "level"
          req,           \* the request being worked, or None
          remaining,     \* submit's local: quantity not yet filled
          fills,         \* the caller's vector of fills
          returned       \* what the last submit or cancel returned

book   == <<levels, refMap, orders_count>>
locals == <<pc, req, remaining>>
vars   == <<levels, refMap, orders_count, pc, req, remaining, fills, returned>>

OrderRequest == [ref : Refs, side : SubmitSides, qty : Qtys, limit_price : Prices]
RestingOrder == [resting : Refs, remainQty : Nat \ {0}]
Level   == [total_qty : Int, orders : Seq(RestingOrder)]
\* A Locator's list iterator is the node that holds the locator's own ref.
Locator == [side : BookSide, price : Prices]
Fill    == [aggressor : Refs, resting : Refs, price : Prices, qty : Nat \ {0}]

ASSUME NoneAssumption == None \notin OrderRequest

Init ==
    /\ levels = [side \in BookSide |-> [p \in {} |-> [total_qty |-> 0, orders |-> <<>>]]]
    /\ refMap = [r \in {} |-> [side |-> Buy, price |-> 0]]
    /\ orders_count = [side \in BookSide |-> 0]
    /\ pc = "idle"
    /\ req = None
    /\ remaining = 0
    /\ fills = <<>>
    /\ returned = 0
-----------------------------------------------------------------------------
\* Mutants of IsBegin (std::greater for the asks too), LevelOrNew (its total
\* started afresh) and Put (emplace, which keeps the value that is there).
IsBeginDescending(side, p) ==
    p \in DOMAIN levels[side] /\ \A q \in DOMAIN levels[side] : q <= p
LevelTotalReset(side, p) ==
    [total_qty |-> 0,
     orders |-> IF p \in DOMAIN levels[side] THEN levels[side][p].orders ELSE <<>>]
Emplace(f, key, value) ==
    [k \in DOMAIN f \cup {key} |-> IF k \in DOMAIN f THEN f[k] ELSE value]

\* std::map: begin() of a side, erase of a key, and operator[], which makes
\* an empty level when there is none.
IsBegin(side, p) ==
    p \in DOMAIN levels[side] /\ \A q \in DOMAIN levels[side] : ~Better(side, q, p)
Erase(f, key) == [k \in DOMAIN f \ {key} |-> f[k]]
LevelOrNew(side, p) ==
    IF p \in DOMAIN levels[side] THEN levels[side][p] ELSE [total_qty |-> 0, orders |-> <<>>]
Put(f, key, value) == [k \in DOMAIN f \cup {key} |-> IF k = key THEN value ELSE f[k]]

\* submit returns.
Return(qty) == pc' = "idle" /\ req' = None /\ remaining' = 0 /\ returned' = qty

Submit(request) ==
    /\ pc = "idle"
    /\ request.ref \notin DOMAIN refMap
    /\ pc' = "match"
    /\ req' = request
    /\ remaining' = request.qty
    /\ fills' = <<>>
    /\ UNCHANGED <<levels, refMap, orders_count, returned>>

\* The outer loop goes round: there is quantity left and the other side's
\* begin() is within the limit.
EnterLevel(p) ==
    /\ pc = "match"
    /\ req.side \in BookSide
    /\ remaining > 0
    /\ IsBegin(Opposite(req.side), p)
    /\ Crosses(req.side, req.limit_price, p)
    /\ pc' = "level"
    /\ UNCHANGED <<book, req, remaining, fills, returned>>

\* The inner loop goes round: trade with the front order of the level at p,
\* and take it out of the list and the index when nothing of it is left.
TradeAt(p) ==
    LET side    == Opposite(req.side)
        lvl     == levels[side][p]
        front   == Head(lvl.orders)
        fillQty == Lesser(remaining, front.remainQty)
        spent   == front.remainQty - fillQty <= 0
    IN  /\ fills' = Append(fills, [aggressor |-> req.ref, resting |-> front.resting,
                                   price |-> p, qty |-> fillQty])
        /\ remaining' = remaining - fillQty
        /\ levels' = [levels EXCEPT ![side][p] =
               [total_qty |-> lvl.total_qty - fillQty,
                orders |-> IF spent THEN Tail(lvl.orders)
                           ELSE [lvl.orders EXCEPT ![1] =
                                   [front EXCEPT !.remainQty = @ - fillQty]]]]
        /\ refMap' = IF spent THEN Erase(refMap, front.resting) ELSE refMap
        /\ orders_count' = IF spent THEN [orders_count EXCEPT ![side] = @ - 1] ELSE orders_count

FillFront(p) ==
    /\ pc = "level"
    /\ IsBegin(Opposite(req.side), p)
    /\ remaining > 0
    /\ levels[Opposite(req.side)][p].orders # <<>>
    /\ TradeAt(p)
    /\ UNCHANGED <<pc, req, returned>>

\* Mutant of LeaveLevel: the drained level is not erased.
LeaveLevelBehind(p) ==
    /\ pc = "level"
    /\ IsBegin(Opposite(req.side), p)
    /\ remaining = 0 \/ levels[Opposite(req.side)][p].orders = <<>>
    /\ pc' = "match"
    /\ UNCHANGED <<book, req, remaining, fills, returned>>

\* The inner loop ends; a level left empty is erased from the map.
LeaveLevel(p) ==
    LET side  == Opposite(req.side)
        drained == levels[side][p].orders = <<>>
    IN  /\ pc = "level"
        /\ IsBegin(side, p)
        /\ remaining = 0 \/ drained
        /\ levels' = IF drained THEN [levels EXCEPT ![side] = Erase(@, p)] ELSE levels
        /\ pc' = "match"
        /\ UNCHANGED <<refMap, orders_count, req, remaining, fills, returned>>

\* The outer loop ends with quantity left over, or there was less than none.
Unmatched ==
    LET side == Opposite(req.side)
    IN  /\ remaining # 0
        /\ \/ remaining < 0
           \/ DOMAIN levels[side] = {}
           \/ \E p \in Prices : IsBegin(side, p) /\ ~Crosses(req.side, req.limit_price, p)

SubmitFilled ==
    /\ pc = "match"
    /\ remaining = 0
    /\ Return(0)
    /\ UNCHANGED <<book, fills>>

\* The rest of the order joins its own level, at the back.
SubmitRests ==
    /\ pc = "match"
    /\ req.side \in BookSide
    /\ Unmatched
    /\ LET lvl == LevelOrNew(req.side, req.limit_price)
           new == [total_qty |-> lvl.total_qty + remaining,
                   orders |-> Append(lvl.orders, [resting |-> req.ref, remainQty |-> remaining])]
       IN  levels' = [levels EXCEPT ![req.side] = Put(@, req.limit_price, new)]
    /\ refMap' = Put(refMap, req.ref, [side |-> req.side, price |-> req.limit_price])
    /\ orders_count' = [orders_count EXCEPT ![req.side] = @ + 1]
    /\ Return(remaining)
    /\ UNCHANGED fills

\* Neither `if` has a case for the short sides: nothing matches, nothing
\* rests, and the whole quantity is returned.
SubmitFallsThrough ==
    /\ pc = "match"
    /\ req.side \notin BookSide
    /\ remaining # 0
    /\ Return(remaining)
    /\ UNCHANGED <<book, fills>>

\* cancel of a resting order: out of its level, out of the index.  (The early
\* returns for a locator without its level are not here: IndexAgrees says that
\* there is no such locator.)
RemoveNode(ref, i) ==
    LET side == refMap[ref].side
        p    == refMap[ref].price
        lvl  == levels[side][p]
        qty  == lvl.orders[i].remainQty
        rest == SubSeq(lvl.orders, 1, i - 1) \o SubSeq(lvl.orders, i + 1, Len(lvl.orders))
    IN  /\ lvl.orders[i].resting = ref
        /\ levels' = [levels EXCEPT ![side] =
               IF rest = <<>> THEN Erase(@, p)
               ELSE Put(@, p, [total_qty |-> lvl.total_qty - qty, orders |-> rest])]
        /\ orders_count' = [orders_count EXCEPT ![side] = @ - 1]
        /\ returned' = qty

Cancel(ref) ==
    /\ pc = "idle"
    /\ ref \in DOMAIN refMap
    /\ \E i \in 1..Len(levels[refMap[ref].side][refMap[ref].price].orders) : RemoveNode(ref, i)
    /\ refMap' = Erase(refMap, ref)
    /\ UNCHANGED <<locals, fills>>

CancelUnknown(ref) ==
    /\ pc = "idle"
    /\ ref \notin DOMAIN refMap
    /\ returned' = 0
    /\ UNCHANGED <<book, locals, fills>>
-----------------------------------------------------------------------------
Working ==
    \/ \E p \in Prices : EnterLevel(p) \/ FillFront(p) \/ LeaveLevel(p)
    \/ SubmitFilled \/ SubmitRests \/ SubmitFallsThrough

Next ==
    \/ \E request \in OrderRequest : Submit(request)
    \/ Working
    \/ \E ref \in Refs : Cancel(ref) \/ CancelUnknown(ref)

Spec == Init /\ [][Next]_vars

\* A submit that has begun is carried on: there is nothing to wait for.
FairSpec == Spec /\ WF_vars(Working)
-----------------------------------------------------------------------------
(***************************************************************************)
(* The read-only views                                                     *)
(***************************************************************************)
best(side)         == {p \in DOMAIN levels[side] : IsBegin(side, p)}
qty_at(side, p)    == IF p \in DOMAIN levels[side] THEN levels[side][p].total_qty ELSE 0
empty              == \A side \in BookSide : DOMAIN levels[side] = {}
order_count        == orders_count[Buy] + orders_count[Sell]
-----------------------------------------------------------------------------
(***************************************************************************)
(* Properties                                                              *)
(***************************************************************************)
\* A map with some of these keys and these values.
MapOf(f, Keys, Values) == DOMAIN f \subseteq Keys /\ f \in [DOMAIN f -> Values]

\* Both sides are maps from prices to levels.
LevelsOK(L) ==
    /\ L = [side \in BookSide |-> L[side]]
    /\ \A side \in BookSide : MapOf(L[side], Prices, Level)

\* Every structure has its type; no resting order has nothing left.
TypeOK ==
    /\ LevelsOK(levels)
    /\ MapOf(refMap, Refs, Locator)
    /\ orders_count \in [BookSide -> Int]
    /\ pc \in {"idle", "match", "level"}
    /\ req \in OrderRequest \cup {None}
    /\ (pc = "idle") <=> (req = None)
    /\ remaining \in Nat
    /\ fills \in Seq(Fill)
    /\ returned \in Nat

\* The book is never crossed, not even while a submit is walking it: every
\* bid level is below every ask level.
NotCrossed ==
    \A bid \in DOMAIN levels[Buy], ask \in DOMAIN levels[Sell] : bid < ask

\* "A level that empties must be removed": the one level that may be without
\* orders is the one the inner loop has just drained.
NoGhostLevel ==
    \A side \in BookSide : \A p \in DOMAIN levels[side] :
        levels[side][p].orders = <<>> =>
            pc = "level" /\ side = Opposite(req.side) /\ IsBegin(side, p)

\* The index and the lists say the same: each locator leads to a node with
\* its ref, each node is where its ref's locator says, and no ref has two.
IndexOK(L, index) ==
    /\ \A r \in DOMAIN index :
         /\ index[r].price \in DOMAIN L[index[r].side]
         /\ \E i \in 1..Len(L[index[r].side][index[r].price].orders) :
              L[index[r].side][index[r].price].orders[i].resting = r
    /\ \A side \in BookSide : \A p \in DOMAIN L[side] :
         \A i \in 1..Len(L[side][p].orders) :
           /\ L[side][p].orders[i].resting \in DOMAIN index
           /\ index[L[side][p].orders[i].resting] = [side |-> side, price |-> p]
           /\ \A j \in 1..Len(L[side][p].orders) :
                L[side][p].orders[j].resting = L[side][p].orders[i].resting => j = i
IndexAgrees == IndexOK(levels, refMap)

\* The running counters are the number of orders in the index, side by side,
\* so order_count() and empty() cannot disagree.
CountsAgree ==
    /\ \A side \in BookSide :
         orders_count[side] = Cardinality({r \in DOMAIN refMap : refMap[r].side = side})
    /\ pc = "idle" => (empty <=> order_count = 0)

\* qty_at of a level is the sum of what its orders have left.
TotalsAgree ==
    \A side \in BookSide : \A p \in DOMAIN levels[side] :
        qty_at(side, p) = TotalLeft(levels[side][p].orders)

\* What the book keeps beside its lists, counters and totals, follows them.
RunningSumsAgree == CountsAgree /\ TotalsAgree

\* A submit returns: its loops always make headway.
SubmitReturns == pc # "idle" ~> pc = "idle"
=============================================================================
