--------------------------- MODULE ArrayOrderBook ----------------------------
(***************************************************************************)
(* libs/matching ArrayOrderBook: an array of levels per side over a fixed  *)
(* window of prices, a bitmap of the occupied ones, and a hint to the best *)
(* of them.  Its submit and cancel are OrderBook's in shape; what is new   *)
(* is the window, and a bitmap and a hint that must follow the lists.      *)
(***************************************************************************)
EXTENDS Window

CONSTANTS Refs,         \* OrderRefNum values, unique among live orders
          Qtys,         \* quantities: nothing checks that they are above 0
          SubmitSides,  \* the sides callers use
          None          \* no request is being worked

ASSUME QtysAssumption   == Qtys \subseteq Int
ASSUME SidesAssumption  == SubmitSides \subseteq Side

VARIABLES levels,        \* levels[side]: buy_levels_, sell_levels_
          refMap,        \* ref -> ArrayLocator, for every resting order
          orders_count,  \* buy_orders_count, sell_orders_count
          pc,            \* where submit is: "idle", "match", "level"
          req,           \* the request being worked, or None
          remaining,     \* submit's local: quantity not yet filled
          fills,         \* the caller's vector of fills
          returned       \* what the last submit or cancel returned

book   == <<levels, occupied, best_idx, refMap, orders_count>>
locals == <<pc, req, remaining>>
vars   == <<levels, occupied, best_idx, refMap, orders_count, pc, req, remaining,
            fills, returned>>

OrderRequest == [ref : Refs, side : SubmitSides, qty : Qtys, limit_price : Prices]
RestingOrder == [resting : Refs, remainQty : Nat \ {0}]
Level        == [total_qty : Int, orders : Seq(RestingOrder)]
ArrayLocator == [side : BookSide, index : LevelIdx]
Fill         == [aggressor : Refs, resting : Refs, price : Prices, qty : Nat \ {0}]

ASSUME NoneAssumption == None \notin OrderRequest

Init ==
    /\ levels = [side \in BookSide |-> [i \in LevelIdx |-> [total_qty |-> 0, orders |-> <<>>]]]
    /\ TouchInit
    /\ refMap = [r \in {} |-> [side |-> Buy, index |-> 0]]
    /\ orders_count = [side \in BookSide |-> 0]
    /\ pc = "idle"
    /\ req = None
    /\ remaining = 0
    /\ fills = <<>>
    /\ returned = 0
-----------------------------------------------------------------------------
\* Mutant of Erase: left out.
NotErased(f, key)  == f

Erase(f, key)      == [k \in DOMAIN f \ {key} |-> f[k]]
Put(f, key, value) == [k \in DOMAIN f \cup {key} |-> IF k = key THEN value ELSE f[k]]

\* submit returns.
Return(qty) == pc' = "idle" /\ req' = None /\ remaining' = 0 /\ returned' = qty
-----------------------------------------------------------------------------
Submit(request) ==
    /\ pc = "idle"
    /\ request.ref \notin DOMAIN refMap
    /\ HasIndex(request.limit_price)
    /\ pc' = "match"
    /\ req' = request
    /\ remaining' = request.qty
    /\ fills' = <<>>
    /\ UNCHANGED <<book, returned>>

\* Off the grid or outside the window: return 0, rest nothing, fill nothing.
SubmitRefused(request) ==
    /\ pc = "idle"
    /\ request.ref \notin DOMAIN refMap
    /\ ~HasIndex(request.limit_price)
    /\ fills' = <<>>
    /\ returned' = 0
    /\ UNCHANGED <<book, locals>>

\* The level the outer loop looks at.  `cur` is read from the hint at the top
\* of each round, and the hint moves only as the round ends.
cur == best_idx[Opposite(req.side)]

\* The condition of the outer loop, `remaining > 0` aside.
Reaches(i) == i # kNone /\ Crosses(req.side, index(req.limit_price), i)

EnterLevel ==
    /\ pc = "match"
    /\ req.side \in BookSide
    /\ remaining > 0
    /\ Reaches(cur)
    /\ pc' = "level"
    /\ UNCHANGED <<book, req, remaining, fills, returned>>

\* One round of the inner loop: trade with the front order of the level.
FillFront ==
    /\ pc = "level"
    /\ remaining > 0
    /\ LET side    == Opposite(req.side)
           lvl     == levels[side][cur]
           front   == Head(lvl.orders)
           fillQty == Lesser(remaining, front.remainQty)
           spent   == front.remainQty - fillQty <= 0
       IN  /\ lvl.orders # <<>>
           /\ fills' = Append(fills, [aggressor |-> req.ref, resting |-> front.resting,
                                      price |-> priceAt(cur), qty |-> fillQty])
           /\ remaining' = remaining - fillQty
           /\ levels' = [levels EXCEPT ![side][cur] =
                  [total_qty |-> lvl.total_qty - fillQty,
                   orders |-> IF spent THEN Tail(lvl.orders)
                              ELSE [lvl.orders EXCEPT ![1] =
                                      [front EXCEPT !.remainQty = @ - fillQty]]]]
           /\ refMap' = IF spent THEN Erase(refMap, front.resting) ELSE refMap
           /\ orders_count' = IF spent THEN [orders_count EXCEPT ![side] = @ - 1]
                              ELSE orders_count
    /\ UNCHANGED <<touch, pc, req, returned>>

\* The inner loop ends; the bit of a drained level is cleared, the level stays.
LeaveLevel ==
    /\ pc = "level"
    /\ LET side  == Opposite(req.side)
           drained == levels[side][cur].orders = <<>>
       IN  /\ remaining = 0 \/ drained
           /\ IF drained THEN on_level_emptied(side, cur) ELSE UNCHANGED touch
    /\ pc' = "match"
    /\ UNCHANGED <<levels, refMap, orders_count, req, remaining, fills, returned>>

SubmitFilled ==
    /\ pc = "match"
    /\ remaining = 0
    /\ Return(0)
    /\ UNCHANGED <<book, fills>>

\* The rest of the order joins its own level, at the back.
SubmitRests ==
    /\ pc = "match"
    /\ req.side \in BookSide
    /\ remaining # 0
    /\ remaining < 0 \/ ~Reaches(cur)
    /\ LET i == index(req.limit_price)
       IN  /\ levels' = [levels EXCEPT ![req.side][i] =
                  [total_qty |-> @.total_qty + remaining,
                   orders |-> Append(@.orders, [resting |-> req.ref, remainQty |-> remaining])]]
           /\ refMap' = Put(refMap, req.ref, [side |-> req.side, index |-> i])
           /\ on_level_occupied(req.side, i)
    /\ orders_count' = [orders_count EXCEPT ![req.side] = @ + 1]
    /\ Return(remaining)
    /\ UNCHANGED fills

\* Neither `if` has a case for the short sides, as in OrderBook.
SubmitFallsThrough ==
    /\ pc = "match"
    /\ req.side \notin BookSide
    /\ remaining # 0
    /\ Return(remaining)
    /\ UNCHANGED <<book, fills>>

Cancel(ref) ==
    /\ pc = "idle"
    /\ ref \in DOMAIN refMap
    /\ LET side == refMap[ref].side
           idx  == refMap[ref].index
           lvl  == levels[side][idx]
       IN  \E i \in 1..Len(lvl.orders) :
             LET qty  == lvl.orders[i].remainQty
                 rest == SubSeq(lvl.orders, 1, i - 1) \o SubSeq(lvl.orders, i + 1, Len(lvl.orders))
             IN  /\ lvl.orders[i].resting = ref
                 /\ levels' = [levels EXCEPT ![side][idx] =
                        [total_qty |-> @.total_qty - qty, orders |-> rest]]
                 /\ orders_count' = [orders_count EXCEPT ![side] = @ - 1]
                 /\ IF rest = <<>> THEN on_level_emptied(side, idx) ELSE UNCHANGED touch
                 /\ returned' = qty
    /\ refMap' = Erase(refMap, ref)
    /\ UNCHANGED <<locals, fills>>

CancelUnknown(ref) ==
    /\ pc = "idle"
    /\ ref \notin DOMAIN refMap
    /\ returned' = 0
    /\ UNCHANGED <<book, locals, fills>>
-----------------------------------------------------------------------------
Working ==
    EnterLevel \/ FillFront \/ LeaveLevel \/ SubmitFilled \/ SubmitRests \/ SubmitFallsThrough

Next ==
    \/ \E request \in OrderRequest : Submit(request) \/ SubmitRefused(request)
    \/ Working
    \/ \E ref \in Refs : Cancel(ref) \/ CancelUnknown(ref)

Spec == Init /\ [][Next]_vars

\* A submit that has begun is carried on: there is nothing to wait for.
FairSpec == Spec /\ WF_vars(Working)
-----------------------------------------------------------------------------
(***************************************************************************)
(* The read-only views                                                     *)
(***************************************************************************)
qty_at(side, p) == IF HasIndex(p) THEN levels[side][index(p)].total_qty ELSE 0
empty           == orders_count[Buy] = 0 /\ orders_count[Sell] = 0
-----------------------------------------------------------------------------
(***************************************************************************)
(* Properties                                                              *)
(***************************************************************************)
\* Every structure has its type when quantities are above 0; no resting order
\* has nothing left.
TypeOK ==
    /\ levels \in [BookSide -> [LevelIdx -> Level]]
    /\ TouchTypeOK
    /\ DOMAIN refMap \subseteq Refs /\ refMap \in [DOMAIN refMap -> ArrayLocator]
    /\ orders_count \in [BookSide -> Int]
    /\ pc \in {"idle", "match", "level"}
    /\ req \in OrderRequest \cup {None}
    /\ (pc = "idle") <=> (req = None)
    /\ remaining \in Nat
    /\ fills \in Seq(Fill)
    /\ returned \in Nat

\* The bitmap says which lists hold orders, except of the level the inner
\* loop has drained and not yet left.
BitmapAgrees ==
    \A side \in BookSide, i \in LevelIdx :
        \/ IsSet(occupied[side], i) <=> levels[side][i].orders # <<>>
        \/ pc = "level" /\ side = Opposite(req.side) /\ i = cur

\* Between calls there is a quantity behind the touch, empty() is the absence
\* of a touch, and the counters are the number of orders in the index.
TouchHasQuantity ==
    /\ pc = "idle" =>
         \A side \in BookSide :
           /\ \A p \in best(side) : qty_at(side, p) > 0
           /\ best(side) = {} <=> orders_count[side] = 0
    /\ \A side \in BookSide :
         orders_count[side] = Cardinality({r \in DOMAIN refMap : refMap[r].side = side})

\* The index and the lists say the same (see OrderBook).
IndexAgrees ==
    /\ \A r \in DOMAIN refMap :
         \E i \in DOMAIN levels[refMap[r].side][refMap[r].index].orders :
              levels[refMap[r].side][refMap[r].index].orders[i].resting = r
    /\ \A side \in BookSide, idx \in LevelIdx :
         \A i \in DOMAIN levels[side][idx].orders :
           LET r == levels[side][idx].orders[i].resting
           IN  /\ r \in DOMAIN refMap
               /\ refMap[r] = [side |-> side, index |-> idx]
               /\ \A j \in DOMAIN levels[side][idx].orders :
                      levels[side][idx].orders[j].resting = r => j = i

\* An order goes to work only at the price of a level, and whenever one may
\* come no level's price is refused, the first and the last included: index()
\* is right at both ends of the window and between (array_order_book.cpp:63-69).
TakesLevelPrices ==
    /\ pc # "idle" => \E i \in LevelIdx : req.limit_price = priceAt(i)
    /\ pc = "idle" => \A i \in LevelIdx : HasIndex(priceAt(i)) /\ index(priceAt(i)) = i

\* A submit returns: its loops always make headway.
SubmitReturns == pc # "idle" ~> pc = "idle"
=============================================================================
