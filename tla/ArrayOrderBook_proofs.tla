------------------------- MODULE ArrayOrderBook_proofs -------------------------
(***************************************************************************)
(* Theorems about ArrayOrderBook, for every window, word size, set of      *)
(* references, prices and sides, and quantities above 0: the bitmap        *)
(* follows the lists, the hint follows the bitmap, the index and the lists *)
(* agree, and the book is never crossed.                                   *)
(***************************************************************************)
EXTENDS ArrayOrderBookRefines, Window_proofs, FiniteSetTheorems

\* What callers owe the book; nothing in it checks that.
PositiveQtys == Qtys \subseteq Nat \ {0}

LevelsType == [BookSide -> [LevelIdx -> Level]]
WithLevel(L, side, i, lvl) == [L EXCEPT ![side][i] = lvl]
IndexMap(f) == DOMAIN f \subseteq Refs /\ f \in [DOMAIN f -> ArrayLocator]
-----------------------------------------------------------------------------
(***************************************************************************)
(* Lemmas about the operators of the model                                 *)
(***************************************************************************)
\* Assigning one level changes that level.
LEMMA SetLevel ==
    ASSUME NEW L \in LevelsType, NEW side \in BookSide, NEW i \in LevelIdx,
           NEW lvl \in Level
    PROVE  /\ WithLevel(L, side, i, lvl) \in LevelsType
           /\ WithLevel(L, side, i, lvl)[side][i] = lvl
           /\ \A other \in BookSide, j \in LevelIdx :
                other # side \/ j # i => WithLevel(L, side, i, lvl)[other][j] = L[other][j]
  BY DEF LevelsType, WithLevel

\* unordered_map erase keeps the type.
LEMMA EraseMap == ASSUME NEW f, IndexMap(f), NEW k PROVE IndexMap(Erase(f, k))
  BY DEF IndexMap, Erase

\* operator[] followed by an assignment keeps the type.
LEMMA PutMap ==
    ASSUME NEW f, IndexMap(f), NEW k \in Refs, NEW v \in ArrayLocator
    PROVE  IndexMap(Put(f, k, v))
  BY DEF IndexMap, Put

\* A level of the book has a list of resting orders and a total.
LEMMA LevelParts ==
    ASSUME NEW L \in LevelsType, NEW side \in BookSide, NEW i \in LevelIdx
    PROVE  /\ L[side][i] \in Level
           /\ L[side][i].orders \in Seq(RestingOrder)
           /\ L[side][i].total_qty \in Int
<1>1. L[side][i] \in Level
  BY DEF LevelsType
<1> QED BY <1>1 DEF Level

\* The front of a list, and what a trade with it leaves on both sides.
LEMMA FrontOrder ==
    ASSUME NEW orders \in Seq(RestingOrder), orders # <<>>, NEW qty \in Nat, qty > 0
    PROVE  LET front   == Head(orders)
               fillQty == Lesser(qty, front.remainQty)
           IN  /\ front.resting \in Refs
               /\ fillQty \in Nat \ {0}
               /\ qty - fillQty \in Nat
               /\ front.remainQty - fillQty \in Nat
               /\ Tail(orders) \in Seq(RestingOrder)
               /\ front.remainQty - fillQty > 0 =>
                    [orders EXCEPT ![1] = [front EXCEPT !.remainQty = @ - fillQty]]
                      \in Seq(RestingOrder)
<1> DEFINE front   == Head(orders)
           fillQty == Lesser(qty, front.remainQty)
           new     == [front EXCEPT !.remainQty = @ - fillQty]
<1>1. front \in RestingOrder /\ Tail(orders) \in Seq(RestingOrder) /\ 1 \in 1..Len(orders)
  BY HeadTailProperties
<1>2. front.remainQty \in Nat \ {0} /\ front.resting \in Refs
  BY <1>1 DEF RestingOrder
<1>3. /\ fillQty \in Nat \ {0} /\ qty - fillQty \in Nat
      /\ front.remainQty - fillQty \in Nat
  BY <1>2 DEF Lesser
<1>4. front.remainQty - fillQty > 0 => new \in RestingOrder
  BY <1>1, <1>3 DEF RestingOrder
<1>5. new \in RestingOrder => [orders EXCEPT ![1] = new] \in Seq(RestingOrder)
  <2> HIDE DEF new
  <2> QED BY <1>1, ExceptSeq
<1> QED BY <1>1, <1>2, <1>3, <1>4, <1>5
-----------------------------------------------------------------------------
(***************************************************************************)
(* The inductive invariant                                                 *)
(***************************************************************************)
\* A bit says whether its list holds orders.
Tracked(side, i) == IsSet(occupied[side], i) <=> levels[side][i].orders # <<>>

\* A request at work is for a price of the window; the inner loop works on a
\* level, the touch of the opposite side.
AtWork ==
    /\ pc # "idle" => HasIndex(req.limit_price)
    /\ pc = "level" => req.side \in BookSide /\ cur \in LevelIdx

\* Orders rest at prices that were asked for.
Priced == \A side \in BookSide, i \in LevelIdx :
              levels[side][i].orders # <<>> => priceAt(i) \in Prices

IInv == TypeOK /\ BitmapAgrees /\ TouchIsBest /\ NotCrossed /\ AtWork /\ Priced

\* Outside the inner loop every bit is right.
LEMMA AllTracked ==
    /\ BitmapAgrees /\ pc # "level" => \A side \in BookSide, i \in LevelIdx : Tracked(side, i)
    /\ (\A side \in BookSide, i \in LevelIdx : Tracked(side, i)') => BitmapAgrees'
  BY DEF BitmapAgrees, Tracked

\* The empty book satisfies it.
LEMMA InitInv == Init => IInv
<1> SUFFICES ASSUME Init PROVE IInv
  OBVIOUS
<1>1. kLevels \in Nat \ {0} /\ kNone \notin LevelIdx
  BY BitmapAssumption DEF kNone, LevelIdx
<1>2. NoBits \in BitmapType /\ \A i \in LevelIdx : ~IsSet(NoBits, i)
  BY WordAndBit DEF NoBits, BitmapType, IsSet
<1>3. /\ \A side \in BookSide : occupied[side] = NoBits /\ best_idx[side] = kNone
      /\ TouchTypeOK
  BY <1>2 DEF Init, TouchInit, TouchTypeOK
<1>4. \A side \in BookSide, i \in LevelIdx : levels[side][i].orders = <<>>
  BY DEF Init
<1>5. TypeOK
  <2>1. [total_qty |-> 0, orders |-> <<>>] \in Level
    BY EmptySeq DEF Level
  <2>2. levels \in [BookSide -> [LevelIdx -> Level]]
    BY <2>1 DEF Init
  <2>3. DOMAIN refMap \subseteq Refs /\ refMap \in [DOMAIN refMap -> ArrayLocator]
    BY DEF Init
  <2>4. fills \in Seq(Fill)
    BY EmptySeq DEF Init
  <2> QED BY <2>2, <2>3, <2>4, <1>3 DEF Init, TypeOK
<1>6. BitmapAgrees
  BY <1>2, <1>3, <1>4 DEF BitmapAgrees
<1>7. TouchIsBest
  BY <1>2, <1>3, TouchBySide DEF BestBit
<1>8. NotCrossed /\ AtWork /\ Priced
  BY <1>3, <1>4 DEF NotCrossed, AtWork, Priced, Init, BookSide
<1> QED BY <1>5, <1>6, <1>7, <1>8 DEF IInv
-----------------------------------------------------------------------------
(***************************************************************************)
(* One lemma per action                                                    *)
(***************************************************************************)
\* A step that leaves the book alone and is not in the inner loop before it.
LEMMA BookUntouched ==
    ASSUME IInv, UNCHANGED book, pc # "level"
    PROVE  /\ BitmapAgrees' /\ TouchIsBest' /\ NotCrossed' /\ Priced'
           /\ levels' \in [BookSide -> [LevelIdx -> Level]]
           /\ TouchTypeOK'
           /\ DOMAIN refMap' \subseteq Refs /\ refMap' \in [DOMAIN refMap' -> ArrayLocator]
           /\ orders_count' \in [BookSide -> Int]
<1>1. /\ levels' = levels /\ occupied' = occupied /\ best_idx' = best_idx
      /\ refMap' = refMap /\ orders_count' = orders_count
  BY DEF book
<1>2. BitmapAgrees'
  BY <1>1, AllTracked DEF IInv, Tracked
<1>3. TouchIsBest'
  BY <1>1, TouchBySide DEF IInv
<1>4. NotCrossed' /\ Priced' /\ TouchTypeOK'
  BY <1>1 DEF IInv, NotCrossed, Priced, TypeOK, TouchTypeOK
<1> QED BY <1>1, <1>2, <1>3, <1>4 DEF IInv, TypeOK

\* submit begins, for a price of the window.
LEMMA SubmitStep ==
    ASSUME PositiveQtys, IInv, NEW request \in OrderRequest, Submit(request)
    PROVE  IInv'
<1>1. UNCHANGED book /\ pc = "idle" /\ pc' = "match" /\ req' = request
      /\ remaining' = request.qty /\ fills' = <<>> /\ returned' = returned
      /\ HasIndex(request.limit_price)
  BY DEF Submit
<1>2. request.qty \in Nat /\ request # None
  BY NoneAssumption DEF OrderRequest, PositiveQtys
<1>3. TypeOK'
  BY <1>1, <1>2, BookUntouched, EmptySeq DEF TypeOK, IInv
<1> QED BY <1>1, <1>3, BookUntouched DEF IInv, AtWork

\* submit refuses a price that has no level.
LEMMA SubmitRefusedStep ==
    ASSUME IInv, NEW request \in OrderRequest, SubmitRefused(request)
    PROVE  IInv'
<1>1. UNCHANGED book /\ pc = "idle" /\ pc' = pc /\ req' = req
      /\ remaining' = remaining /\ fills' = <<>> /\ returned' = 0
  BY DEF SubmitRefused, locals
<1>2. TypeOK'
  BY <1>1, BookUntouched, EmptySeq DEF TypeOK, IInv
<1> QED BY <1>1, <1>2, BookUntouched DEF IInv, AtWork

\* The outer loop reaches the touch.
LEMMA EnterLevelStep == ASSUME IInv, EnterLevel PROVE IInv'
<1>1. UNCHANGED book /\ pc = "match" /\ pc' = "level" /\ req' = req
      /\ remaining' = remaining /\ fills' = fills /\ returned' = returned
      /\ req.side \in BookSide /\ cur # kNone
  BY DEF EnterLevel, Reaches
<1>2. TypeOK'
  BY <1>1, BookUntouched DEF TypeOK, IInv
<1>3. cur \in LevelIdx /\ cur' = cur
  <2>1. cur \in LevelIdx \cup {kNone}
    BY OppositeSide DEF cur, IInv, TypeOK, TouchTypeOK
  <2>2. cur' = cur
    BY <1>1 DEF cur, book
  <2> QED BY <2>1, <2>2, <1>1
<1>4. AtWork'
  BY <1>1, <1>3 DEF AtWork, IInv
<1> QED BY <1>1, <1>2, <1>4, BookUntouched DEF IInv

\* submit returns without touching the book: filled, or on a short side.
LEMMA ReturnStep ==
    ASSUME IInv, SubmitFilled \/ SubmitFallsThrough
    PROVE  IInv'
<1>1. UNCHANGED book /\ pc = "match" /\ pc' = "idle" /\ req' = None
      /\ remaining' = 0 /\ fills' = fills /\ returned' \in Nat
  BY DEF SubmitFilled, SubmitFallsThrough, Return, IInv, TypeOK
<1>2. TypeOK'
  BY <1>1, BookUntouched DEF TypeOK, IInv
<1> QED BY <1>1, <1>2, BookUntouched DEF IInv, AtWork

\* cancel finds nothing.
LEMMA CancelUnknownStep == ASSUME IInv, NEW ref, CancelUnknown(ref) PROVE IInv'
<1>1. UNCHANGED book /\ pc = "idle" /\ pc' = pc /\ req' = req
      /\ remaining' = remaining /\ fills' = fills /\ returned' = 0
  BY DEF CancelUnknown, locals
<1>2. TypeOK'
  BY <1>1, BookUntouched DEF TypeOK, IInv
<1> QED BY <1>1, <1>2, BookUntouched DEF IInv, AtWork

\* A trade changes the list of the touch, whose bit stays until LeaveLevel.
LEMMA FillFrontStep == ASSUME IInv, FillFront PROVE IInv'
<1> DEFINE side    == Opposite(req.side)
           lvl     == levels[side][cur]
           front   == Head(lvl.orders)
           fillQty == Lesser(remaining, front.remainQty)
           spent   == front.remainQty - fillQty <= 0
           orders  == IF spent THEN Tail(lvl.orders)
                      ELSE [lvl.orders EXCEPT ![1] = [front EXCEPT !.remainQty = @ - fillQty]]
           new     == [total_qty |-> lvl.total_qty - fillQty, orders |-> orders]
           fill    == [aggressor |-> req.ref, resting |-> front.resting,
                       price |-> priceAt(cur), qty |-> fillQty]
<1>1. /\ pc = "level" /\ remaining > 0 /\ lvl.orders # <<>>
      /\ pc' = pc /\ req' = req /\ returned' = returned
      /\ occupied' = occupied /\ best_idx' = best_idx
      /\ fills' = Append(fills, fill)
      /\ remaining' = remaining - fillQty
      /\ levels' = [levels EXCEPT ![side][cur] = new]
      /\ refMap' = IF spent THEN Erase(refMap, front.resting) ELSE refMap
      /\ orders_count' = IF spent THEN [orders_count EXCEPT ![side] = @ - 1] ELSE orders_count
  BY DEF FillFront, touch
<1>2. /\ req.side \in BookSide /\ side \in BookSide /\ cur \in LevelIdx /\ cur' = cur
      /\ req \in OrderRequest /\ req.ref \in Refs
  <2>1. req \in OrderRequest
    BY <1>1 DEF IInv, TypeOK
  <2>2. cur' = cur
    BY <1>1 DEF cur
  <2> QED BY <2>1, <2>2, <1>1, OppositeSide DEF IInv, AtWork, OrderRequest
<1>3. levels \in LevelsType /\ remaining \in Nat
  BY DEF IInv, TypeOK, LevelsType
<1> HIDE DEF side
<1>4. lvl.orders \in Seq(RestingOrder) /\ lvl.total_qty \in Int
  BY <1>2, <1>3, LevelParts
<1>5. /\ front.resting \in Refs /\ fillQty \in Nat \ {0}
      /\ remaining - fillQty \in Nat /\ orders \in Seq(RestingOrder)
  <2> HIDE DEF lvl
  <2>1. /\ front.resting \in Refs /\ fillQty \in Nat \ {0}
        /\ remaining - fillQty \in Nat /\ front.remainQty - fillQty \in Nat
        /\ Tail(lvl.orders) \in Seq(RestingOrder)
        /\ front.remainQty - fillQty > 0 =>
             [lvl.orders EXCEPT ![1] = [front EXCEPT !.remainQty = @ - fillQty]]
               \in Seq(RestingOrder)
    BY <1>1, <1>3, <1>4, FrontOrder
  <2>2. ~spent => front.remainQty - fillQty > 0
    <3> HIDE DEF front, fillQty
    <3> QED BY <2>1
  <2> QED BY <2>1, <2>2
<1>6. new \in Level
  <2> HIDE DEF lvl, fillQty, orders
  <2> QED BY <1>4, <1>5 DEF Level
<1> HIDE DEF new
<1>7. /\ levels' \in LevelsType
      /\ \A other \in BookSide, j \in LevelIdx :
           other # side \/ j # cur => levels'[other][j] = levels[other][j]
  <2>1. levels' = WithLevel(levels, side, cur, new)
    BY <1>1 DEF WithLevel
  <2> QED BY <2>1, <1>2, <1>3, <1>6, SetLevel
<1>8. IndexMap(refMap')
  <2>1. IndexMap(refMap)
    BY DEF IInv, TypeOK, IndexMap
  <2> HIDE DEF spent, front
  <2> QED BY <2>1, <1>1, EraseMap
<1>9. orders_count' \in [BookSide -> Int]
  <2> HIDE DEF spent
  <2> QED BY <1>1, <1>2 DEF IInv, TypeOK
<1>10. priceAt(cur) \in Prices
  BY <1>1, <1>2 DEF IInv, Priced
<1>11. fill \in Fill
  <2> HIDE DEF front, fillQty
  <2> QED BY <1>2, <1>5, <1>10 DEF Fill
<1> HIDE DEF fill, orders, fillQty, front, lvl, spent
<1>12. fills' \in Seq(Fill)
  BY <1>1, <1>11, AppendProperties DEF IInv, TypeOK
<1>13. TypeOK'
  BY <1>1, <1>5, <1>7, <1>8, <1>9, <1>12
     DEF IInv, TypeOK, TouchTypeOK, IndexMap, LevelsType
<1>14. BitmapAgrees'
  <2> SUFFICES ASSUME NEW other \in BookSide, NEW j \in LevelIdx,
                      ~(other = side /\ j = cur)
               PROVE  IsSet(occupied'[other], j) <=> levels'[other][j].orders # <<>>
    BY <1>1, <1>2 DEF BitmapAgrees, side
  <2>1. ~(pc = "level" /\ other = Opposite(req.side) /\ j = cur)
    BY DEF side
  <2> QED BY <2>1, <1>1, <1>7 DEF IInv, BitmapAgrees
<1>15. TouchIsBest'
  BY <1>1, TouchBySide DEF IInv
<1>16. NotCrossed' /\ AtWork'
  BY <1>1, <1>2 DEF IInv, NotCrossed, AtWork
<1>17. Priced'
  <2> SUFFICES ASSUME NEW other \in BookSide, NEW j \in LevelIdx,
                      levels'[other][j].orders # <<>>
               PROVE  priceAt(j) \in Prices
    BY DEF Priced
  <2>1. CASE other = side /\ j = cur
    BY <2>1, <1>10
  <2>2. CASE ~(other = side /\ j = cur)
    BY <2>2, <1>7 DEF IInv, Priced
  <2> QED BY <2>1, <2>2
<1> QED BY <1>13, <1>14, <1>15, <1>16, <1>17 DEF IInv

\* The inner loop ends: the bit of the level follows its list again.
LEMMA LeaveLevelStep == ASSUME IInv, LeaveLevel PROVE IInv'
<1> DEFINE side    == Opposite(req.side)
           drained == levels[side][cur].orders = <<>>
<1>1. /\ pc = "level" /\ pc' = "match"
      /\ drained => on_level_emptied(side, cur)
      /\ ~drained => occupied' = occupied /\ best_idx' = best_idx
      /\ levels' = levels /\ refMap' = refMap /\ orders_count' = orders_count
      /\ req' = req /\ remaining' = remaining /\ fills' = fills /\ returned' = returned
  BY DEF LeaveLevel, touch
<1>2. side \in BookSide /\ cur \in LevelIdx /\ TouchTypeOK /\ TouchIsBest /\ NotCrossed
  BY <1>1, OppositeSide DEF IInv, AtWork, TypeOK
<1>3. cur = best_idx[side]
  BY DEF cur
<1>4. \A other \in BookSide, i \in LevelIdx :
         Tracked(other, i) \/ (other = side /\ i = cur)
  BY DEF IInv, BitmapAgrees, Tracked
<1> HIDE DEF side
<1>5. CASE drained
  <2>1. on_level_emptied(side, cur)
    BY <1>1, <1>5
  <2>2. /\ TouchTypeOK' /\ TouchIsBest' /\ NotCrossed'
        /\ \A other \in BookSide, j \in LevelIdx :
             IsSet(occupied'[other], j) <=>
                 ~(other = side /\ j = cur) /\ IsSet(occupied[other], j)
    BY <2>1, <1>2, LevelEmptied, EmptiedNotCrossed
  <2>3. \A other \in BookSide, j \in LevelIdx : Tracked(other, j)'
    BY <2>2, <1>1, <1>4, <1>5 DEF Tracked
  <2>4. BitmapAgrees'
    BY <2>3, AllTracked
  <2>5. TypeOK' /\ AtWork' /\ Priced'
    BY <2>2, <1>1 DEF IInv, TypeOK, AtWork, Priced
  <2> QED BY <2>2, <2>4, <2>5 DEF IInv
<1>6. CASE ~drained
  <2>1. occupied' = occupied /\ best_idx' = best_idx
    BY <1>1, <1>6
  <2>2. TouchTypeOK' /\ TouchIsBest' /\ NotCrossed'
    BY <2>1, <1>2, TouchBySide DEF TouchTypeOK, NotCrossed
  <2>3. IsSet(occupied[side], cur)
    <3>1. BestBit(side, occupied[side], cur)
      BY <1>2, <1>3, TouchBySide
    <3>2. cur # kNone
      BY <1>2, BitmapAssumption DEF kNone, LevelIdx
    <3> QED BY <3>1, <3>2 DEF BestBit
  <2>4. \A other \in BookSide, j \in LevelIdx : Tracked(other, j)'
    BY <2>1, <2>3, <1>1, <1>4, <1>6 DEF Tracked
  <2>5. BitmapAgrees'
    BY <2>4, AllTracked
  <2>6. TypeOK' /\ AtWork' /\ Priced'
    BY <2>2, <1>1 DEF IInv, TypeOK, AtWork, Priced
  <2> QED BY <2>2, <2>5, <2>6 DEF IInv
<1> QED BY <1>5, <1>6

\* What is left of an order rests at its own level: there is no touch on the
\* other side within its limit, so the book stays uncrossed.
LEMMA SubmitRestsStep == ASSUME IInv, SubmitRests PROVE IInv'
<1> DEFINE side == req.side
           i    == index(req.limit_price)
           node == [resting |-> req.ref, remainQty |-> remaining]
           new  == [total_qty |-> levels[side][i].total_qty + remaining,
                    orders |-> Append(levels[side][i].orders, node)]
           loc  == [side |-> side, index |-> i]
<1>1. /\ pc = "match" /\ side \in BookSide /\ remaining # 0
      /\ remaining < 0 \/ ~Reaches(cur)
      /\ levels' = WithLevel(levels, side, i, new)
      /\ refMap' = Put(refMap, req.ref, loc)
      /\ on_level_occupied(side, i)
      /\ orders_count' = [orders_count EXCEPT ![side] = @ + 1]
      /\ pc' = "idle" /\ req' = None /\ remaining' = 0 /\ returned' = remaining /\ fills' = fills
  BY DEF SubmitRests, Return, WithLevel, IInv, TypeOK
<1>2. /\ req \in OrderRequest /\ req.ref \in Refs /\ req.limit_price \in Prices
      /\ HasIndex(req.limit_price) /\ remaining \in Nat \ {0}
      /\ TouchTypeOK /\ TouchIsBest /\ NotCrossed
  <2>1. req \in OrderRequest
    BY <1>1 DEF IInv, TypeOK
  <2> QED BY <2>1, <1>1 DEF IInv, TypeOK, AtWork, OrderRequest
<1>3. i \in LevelIdx /\ priceAt(i) \in Prices
  BY <1>2, LevelOfPrice
<1> HIDE DEF i
<1>4. levels \in LevelsType
  BY DEF IInv, TypeOK, LevelsType
<1>5. levels[side][i].orders \in Seq(RestingOrder) /\ levels[side][i].total_qty \in Int
  BY <1>1, <1>3, <1>4, LevelParts
<1>6. node \in RestingOrder
  BY <1>2 DEF RestingOrder
<1>7. new \in Level /\ new.orders # <<>>
  <2> HIDE DEF node, side
  <2>1. /\ Append(levels[side][i].orders, node) \in Seq(RestingOrder)
        /\ Append(levels[side][i].orders, node) # <<>>
    BY <1>5, <1>6, AppendProperties
  <2> QED BY <2>1, <1>2, <1>5 DEF Level
<1>8. loc \in ArrayLocator
  BY <1>1, <1>3 DEF ArrayLocator
<1> HIDE DEF new, loc, node, side
<1>9. /\ levels' \in LevelsType
      /\ levels'[side][i] = new
      /\ \A other \in BookSide, j \in LevelIdx :
           other # side \/ j # i => levels'[other][j] = levels[other][j]
  BY <1>1, <1>3, <1>4, <1>7, SetLevel
<1>10. /\ TouchTypeOK' /\ TouchIsBest'
       /\ \A other \in BookSide, j \in LevelIdx :
            IsSet(occupied'[other], j) <=> (other = side /\ j = i) \/ IsSet(occupied[other], j)
       /\ best_idx'[side] = i \/ best_idx'[side] = best_idx[side]
       /\ \A other \in BookSide : other # side => best_idx'[other] = best_idx[other]
  BY <1>1, <1>2, <1>3, LevelOccupied
<1>11. IndexMap(refMap')
  BY <1>1, <1>2, <1>8, PutMap DEF IInv, TypeOK, IndexMap
<1>12. orders_count' \in [BookSide -> Int]
  BY <1>1 DEF IInv, TypeOK
<1>13. TypeOK'
  BY <1>1, <1>2, <1>9, <1>10, <1>11, <1>12 DEF IInv, TypeOK, IndexMap, LevelsType
<1>14. BitmapAgrees'
  <2>1. ASSUME NEW other \in BookSide, NEW j \in LevelIdx
        PROVE  IsSet(occupied'[other], j) <=> levels'[other][j].orders # <<>>
    <3>1. IsSet(occupied[other], j) <=> levels[other][j].orders # <<>>
      BY <1>1 DEF IInv, BitmapAgrees
    <3>2. CASE other = side /\ j = i
      BY <3>2, <1>7, <1>9, <1>10
    <3>3. CASE ~(other = side /\ j = i)
      BY <3>1, <3>3, <1>9, <1>10
    <3> QED BY <3>2, <3>3
  <2> QED BY <2>1 DEF BitmapAgrees
<1>15. NotCrossed'
  <2>1. /\ kNone \notin LevelIdx /\ \A x \in LevelIdx : x \in Int
        /\ best_idx[Buy] \in LevelIdx \cup {kNone} /\ best_idx[Sell] \in LevelIdx \cup {kNone}
    BY <1>2, BitmapAssumption DEF kNone, LevelIdx, TouchTypeOK, BookSide
  <2>2. cur = kNone \/ ~Crosses(side, i, cur)
    BY <1>1, <1>2 DEF Reaches, side, i
  <2>3. CASE side = Buy
    <3>1. best_idx[Sell] = kNone \/ ~(best_idx[Sell] <= i)
      BY <2>2, <2>3 DEF cur, Crosses, Opposite, side
    <3>2. best_idx'[Sell] = best_idx[Sell]
      BY <2>3, <1>10 DEF BookSide, Buy, Sell
    <3> QED BY <3>1, <3>2, <2>1, <2>3, <1>2, <1>3, <1>10 DEF NotCrossed
  <2>4. CASE side = Sell
    <3>1. best_idx[Buy] = kNone \/ ~(best_idx[Buy] >= i)
      BY <2>2, <2>4 DEF cur, Crosses, Opposite, side, Buy, Sell
    <3>2. best_idx'[Buy] = best_idx[Buy]
      BY <2>4, <1>10 DEF BookSide, Buy, Sell
    <3> QED BY <3>1, <3>2, <2>1, <2>4, <1>2, <1>3, <1>10 DEF NotCrossed
  <2> QED BY <2>3, <2>4, <1>1 DEF BookSide
<1>16. AtWork'
  BY <1>1 DEF AtWork
<1>17. Priced'
  <2> SUFFICES ASSUME NEW other \in BookSide, NEW j \in LevelIdx,
                      levels'[other][j].orders # <<>>
               PROVE  priceAt(j) \in Prices
    BY DEF Priced
  <2>1. CASE j = i
    BY <2>1, <1>3
  <2>2. CASE j # i
    BY <2>2, <1>9 DEF IInv, Priced
  <2> QED BY <2>1, <2>2
<1> QED BY <1>10, <1>13, <1>14, <1>15, <1>16, <1>17 DEF IInv

\* cancel takes a node out; a list left empty loses its bit.
LEMMA CancelStep == ASSUME IInv, NEW ref, Cancel(ref) PROVE IInv'
<1> DEFINE side == refMap[ref].side
           idx  == refMap[ref].index
           lvl  == levels[side][idx]
           rest(k) == SubSeq(lvl.orders, 1, k - 1) \o SubSeq(lvl.orders, k + 1, Len(lvl.orders))
           new(k)  == [total_qty |-> lvl.total_qty - lvl.orders[k].remainQty, orders |-> rest(k)]
<1>1. pc = "idle" /\ ref \in DOMAIN refMap /\ refMap' = Erase(refMap, ref)
      /\ pc' = pc /\ req' = req /\ remaining' = remaining /\ fills' = fills
  BY DEF Cancel, locals
<1>2. PICK k \in 1..Len(lvl.orders) :
         /\ levels' = WithLevel(levels, side, idx, new(k))
         /\ orders_count' = [orders_count EXCEPT ![side] = @ - 1]
         /\ rest(k) = <<>> => on_level_emptied(side, idx)
         /\ rest(k) # <<>> => occupied' = occupied /\ best_idx' = best_idx
         /\ returned' = lvl.orders[k].remainQty
  BY DEF Cancel, WithLevel, touch
<1>3. side \in BookSide /\ idx \in LevelIdx
  <2>1. refMap[ref] \in ArrayLocator
    BY <1>1 DEF IInv, TypeOK
  <2> QED BY <2>1 DEF ArrayLocator
<1> DEFINE r == rest(k)
           n == new(k)
<1> HIDE DEF side, idx
<1>4. levels \in LevelsType /\ TouchTypeOK /\ TouchIsBest /\ NotCrossed
  BY DEF IInv, TypeOK, LevelsType
<1>5. lvl.orders \in Seq(RestingOrder) /\ lvl.total_qty \in Int
  BY <1>3, <1>4, LevelParts
<1>6. r \in Seq(RestingOrder) /\ lvl.orders[k].remainQty \in Nat
  <2> HIDE DEF lvl
  <2>1. lvl.orders[k] \in RestingOrder
    BY <1>5, ElementOfSeq
  <2> QED BY <2>1, <1>5, NodeOut DEF RestingOrder
<1>7. n \in Level /\ n.orders = r
  <2> HIDE DEF r, lvl
  <2> DEFINE qty == lvl.orders[k].remainQty
  <2>1. n = [total_qty |-> lvl.total_qty - qty, orders |-> r]
    BY DEF r, lvl
  <2>2. qty \in Nat
    BY <1>6
  <2> HIDE DEF n, qty
  <2> QED BY <2>1, <2>2, <1>5, <1>6 DEF Level
<1>8. lvl.orders # <<>>
  <2> HIDE DEF lvl
  <2> QED BY <1>5, EmptySeq
<1>9. /\ levels' = WithLevel(levels, side, idx, n)
      /\ r = <<>> => on_level_emptied(side, idx)
      /\ r # <<>> => occupied' = occupied /\ best_idx' = best_idx
      /\ orders_count' = [orders_count EXCEPT ![side] = @ - 1]
      /\ returned' = lvl.orders[k].remainQty
  BY <1>2
<1> HIDE DEF r, n, lvl
<1>10. /\ levels' \in LevelsType
       /\ levels'[side][idx].orders = r
       /\ \A other \in BookSide, j \in LevelIdx :
            other # side \/ j # idx => levels'[other][j] = levels[other][j]
  BY <1>3, <1>4, <1>7, <1>9, SetLevel
<1>11. \A other \in BookSide, j \in LevelIdx :
          IsSet(occupied[other], j) <=> levels[other][j].orders # <<>>
  BY <1>1 DEF IInv, BitmapAgrees
<1>12. /\ TouchTypeOK' /\ TouchIsBest' /\ NotCrossed'
       /\ \A other \in BookSide, j \in LevelIdx :
            IsSet(occupied'[other], j) <=> levels'[other][j].orders # <<>>
  <2>1. CASE r = <<>>
    <3>1. /\ TouchTypeOK' /\ TouchIsBest' /\ NotCrossed'
          /\ \A other \in BookSide, j \in LevelIdx :
               IsSet(occupied'[other], j) <=>
                   ~(other = side /\ j = idx) /\ IsSet(occupied[other], j)
      BY <2>1, <1>3, <1>4, <1>9, LevelEmptied, EmptiedNotCrossed
    <3> QED BY <3>1, <2>1, <1>10, <1>11
  <2>2. CASE r # <<>>
    <3>1. occupied' = occupied /\ best_idx' = best_idx
      BY <2>2, <1>9
    <3>2. TouchTypeOK' /\ TouchIsBest' /\ NotCrossed'
      BY <3>1, <1>4, TouchBySide DEF TouchTypeOK, NotCrossed
    <3> QED BY <3>1, <3>2, <2>2, <1>3, <1>8, <1>10, <1>11 DEF lvl
  <2> QED BY <2>1, <2>2
<1>13. BitmapAgrees'
  BY <1>12 DEF BitmapAgrees
<1>14. IndexMap(refMap')
  BY <1>1, EraseMap DEF IInv, TypeOK, IndexMap
<1>15. orders_count' \in [BookSide -> Int] /\ returned' \in Nat
  BY <1>3, <1>6, <1>9 DEF IInv, TypeOK
<1>16. TypeOK'
  BY <1>1, <1>10, <1>12, <1>14, <1>15 DEF IInv, TypeOK, IndexMap, LevelsType
<1>17. AtWork'
  BY <1>1 DEF AtWork
<1>18. Priced'
  <2> SUFFICES ASSUME NEW other \in BookSide, NEW j \in LevelIdx,
                      levels'[other][j].orders # <<>>
               PROVE  priceAt(j) \in Prices
    BY DEF Priced
  <2>1. levels[other][j].orders # <<>>
    BY <1>8, <1>10 DEF lvl
  <2> QED BY <2>1 DEF IInv, Priced
<1> QED BY <1>12, <1>13, <1>16, <1>17, <1>18 DEF IInv
-----------------------------------------------------------------------------
(***************************************************************************)
(* The index                                                               *)
(***************************************************************************)
\* The n-th node of a list is of ref r.
At(L, side, i, n, r) ==
    n \in 1..Len(L[side][i].orders) /\ L[side][i].orders[n].resting = r

\* The index and the lists say the same, and no ref has two nodes: without that
\* the node that leaves with its ref could leave another behind.
IndexOK(L, locs) ==
    /\ \A r \in DOMAIN locs : \E n : At(L, locs[r].side, locs[r].index, n, r)
    /\ \A side \in BookSide, i \in LevelIdx : \A n, r :
         At(L, side, i, n, r) =>
             r \in DOMAIN locs /\ locs[r].side = side /\ locs[r].index = i
    /\ \A side \in BookSide, i \in LevelIdx : \A n, m, r :
         At(L, side, i, n, r) /\ At(L, side, i, m, r) => n = m

\* The order being worked is not in the index yet.
NewRef == pc # "idle" => req.ref \notin DOMAIN refMap

Indexed == NewRef /\ IndexOK(levels, refMap)

\* It is what IndexAgrees says, and more.
LEMMA IndexedAgrees == IInv /\ Indexed => IndexAgrees
<1> SUFFICES ASSUME IInv, Indexed PROVE IndexAgrees
  OBVIOUS
<1>1. IndexOK(levels, refMap) /\ levels \in LevelsType
  BY DEF Indexed, IInv, TypeOK, LevelsType
<1>2. \A r \in DOMAIN refMap : refMap[r] \in ArrayLocator
  BY DEF IInv, TypeOK
<1>3. \A side \in BookSide, i \in LevelIdx :
        DOMAIN levels[side][i].orders = 1..Len(levels[side][i].orders)
  BY <1>1, LevelParts, LenProperties
<1>4. ASSUME NEW r \in DOMAIN refMap
      PROVE  \E n \in DOMAIN levels[refMap[r].side][refMap[r].index].orders :
               levels[refMap[r].side][refMap[r].index].orders[n].resting = r
  <2>1. refMap[r].side \in BookSide /\ refMap[r].index \in LevelIdx
    BY <1>2 DEF ArrayLocator
  <2>2. PICK n : At(levels, refMap[r].side, refMap[r].index, n, r)
    BY <1>1 DEF IndexOK
  <2> QED BY <2>1, <2>2, <1>3 DEF At
<1>5. ASSUME NEW side \in BookSide, NEW i \in LevelIdx,
             NEW n \in DOMAIN levels[side][i].orders
      PROVE  /\ levels[side][i].orders[n].resting \in DOMAIN refMap
             /\ refMap[levels[side][i].orders[n].resting] = [side |-> side, index |-> i]
  <2> DEFINE r == levels[side][i].orders[n].resting
  <2>1. At(levels, side, i, n, r)
    BY <1>3 DEF At
  <2> HIDE DEF r
  <2>2. r \in DOMAIN refMap /\ refMap[r].side = side /\ refMap[r].index = i
    BY <2>1, <1>1 DEF IndexOK
  <2>3. refMap[r] = [side |-> side, index |-> i]
    BY <2>2, <1>2 DEF ArrayLocator
  <2> QED BY <2>2, <2>3 DEF r
<1>6. ASSUME NEW side \in BookSide, NEW i \in LevelIdx,
             NEW n \in DOMAIN levels[side][i].orders, NEW m \in DOMAIN levels[side][i].orders,
             levels[side][i].orders[m].resting = levels[side][i].orders[n].resting
      PROVE  m = n
  <2> DEFINE r == levels[side][i].orders[n].resting
  <2>1. At(levels, side, i, n, r) /\ At(levels, side, i, m, r)
    BY <1>3, <1>6 DEF At
  <2> HIDE DEF r
  <2> QED BY <2>1, <1>1 DEF IndexOK
<1> QED BY <1>4, <1>5, <1>6 DEF IndexAgrees

\* t is s with its k-th node taken out.
ListLess(s, t, k) ==
    /\ Len(t) = Len(s) - 1
    /\ \A n \in 1..(Len(s) - 1) : t[n].resting = IF n < k THEN s[n].resting ELSE s[n + 1].resting

\* A node that leaves with its ref leaves the two in step: pop_front in
\* submit, erase in cancel.
LEMMA NodeGone ==
    ASSUME NEW L, NEW locs, IndexMap(locs), IndexOK(L, locs), NEW M,
           NEW side \in BookSide, NEW i \in LevelIdx, Len(L[side][i].orders) \in Nat,
           NEW k \in 1..Len(L[side][i].orders),
           \A other \in BookSide, j \in LevelIdx :
             other # side \/ j # i => M[other][j] = L[other][j],
           ListLess(L[side][i].orders, M[side][i].orders, k)
    PROVE  IndexOK(M, Erase(locs, L[side][i].orders[k].resting))
<1> DEFINE s   == L[side][i].orders
           r0  == s[k].resting
           new == Erase(locs, r0)
<1>1. /\ DOMAIN new = DOMAIN locs \ {r0}
      /\ \A r \in DOMAIN new : new[r] = locs[r]
  BY DEF Erase
<1>2. At(L, side, i, k, r0)
  BY DEF At
<1>3. \A r \in DOMAIN locs : locs[r].side \in BookSide /\ locs[r].index \in LevelIdx
  BY DEF IndexMap, ArrayLocator
\* Elsewhere nothing has changed.
<1>4. ASSUME NEW sd \in BookSide, NEW j \in LevelIdx, sd # side \/ j # i, NEW n, NEW r
      PROVE  At(M, sd, j, n, r) <=> At(L, sd, j, n, r)
  BY <1>4 DEF At
\* At i a node sits where it was or one place nearer the front.
<1>5. ASSUME NEW n, NEW r, At(M, side, i, n, r)
      PROVE  At(L, side, i, IF n < k THEN n ELSE n + 1, r) /\ n \in 1..(Len(s) - 1)
  <2>1. n \in 1..(Len(s) - 1) /\ M[side][i].orders[n].resting = r
    BY <1>5 DEF At, ListLess
  <2>2. (IF n < k THEN n ELSE n + 1) \in 1..Len(s)
    BY <2>1
  <2> QED BY <2>1, <2>2 DEF At, ListLess
<1>6. ASSUME NEW n, NEW r, At(L, side, i, n, r), n # k
      PROVE  At(M, side, i, IF n < k THEN n ELSE n - 1, r)
  <2> DEFINE m == IF n < k THEN n ELSE n - 1
  <2>1. n \in 1..Len(s) /\ s[n].resting = r
    BY <1>6 DEF At
  <2>2. m \in 1..(Len(s) - 1) /\ (IF m < k THEN m ELSE m + 1) = n
    BY <2>1, <1>6
  <2> HIDE DEF m
  <2>3. M[side][i].orders[m].resting = IF m < k THEN s[m].resting ELSE s[m + 1].resting
    BY <2>2 DEF ListLess
  <2>4. M[side][i].orders[m].resting = r /\ m \in 1..Len(M[side][i].orders)
    BY <2>1, <2>2, <2>3 DEF ListLess
  <2>5. At(M, side, i, m, r)
    BY <2>4 DEF At
  <2> QED BY <2>5 DEF m
<1>7. ASSUME NEW r \in DOMAIN new PROVE \E n : At(M, new[r].side, new[r].index, n, r)
  <2>1. r \in DOMAIN locs /\ r # r0 /\ new[r] = locs[r]
    BY <1>1
  <2>2. PICK n : At(L, locs[r].side, locs[r].index, n, r)
    BY <2>1 DEF IndexOK
  <2>3. CASE locs[r].side = side /\ locs[r].index = i
    <3>1. n # k
      BY <2>1, <2>2, <2>3, <1>2 DEF At
    <3>2. At(M, side, i, IF n < k THEN n ELSE n - 1, r)
      BY <3>1, <2>2, <2>3, <1>6
    <3> QED BY <3>2, <2>1, <2>3
  <2>4. CASE ~(locs[r].side = side /\ locs[r].index = i)
    BY <2>1, <2>2, <2>4, <1>3, <1>4
  <2> QED BY <2>3, <2>4
<1>8. ASSUME NEW sd \in BookSide, NEW j \in LevelIdx, NEW n, NEW r, At(M, sd, j, n, r)
      PROVE  r \in DOMAIN new /\ new[r].side = sd /\ new[r].index = j
  <2>1. r \in DOMAIN locs /\ locs[r].side = sd /\ locs[r].index = j /\ r # r0
    <3>1. CASE sd = side /\ j = i
      <4>1. At(L, side, i, IF n < k THEN n ELSE n + 1, r) /\ n \in 1..(Len(s) - 1)
        BY <3>1, <1>5, <1>8
      <4>2. (IF n < k THEN n ELSE n + 1) # k
        BY <4>1
      <4>3. r # r0
        BY <4>1, <4>2, <1>2 DEF IndexOK
      <4> QED BY <3>1, <4>1, <4>3 DEF IndexOK
    <3>2. CASE sd # side \/ j # i
      <4>1. At(L, sd, j, n, r)
        BY <3>2, <1>4, <1>8
      <4>2. r \in DOMAIN locs /\ locs[r].side = sd /\ locs[r].index = j
        BY <4>1 DEF IndexOK
      <4>3. locs[r0].side = side /\ locs[r0].index = i
        BY <1>2 DEF IndexOK
      <4> QED BY <3>2, <4>2, <4>3
    <3> QED BY <3>1, <3>2
  <2> QED BY <2>1, <1>1
<1>9. ASSUME NEW sd \in BookSide, NEW j \in LevelIdx, NEW n, NEW m, NEW r,
             At(M, sd, j, n, r), At(M, sd, j, m, r)
      PROVE  n = m
  <2>1. CASE sd = side /\ j = i
    <3>1. /\ At(L, side, i, IF n < k THEN n ELSE n + 1, r)
          /\ At(L, side, i, IF m < k THEN m ELSE m + 1, r)
          /\ n \in 1..(Len(s) - 1) /\ m \in 1..(Len(s) - 1)
      BY <2>1, <1>5, <1>9
    <3>2. (IF n < k THEN n ELSE n + 1) = (IF m < k THEN m ELSE m + 1)
      BY <3>1 DEF IndexOK
    <3> QED BY <3>1, <3>2
  <2>2. CASE sd # side \/ j # i
    <3>1. At(L, sd, j, n, r) /\ At(L, sd, j, m, r)
      BY <2>2, <1>4, <1>9
    <3> QED BY <3>1 DEF IndexOK
  <2> QED BY <2>1, <2>2
<1> HIDE DEF new
<1>10. IndexOK(M, new)
  BY <1>7, <1>8, <1>9 DEF IndexOK
<1> QED BY <1>10 DEF new

\* The same refs in the same places: a partial fill.
LEMMA NodesKept ==
    ASSUME NEW L, NEW locs, IndexMap(locs), IndexOK(L, locs), NEW M,
           \A side \in BookSide, i \in LevelIdx : \A n, r :
             At(M, side, i, n, r) <=> At(L, side, i, n, r)
    PROVE  IndexOK(M, locs)
<1>1. \A r \in DOMAIN locs : locs[r].side \in BookSide /\ locs[r].index \in LevelIdx
  BY DEF IndexMap, ArrayLocator
<1> QED BY <1>1 DEF IndexOK

\* M is L with one node put in: what SubmitRests does.
NodePutIn(L, M, side, i, k, r0) ==
    \A sd \in BookSide, j \in LevelIdx : \A n, r :
        At(M, sd, j, n, r) <=>
            At(L, sd, j, n, r) \/ (sd = side /\ j = i /\ n = k /\ r = r0)

\* One node more, for a ref the index did not have: the rest of an order.
LEMMA NodeAdded ==
    ASSUME NEW L, NEW locs, IndexMap(locs), IndexOK(L, locs), NEW M,
           NEW side \in BookSide, NEW i \in LevelIdx, NEW k, NEW r0, r0 \notin DOMAIN locs,
           NEW loc, loc.side = side, loc.index = i, NodePutIn(L, M, side, i, k, r0)
    PROVE  IndexOK(M, Put(locs, r0, loc))
<1> DEFINE new == Put(locs, r0, loc)
<1>0. \A sd \in BookSide, j \in LevelIdx : \A n, r :
        At(M, sd, j, n, r) <=>
            At(L, sd, j, n, r) \/ (sd = side /\ j = i /\ n = k /\ r = r0)
  BY DEF NodePutIn
<1>1. /\ DOMAIN new = DOMAIN locs \cup {r0} /\ new[r0] = loc
      /\ \A r \in DOMAIN locs : new[r] = locs[r]
  BY DEF Put
<1>2. \A r \in DOMAIN locs : locs[r].side \in BookSide /\ locs[r].index \in LevelIdx
  BY DEF IndexMap, ArrayLocator
<1> HIDE DEF new
<1>3. ASSUME NEW r \in DOMAIN new PROVE \E n : At(M, new[r].side, new[r].index, n, r)
  <2>1. CASE r = r0
    BY <2>1, <1>0, <1>1
  <2>2. CASE r # r0
    <3>1. r \in DOMAIN locs /\ new[r] = locs[r]
      BY <2>2, <1>1
    <3>2. PICK n : At(L, locs[r].side, locs[r].index, n, r)
      BY <3>1 DEF IndexOK
    <3> QED BY <3>1, <3>2, <1>0, <1>2
  <2> QED BY <2>1, <2>2
<1>4. ASSUME NEW sd \in BookSide, NEW j \in LevelIdx, NEW n, NEW r, At(M, sd, j, n, r)
      PROVE  r \in DOMAIN new /\ new[r].side = sd /\ new[r].index = j
  <2>1. CASE At(L, sd, j, n, r)
    BY <2>1, <1>1 DEF IndexOK
  <2>2. CASE sd = side /\ j = i /\ n = k /\ r = r0
    BY <2>2, <1>1
  <2> QED BY <2>1, <2>2, <1>0, <1>4
<1>5. ASSUME NEW sd \in BookSide, NEW j \in LevelIdx, NEW n, NEW m, NEW r,
             At(M, sd, j, n, r), At(M, sd, j, m, r)
      PROVE  n = m
  <2>1. CASE r = r0
    <3>1. ~At(L, sd, j, n, r) /\ ~At(L, sd, j, m, r)
      BY <2>1 DEF IndexOK
    <3> QED BY <3>1, <1>0, <1>5
  <2>2. CASE r # r0
    <3>1. At(L, sd, j, n, r) /\ At(L, sd, j, m, r)
      BY <2>2, <1>0, <1>5
    <3> QED BY <3>1 DEF IndexOK
  <2> QED BY <2>1, <2>2
<1>6. IndexOK(M, new)
  BY <1>3, <1>4, <1>5 DEF IndexOK
<1> QED BY <1>6 DEF new

\* submit takes the front node and its ref out together, or leaves both.
LEMMA FillFrontIndexed == ASSUME IInv, Indexed, FillFront PROVE Indexed'
<1> DEFINE side    == Opposite(req.side)
           lvl     == levels[side][cur]
           s       == lvl.orders
           front   == Head(s)
           fillQty == Lesser(remaining, front.remainQty)
           spent   == front.remainQty - fillQty <= 0
           kept    == [front EXCEPT !.remainQty = @ - fillQty]
           orders  == IF spent THEN Tail(s) ELSE [s EXCEPT ![1] = kept]
           new     == [total_qty |-> lvl.total_qty - fillQty, orders |-> orders]
<1>1. /\ pc = "level" /\ remaining > 0 /\ s # <<>> /\ pc' = pc /\ req' = req
      /\ levels' = [levels EXCEPT ![side][cur] = new]
      /\ refMap' = IF spent THEN Erase(refMap, front.resting) ELSE refMap
  BY DEF FillFront
<1>2. side \in BookSide /\ cur \in LevelIdx
  BY <1>1, OppositeSide DEF IInv, AtWork
<1>3. /\ levels \in LevelsType /\ IndexMap(refMap) /\ IndexOK(levels, refMap)
      /\ req.ref \notin DOMAIN refMap
  BY <1>1 DEF IInv, TypeOK, LevelsType, IndexMap, Indexed, NewRef
<1>4. NewRef'
  BY <1>1, <1>3 DEF NewRef, Erase
<1> HIDE DEF side
<1>5. s \in Seq(RestingOrder)
  BY <1>2, <1>3, LevelParts
<1>6. /\ front = s[1] /\ 1 \in 1..Len(s) /\ Len(s) \in Nat
      /\ Len(Tail(s)) = Len(s) - 1 /\ \A n \in 1..(Len(s) - 1) : Tail(s)[n] = s[n + 1]
  <2> HIDE DEF s
  <2> QED BY <1>1, <1>5, HeadTailProperties, LenProperties
<1>7. /\ levels'[side][cur].orders = orders
      /\ \A other \in BookSide, j \in LevelIdx :
           other # side \/ j # cur => levels'[other][j] = levels[other][j]
  <2>1. new.orders = orders
    OBVIOUS
  <2> HIDE DEF new, orders
  <2> QED BY <2>1, <1>1, <1>2, <1>3 DEF LevelsType
<1> DEFINE M == levels'
<1>8. CASE spent
  <2>1. ListLess(s, Tail(s), 1)
    <3> HIDE DEF s
    <3> QED BY <1>6 DEF ListLess
  <2>2. M[side][cur].orders = Tail(s)
    BY <1>7, <1>8
  <2>3. \A other \in BookSide, j \in LevelIdx :
           other # side \/ j # cur => M[other][j] = levels[other][j]
    BY <1>7
  <2>4. IndexOK(M, Erase(refMap, levels[side][cur].orders[1].resting))
    <3> HIDE DEF M
    <3> QED BY <2>1, <2>2, <2>3, <1>2, <1>3, <1>6, NodeGone
  <2> QED BY <2>4, <1>1, <1>4, <1>6, <1>8 DEF Indexed
<1>9. CASE ~spent
  <2>1. /\ Len([s EXCEPT ![1] = kept]) = Len(s)
        /\ \A n \in 1..Len(s) : [s EXCEPT ![1] = kept][n].resting = s[n].resting
    <3>1. front \in RestingOrder
      <4> HIDE DEF s
      <4> QED BY <1>1, <1>5, HeadTailProperties
    <3>2. kept.resting = s[1].resting
      <4> HIDE DEF s, fillQty
      <4> QED BY <3>1, <1>6 DEF RestingOrder
    <3>3. DOMAIN s = 1..Len(s) /\ s = [n \in 1..Len(s) |-> s[n]]
      <4> HIDE DEF s
      <4> QED BY <1>5, LenProperties
    <3>4. [s EXCEPT ![1] = kept] \in Seq({kept} \cup RestingOrder)
      <4> HIDE DEF s, kept
      <4>1. s \in Seq({kept} \cup RestingOrder)
        BY <1>5
      <4> QED BY <4>1, <1>6, ExceptSeq
    <3> HIDE DEF s, kept
    <3>5. Len([s EXCEPT ![1] = kept]) = Len(s)
      BY <1>5, <1>6, <3>3, <3>4, LenProperties
    <3> QED BY <3>2, <3>3, <3>5
  <2>2. M[side][cur].orders = [s EXCEPT ![1] = kept]
    BY <1>7, <1>9
  <2>3. ASSUME NEW sd \in BookSide, NEW j \in LevelIdx, NEW n, NEW r
        PROVE  At(M, sd, j, n, r) <=> At(levels, sd, j, n, r)
    <3>1. CASE sd = side /\ j = cur
      <4> HIDE DEF kept, M
      <4> QED BY <3>1, <2>1, <2>2 DEF At
    <3>2. CASE ~(sd = side /\ j = cur)
      BY <3>2, <1>7 DEF At
    <3> QED BY <3>1, <3>2
  <2>4. IndexOK(M, refMap)
    <3> HIDE DEF M
    <3> QED BY <2>3, <1>3, NodesKept
  <2> QED BY <2>4, <1>1, <1>4, <1>9 DEF Indexed
<1> QED BY <1>8, <1>9

\* The rest of an order is entered in its list and in the index.
LEMMA SubmitRestsIndexed == ASSUME IInv, Indexed, SubmitRests PROVE Indexed'
<1> DEFINE side == req.side
           i    == index(req.limit_price)
           s    == levels[side][i].orders
           node == [resting |-> req.ref, remainQty |-> remaining]
           new  == [total_qty |-> levels[side][i].total_qty + remaining, orders |-> Append(s, node)]
           loc  == [side |-> side, index |-> i]
<1>1. /\ pc = "match" /\ side \in BookSide /\ remaining # 0
      /\ levels' = [levels EXCEPT ![side][i] = new]
      /\ refMap' = Put(refMap, req.ref, loc)
      /\ pc' = "idle"
  BY DEF SubmitRests, Return
<1>2. /\ levels \in LevelsType /\ IndexMap(refMap) /\ IndexOK(levels, refMap)
      /\ req.ref \notin DOMAIN refMap /\ req \in OrderRequest /\ HasIndex(req.limit_price)
      /\ remaining \in Nat
  BY <1>1 DEF IInv, TypeOK, LevelsType, IndexMap, Indexed, NewRef, AtWork
<1>3. req.limit_price \in Prices /\ req.ref \in Refs
  BY <1>2 DEF OrderRequest
<1>4. i \in LevelIdx
  BY <1>2, <1>3, LevelOfPrice
<1>5. loc.side = side /\ loc.index = i /\ node.resting = req.ref
  OBVIOUS
<1>6. node \in RestingOrder
  BY <1>1, <1>2, <1>3 DEF RestingOrder
<1> HIDE DEF side, i, loc, node
<1>7. s \in Seq(RestingOrder)
  BY <1>1, <1>2, <1>4, LevelParts
<1>8. /\ Len(s) \in Nat /\ Len(Append(s, node)) = Len(s) + 1
      /\ \A n \in 1..Len(s) : Append(s, node)[n] = s[n]
      /\ Append(s, node)[Len(s) + 1] = node
  <2> HIDE DEF s
  <2> QED BY <1>6, <1>7, AppendProperties, LenProperties
<1> DEFINE M == levels'
<1>9. /\ M[side][i].orders = Append(s, node)
      /\ \A other \in BookSide, j \in LevelIdx :
           other # side \/ j # i => M[other][j] = levels[other][j]
  <2>1. new.orders = Append(s, node)
    OBVIOUS
  <2> HIDE DEF new, s
  <2> QED BY <2>1, <1>1, <1>2, <1>4 DEF LevelsType
<1>10. ASSUME NEW sd \in BookSide, NEW j \in LevelIdx, NEW n, NEW r
       PROVE  At(M, sd, j, n, r) <=>
                \/ At(levels, sd, j, n, r)
                \/ sd = side /\ j = i /\ n = Len(s) + 1 /\ r = req.ref
  <2> DEFINE k == Len(s)
  <2>1. CASE sd = side /\ j = i
    <3>1. At(levels, sd, j, n, r) <=> n \in 1..k /\ s[n].resting = r
      BY <2>1 DEF At
    <3>2. At(M, sd, j, n, r) <=> n \in 1..(k + 1) /\ Append(s, node)[n].resting = r
      BY <2>1, <1>8, <1>9 DEF At
    <3>3. k \in Nat /\ Append(s, node)[k + 1].resting = req.ref
          /\ \A x \in 1..k : Append(s, node)[x].resting = s[x].resting
      BY <1>5, <1>8
    <3> HIDE DEF k, s, M
    <3>4. n \in 1..(k + 1) <=> n \in 1..k \/ n = k + 1
      BY <3>3
    <3>5. k + 1 \notin 1..k
      BY <3>3
    <3>6. CASE n \in 1..k
      <4>1. n # k + 1 /\ n \in 1..(k + 1) /\ Append(s, node)[n].resting = s[n].resting
        BY <3>3, <3>4, <3>5, <3>6
      <4> QED BY <4>1, <3>1, <3>2, <3>6 DEF k
    <3>7. CASE n = k + 1
      BY <3>1, <3>2, <3>3, <3>4, <3>5, <3>7, <2>1 DEF k
    <3>8. CASE n \notin 1..(k + 1)
      BY <3>1, <3>2, <3>4, <3>8 DEF k
    <3> QED BY <3>4, <3>6, <3>7, <3>8
  <2>2. CASE ~(sd = side /\ j = i)
    BY <2>2, <1>9 DEF At
  <2> QED BY <2>1, <2>2
<1>11. IndexOK(M, Put(refMap, req.ref, loc))
  <2> DEFINE k == Len(s) + 1
             r0 == req.ref
  <2>1. r0 \notin DOMAIN refMap
    BY <1>2
  <2>2. NodePutIn(levels, M, side, i, k, r0)
    BY <1>10 DEF NodePutIn
  <2> HIDE DEF M, k, s, r0
  <2>3. IndexOK(M, Put(refMap, r0, loc))
    BY <2>1, <2>2, <1>1, <1>2, <1>4, <1>5, NodeAdded
  <2> QED BY <2>3 DEF r0
<1>12. NewRef'
  BY <1>1 DEF NewRef
<1> QED BY <1>1, <1>11, <1>12 DEF Indexed

\* cancel takes the node of its ref out, and the ref.
LEMMA CancelIndexed == ASSUME IInv, Indexed, NEW ref, Cancel(ref) PROVE Indexed'
<1> DEFINE side == refMap[ref].side
           i    == refMap[ref].index
           lvl  == levels[side][i]
           s    == lvl.orders
           rest(k) == SubSeq(s, 1, k - 1) \o SubSeq(s, k + 1, Len(s))
           new(k)  == [total_qty |-> lvl.total_qty - s[k].remainQty, orders |-> rest(k)]
<1>1. pc = "idle" /\ pc' = pc /\ ref \in DOMAIN refMap /\ refMap' = Erase(refMap, ref)
  BY DEF Cancel, locals
<1>2. PICK k \in 1..Len(s) : s[k].resting = ref /\ levels' = WithLevel(levels, side, i, new(k))
  BY DEF Cancel, WithLevel
<1>3. levels \in LevelsType /\ IndexMap(refMap) /\ IndexOK(levels, refMap)
  BY DEF IInv, TypeOK, LevelsType, IndexMap, Indexed
<1>4. side \in BookSide /\ i \in LevelIdx
  BY <1>1, <1>3 DEF IndexMap, ArrayLocator
<1> HIDE DEF side, i
<1>5. s \in Seq(RestingOrder)
  BY <1>3, <1>4, LevelParts
<1> DEFINE t == rest(k)
           n == new(k)
           M == levels'
<1>6. Len(s) \in Nat /\ ListLess(s, t, k)
  <2> HIDE DEF s
  <2> QED BY <1>5, NodeOut, LenProperties DEF ListLess
<1>7. n.orders = t
  OBVIOUS
<1>8. /\ M[side][i].orders = t
      /\ \A other \in BookSide, j \in LevelIdx :
           other # side \/ j # i => M[other][j] = levels[other][j]
  <2>1. M = WithLevel(levels, side, i, n)
    BY <1>2
  <2> HIDE DEF n, t, M
  <2> QED BY <2>1, <1>3, <1>4, <1>7 DEF LevelsType, WithLevel
<1>9. IndexOK(M, Erase(refMap, levels[side][i].orders[k].resting))
  <2> HIDE DEF n, t, M
  <2> QED BY <1>2, <1>3, <1>4, <1>6, <1>8, NodeGone
<1>10. NewRef'
  BY <1>1 DEF NewRef
<1> QED BY <1>1, <1>2, <1>9, <1>10 DEF Indexed

\* Every step keeps the index in step.
LEMMA IndexedStep == IInv /\ Indexed /\ [Next]_vars => Indexed'
<1> SUFFICES ASSUME IInv, Indexed, [Next]_vars PROVE Indexed'
  OBVIOUS
<1>1. CASE FillFront
  BY <1>1, FillFrontIndexed
<1>2. CASE SubmitRests
  BY <1>2, SubmitRestsIndexed
<1>3. ASSUME NEW ref \in Refs, Cancel(ref) PROVE Indexed'
  BY <1>3, CancelIndexed
<1>4. ASSUME NEW request \in OrderRequest, Submit(request) PROVE Indexed'
  BY <1>4 DEF Submit, Indexed, NewRef, book
<1>5. CASE \/ \E request \in OrderRequest : SubmitRefused(request)
           \/ EnterLevel \/ LeaveLevel \/ SubmitFilled \/ SubmitFallsThrough
           \/ \E ref \in Refs : CancelUnknown(ref)
           \/ UNCHANGED vars
  <2>1. /\ levels' = levels /\ refMap' = refMap
        /\ pc' = "idle" \/ (pc # "idle" /\ req' = req) \/ (pc' = pc /\ req' = req)
    BY <1>5 DEF SubmitRefused, EnterLevel, LeaveLevel, SubmitFilled, SubmitFallsThrough,
                CancelUnknown, Return, book, locals, vars
  <2> QED BY <2>1 DEF Indexed, NewRef
<1> QED BY <1>1, <1>2, <1>3, <1>4, <1>5 DEF Next, Working
-----------------------------------------------------------------------------
(***************************************************************************)
(* The counters                                                            *)
(***************************************************************************)
\* The refs the index has on one side, and the counters that go with it.
RefsOn(locs, side) == {r \in DOMAIN locs : locs[r].side = side}
CountOK(locs, counts) ==
    \A side \in BookSide : /\ IsFiniteSet(RefsOn(locs, side))
                           /\ counts[side] = Cardinality(RefsOn(locs, side))
Counted == CountOK(refMap, orders_count)

\* One order less in the index, one less on its counter.
LEMMA CountLess ==
    ASSUME NEW locs, IndexMap(locs), NEW counts \in [BookSide -> Int],
           CountOK(locs, counts), NEW r \in DOMAIN locs, NEW side, side = locs[r].side
    PROVE  CountOK(Erase(locs, r), [counts EXCEPT ![side] = @ - 1])
<1>1. side \in BookSide
  BY DEF IndexMap, ArrayLocator
<1>2. /\ RefsOn(Erase(locs, r), side) = RefsOn(locs, side) \ {r}
      /\ r \in RefsOn(locs, side)
  BY DEF RefsOn, Erase
<1>3. /\ IsFiniteSet(RefsOn(locs, side) \ {r})
      /\ Cardinality(RefsOn(locs, side) \ {r}) = counts[side] - 1
  BY <1>1, <1>2, FS_RemoveElement DEF CountOK
<1>4. ASSUME NEW other \in BookSide, other # side
      PROVE  RefsOn(Erase(locs, r), other) = RefsOn(locs, other)
  BY <1>4 DEF RefsOn, Erase
<1> QED BY <1>1, <1>2, <1>3, <1>4 DEF CountOK

\* One order more in the index, one more on its counter.
LEMMA CountMore ==
    ASSUME NEW locs, NEW counts \in [BookSide -> Int], CountOK(locs, counts),
           NEW r, r \notin DOMAIN locs, NEW loc \in ArrayLocator, NEW side, side = loc.side
    PROVE  CountOK(Put(locs, r, loc), [counts EXCEPT ![side] = @ + 1])
<1>1. side \in BookSide
  BY DEF ArrayLocator
<1>2. /\ RefsOn(Put(locs, r, loc), side) = RefsOn(locs, side) \cup {r}
      /\ r \notin RefsOn(locs, side)
  BY DEF RefsOn, Put
<1>3. ASSUME NEW other \in BookSide, other # side
      PROVE  RefsOn(Put(locs, r, loc), other) = RefsOn(locs, other)
  BY <1>3 DEF RefsOn, Put
<1>4. /\ IsFiniteSet(RefsOn(locs, side) \cup {r})
      /\ Cardinality(RefsOn(locs, side) \cup {r}) = counts[side] + 1
  BY <1>1, <1>2, FS_AddElement DEF CountOK
<1> QED BY <1>1, <1>2, <1>3, <1>4 DEF CountOK

\* submit counts an order down when it takes its ref out of the index.
LEMMA FillFrontCounted == ASSUME IInv, Indexed, Counted, FillFront PROVE Counted'
<1> DEFINE side  == Opposite(req.side)
           s     == levels[side][cur].orders
           front == Head(s)
           spent == front.remainQty - Lesser(remaining, front.remainQty) <= 0
<1>1. /\ levels \in LevelsType /\ IndexMap(refMap) /\ orders_count \in [BookSide -> Int]
      /\ IndexOK(levels, refMap) /\ s # <<>> /\ side \in BookSide /\ cur \in LevelIdx
      /\ refMap' = IF spent THEN Erase(refMap, front.resting) ELSE refMap
      /\ orders_count' = IF spent THEN [orders_count EXCEPT ![side] = @ - 1] ELSE orders_count
  BY OppositeSide DEF IInv, Indexed, AtWork, TypeOK, LevelsType, IndexMap, FillFront
<1>2. s \in Seq(RestingOrder)
  BY <1>1, LevelParts
<1>3. 1 \in 1..Len(s) /\ front = s[1]
  <2> HIDE DEF s
  <2> QED BY <1>1, <1>2, HeadTailProperties
<1>4. front.resting \in DOMAIN refMap /\ side = refMap[front.resting].side
  <2>1. At(levels, side, cur, 1, front.resting)
    BY <1>3 DEF At
  <2> HIDE DEF side, front
  <2> QED BY <2>1, <1>1 DEF IndexOK
<1> HIDE DEF side, front, spent
<1>5. CASE spent
  <2>1. CountOK(Erase(refMap, front.resting), [orders_count EXCEPT ![side] = @ - 1])
    BY <1>1, <1>4, CountLess DEF Counted
  <2> QED BY <2>1, <1>1, <1>5 DEF Counted
<1>6. CASE ~spent
  BY <1>1, <1>6 DEF Counted
<1> QED BY <1>5, <1>6

\* submit counts an order up as it enters it in the index, for the first time.
LEMMA SubmitRestsCounted == ASSUME IInv, Indexed, Counted, SubmitRests PROVE Counted'
<1> DEFINE side == req.side
           loc  == [side |-> side, index |-> index(req.limit_price)]
<1>1. /\ orders_count \in [BookSide -> Int] /\ req \in OrderRequest /\ side \in BookSide
      /\ req.ref \notin DOMAIN refMap /\ HasIndex(req.limit_price)
      /\ refMap' = Put(refMap, req.ref, loc)
      /\ orders_count' = [orders_count EXCEPT ![side] = @ + 1]
  BY DEF IInv, TypeOK, Indexed, NewRef, AtWork, SubmitRests
<1>2. loc \in ArrayLocator
  BY <1>1, LevelOfPrice DEF ArrayLocator, OrderRequest
<1>3. loc.side = side
  OBVIOUS
<1> HIDE DEF loc, side
<1>4. CountOK(Put(refMap, req.ref, loc), [orders_count EXCEPT ![side] = @ + 1])
  BY <1>1, <1>2, <1>3, CountMore DEF Counted
<1> QED BY <1>1, <1>4 DEF Counted

\* cancel counts down on the side its locator names.
LEMMA CancelCounted == ASSUME IInv, Counted, NEW ref, Cancel(ref) PROVE Counted'
<1>1. /\ IndexMap(refMap) /\ orders_count \in [BookSide -> Int]
      /\ ref \in DOMAIN refMap /\ refMap' = Erase(refMap, ref)
      /\ orders_count' = [orders_count EXCEPT ![refMap[ref].side] = @ - 1]
  BY DEF IInv, TypeOK, IndexMap, Cancel
<1>2. CountOK(Erase(refMap, ref), [orders_count EXCEPT ![refMap[ref].side] = @ - 1])
  BY <1>1, CountLess DEF Counted
<1> QED BY <1>1, <1>2 DEF Counted

\* Every step keeps the counters.
LEMMA CountedStep == IInv /\ Indexed /\ Counted /\ [Next]_vars => Counted'
<1> SUFFICES ASSUME IInv, Indexed, Counted, [Next]_vars PROVE Counted'
  OBVIOUS
<1>1. CASE FillFront
  BY <1>1, FillFrontCounted
<1>2. CASE SubmitRests
  BY <1>2, SubmitRestsCounted
<1>3. CASE \E ref \in Refs : Cancel(ref)
  BY <1>3, CancelCounted
<1>4. ASSUME refMap' = refMap, orders_count' = orders_count PROVE Counted'
  BY <1>4 DEF Counted
<1>5. CASE \/ \E request \in OrderRequest : Submit(request) \/ SubmitRefused(request)
           \/ EnterLevel \/ LeaveLevel \/ SubmitFilled \/ SubmitFallsThrough
           \/ \E ref \in Refs : CancelUnknown(ref)
           \/ UNCHANGED vars
  BY <1>4, <1>5 DEF Submit, SubmitRefused, EnterLevel, LeaveLevel, SubmitFilled,
                    SubmitFallsThrough, CancelUnknown, book, vars
<1> QED BY <1>1, <1>2, <1>3, <1>5 DEF Next, Working

\* A side counts no orders exactly if its lists are empty.
LEMMA SideEmpty ==
    ASSUME IInv, Indexed, Counted, NEW side \in BookSide
    PROVE  orders_count[side] = 0 <=> \A i \in LevelIdx : levels[side][i].orders = <<>>
<1>1. levels \in LevelsType /\ IndexMap(refMap) /\ IndexOK(levels, refMap)
  BY DEF IInv, TypeOK, LevelsType, IndexMap, Indexed
<1>2. orders_count[side] = 0 <=> RefsOn(refMap, side) = {}
  BY FS_CardinalityType, FS_EmptySet DEF Counted, CountOK
<1>3. ASSUME NEW r \in RefsOn(refMap, side)
      PROVE  \E i \in LevelIdx : levels[side][i].orders # <<>>
  <2>1. r \in DOMAIN refMap /\ refMap[r].side = side /\ refMap[r].index \in LevelIdx
    BY <1>1 DEF RefsOn, IndexMap, ArrayLocator
  <2>2. PICK n : At(levels, side, refMap[r].index, n, r)
    BY <1>1, <2>1 DEF IndexOK
  <2>3. levels[side][refMap[r].index].orders # <<>>
    BY <2>2, EmptySeq DEF At
  <2> QED BY <2>1, <2>3
<1>4. ASSUME NEW i \in LevelIdx, levels[side][i].orders # <<>>
      PROVE  RefsOn(refMap, side) # {}
  <2> DEFINE s == levels[side][i].orders
  <2>1. s \in Seq(RestingOrder)
    BY <1>1, LevelParts
  <2>2. 1 \in 1..Len(s)
    <3> HIDE DEF s
    <3>1. s # <<>>
      BY <1>4 DEF s
    <3> QED BY <3>1, <2>1, HeadTailProperties
  <2>3. At(levels, side, i, 1, s[1].resting)
    BY <2>2 DEF At
  <2> HIDE DEF s
  <2> QED BY <2>3, <1>1 DEF IndexOK, RefsOn
<1> QED BY <1>2, <1>3, <1>4
-----------------------------------------------------------------------------
(***************************************************************************)
(* The totals                                                              *)
(***************************************************************************)
\* Each level's total is what its orders have left.
TotalsOK(L) == \A side \in BookSide, i \in LevelIdx :
                   L[side][i].total_qty = TotalLeft(L[side][i].orders)

\* Resting orders have something left.
LEMMA RestingOrders == Orders(RestingOrder)
  BY DEF Orders, RestingOrder

\* One level changes, to one whose total is right.
LEMMA OneTotal ==
    ASSUME NEW L \in LevelsType, TotalsOK(L), NEW side \in BookSide, NEW i \in LevelIdx,
           NEW new, new.total_qty = TotalLeft(new.orders)
    PROVE  TotalsOK(WithLevel(L, side, i, new))
<1>1. ASSUME NEW sd \in BookSide, NEW j \in LevelIdx
      PROVE  WithLevel(L, side, i, new)[sd][j] = IF sd = side /\ j = i THEN new ELSE L[sd][j]
  BY DEF WithLevel, LevelsType
<1> QED BY <1>1 DEF TotalsOK

\* A trade takes as much off the total as off the front order.
LEMMA FillFrontTotals ==
    ASSUME IInv, TotalsOK(levels), FillFront
    PROVE  TotalsOK(levels')
<1> DEFINE side    == Opposite(req.side)
           lvl     == levels[side][cur]
           front   == Head(lvl.orders)
           fillQty == Lesser(remaining, front.remainQty)
           left    == front.remainQty - fillQty
           less    == [front EXCEPT !.remainQty = left]
           orders  == IF left <= 0 THEN Tail(lvl.orders) ELSE [lvl.orders EXCEPT ![1] = less]
           new     == [total_qty |-> lvl.total_qty - fillQty, orders |-> orders]
<1>1. /\ levels \in LevelsType /\ remaining \in Nat /\ remaining > 0
      /\ side \in BookSide /\ cur \in LevelIdx /\ lvl.orders # <<>>
  BY OppositeSide DEF IInv, TypeOK, LevelsType, AtWork, FillFront
<1>2. levels' = WithLevel(levels, side, cur, new)
  BY DEF FillFront, WithLevel
<1>3. lvl.orders \in Seq(RestingOrder) /\ lvl.total_qty \in Int
  BY <1>1, LevelParts
<1>4. lvl.total_qty = TotalLeft(lvl.orders)
  BY <1>1 DEF TotalsOK
<1>5. TotalLeft(lvl.orders) \in Int
  BY <1>3, RestingOrders, LeftType
<1>6. /\ front \in RestingOrder /\ front.remainQty \in Nat \ {0}
      /\ fillQty \in Nat \ {0} /\ left \in Nat
  <2> HIDE DEF lvl
  <2>1. front \in RestingOrder
    BY <1>1, <1>3, HeadTailProperties
  <2>2. front.remainQty \in Nat \ {0}
    BY <2>1 DEF RestingOrder
  <2> QED BY <2>1, <2>2, <1>1 DEF Lesser
<1>7. TotalLeft(orders) = lvl.total_qty - fillQty
  <2>1. CASE left <= 0
    <3>1. fillQty = front.remainQty
      BY <2>1, <1>6
    <3>2. orders = Tail(lvl.orders)
      BY <2>1
    <3>3. TotalLeft(Tail(lvl.orders)) = TotalLeft(lvl.orders) - front.remainQty
      BY <1>1, <1>3, RestingOrders, LeftTail
    <3> HIDE DEF orders, lvl, fillQty, front
    <3> QED BY <3>1, <3>2, <3>3, <1>4
  <2>2. CASE ~(left <= 0)
    <3>1. less \in RestingOrder /\ less.remainQty = left
      <4>1. left \in Nat \ {0} /\ front \in RestingOrder
        BY <2>2, <1>6
      <4> HIDE DEF left, front
      <4> QED BY <4>1 DEF RestingOrder
    <3>2. orders = [lvl.orders EXCEPT ![1] = less]
      BY <2>2
    <3> HIDE DEF less
    <3>3. TotalLeft([lvl.orders EXCEPT ![1] = less]) =
              TotalLeft(lvl.orders) - front.remainQty + less.remainQty
      BY <3>1, <1>1, <1>3, RestingOrders, LeftFront
    <3>4. TotalLeft(orders) = TotalLeft(lvl.orders) - front.remainQty + left
      BY <3>1, <3>2, <3>3
    <3>5. left = front.remainQty - fillQty
      OBVIOUS
    <3> HIDE DEF orders, lvl, fillQty, front, left
    <3> QED BY <3>4, <3>5, <1>4, <1>5, <1>6
  <2> QED BY <2>1, <2>2
<1>8. new.total_qty = TotalLeft(new.orders)
  BY <1>7
<1> HIDE DEF new, side
<1> QED BY <1>1, <1>2, <1>8, OneTotal

\* The level an order joins gains what is left of it.
LEMMA SubmitRestsTotals ==
    ASSUME IInv, TotalsOK(levels), SubmitRests
    PROVE  TotalsOK(levels')
<1> DEFINE side == req.side
           i    == index(req.limit_price)
           lvl  == levels[side][i]
           node == [resting |-> req.ref, remainQty |-> remaining]
           new  == [total_qty |-> lvl.total_qty + remaining, orders |-> Append(lvl.orders, node)]
<1>1. /\ levels \in LevelsType /\ side \in BookSide /\ req \in OrderRequest
      /\ HasIndex(req.limit_price) /\ remaining \in Nat \ {0}
      /\ levels' = WithLevel(levels, side, i, new)
  BY DEF IInv, TypeOK, LevelsType, AtWork, SubmitRests, WithLevel
<1>2. i \in LevelIdx
  BY <1>1, LevelOfPrice DEF OrderRequest
<1>3. node \in RestingOrder /\ node.remainQty = remaining
  BY <1>1 DEF RestingOrder, OrderRequest
<1>4. lvl.orders \in Seq(RestingOrder) /\ lvl.total_qty = TotalLeft(lvl.orders)
  BY <1>1, <1>2, LevelParts DEF TotalsOK
<1> HIDE DEF node
<1>5. TotalLeft(Append(lvl.orders, node)) = lvl.total_qty + remaining
  BY <1>3, <1>4, RestingOrders, LeftMore
<1>6. new.total_qty = TotalLeft(new.orders)
  BY <1>5
<1> HIDE DEF new, side, i
<1> QED BY <1>1, <1>2, <1>6, OneTotal

\* The level an order is cancelled in loses what was left of it.
LEMMA CancelTotals ==
    ASSUME IInv, TotalsOK(levels), NEW ref, Cancel(ref)
    PROVE  TotalsOK(levels')
<1> DEFINE side == refMap[ref].side
           i    == refMap[ref].index
           lvl  == levels[side][i]
           rest(k) == SubSeq(lvl.orders, 1, k - 1) \o SubSeq(lvl.orders, k + 1, Len(lvl.orders))
           less(k) == [total_qty |-> lvl.total_qty - lvl.orders[k].remainQty, orders |-> rest(k)]
<1>1. levels \in LevelsType /\ refMap[ref] \in ArrayLocator
  BY DEF IInv, TypeOK, LevelsType, Cancel
<1>2. side \in BookSide /\ i \in LevelIdx
  BY <1>1 DEF ArrayLocator
<1>3. lvl.orders \in Seq(RestingOrder) /\ lvl.total_qty = TotalLeft(lvl.orders)
  BY <1>1, <1>2, LevelParts DEF TotalsOK
<1>4. PICK k \in 1..Len(lvl.orders) : levels' = WithLevel(levels, side, i, less(k))
  BY DEF Cancel, WithLevel
<1> DEFINE new == less(k)
<1>5. new.total_qty = TotalLeft(new.orders)
  <2> HIDE DEF lvl
  <2> QED BY <1>3, RestingOrders, LeftOut
<1>6. levels' = WithLevel(levels, side, i, new)
  BY <1>4
<1> HIDE DEF new, side, i
<1> QED BY <1>1, <1>2, <1>5, <1>6, OneTotal

\* Every step keeps the totals.
LEMMA TotalsStep == IInv /\ TotalsOK(levels) /\ [Next]_vars => TotalsOK(levels')
<1> SUFFICES ASSUME IInv, TotalsOK(levels), [Next]_vars PROVE TotalsOK(levels')
  OBVIOUS
<1>1. CASE FillFront
  BY <1>1, FillFrontTotals
<1>2. CASE SubmitRests
  BY <1>2, SubmitRestsTotals
<1>3. CASE \E ref \in Refs : Cancel(ref)
  BY <1>3, CancelTotals
<1>4. CASE \/ \E request \in OrderRequest : Submit(request) \/ SubmitRefused(request)
           \/ EnterLevel \/ LeaveLevel \/ SubmitFilled \/ SubmitFallsThrough
           \/ \E ref \in Refs : CancelUnknown(ref)
           \/ UNCHANGED vars
  BY <1>4 DEF Submit, SubmitRefused, EnterLevel, LeaveLevel, SubmitFilled,
              SubmitFallsThrough, CancelUnknown, book, vars
<1> QED BY <1>1, <1>2, <1>3, <1>4 DEF Next, Working

\* The counters and the totals, with what they need of the index.
Summed == Indexed /\ Counted /\ TotalsOK(levels)

\* An empty book counts nothing and adds up to nothing.
LEMMA InitSummed == Init => Summed
<1> SUFFICES ASSUME Init PROVE Summed
  OBVIOUS
<1>1. /\ DOMAIN refMap = {}
      /\ \A side \in BookSide, i \in LevelIdx :
           levels[side][i].orders = <<>> /\ levels[side][i].total_qty = 0
  BY DEF Init
<1>2. Indexed
  <2>1. \A side \in BookSide, i \in LevelIdx : \A n, r : ~At(levels, side, i, n, r)
    BY <1>1, EmptySeq DEF At
  <2> QED BY <1>1, <2>1 DEF Init, Indexed, NewRef, IndexOK
<1>3. Counted
  BY <1>1, FS_EmptySet DEF Init, Counted, CountOK, RefsOn
<1>4. TotalsOK(levels)
  <2>1. <<>> \in Seq(RestingOrder)
    BY EmptySeq
  <2>2. TotalLeft(<<>>) = 0
    BY <2>1, RestingOrders, LeftType
  <2> QED BY <2>2, <1>1 DEF TotalsOK
<1> QED BY <1>2, <1>3, <1>4 DEF Summed

\* They say what TouchHasQuantity does: the touch is a level with orders.
LEMMA SummedHasQuantity == IInv /\ Summed => TouchHasQuantity
<1> SUFFICES ASSUME IInv, Summed PROVE TouchHasQuantity
  OBVIOUS
<1> USE DEF Summed
<1>1. levels \in LevelsType /\ kNone \notin LevelIdx
  BY BitmapAssumption DEF IInv, TypeOK, LevelsType, kNone, LevelIdx
<1>2. ASSUME pc = "idle", NEW side \in BookSide
      PROVE  /\ \A p \in best(side) : qty_at(side, p) > 0
             /\ best(side) = {} <=> orders_count[side] = 0
  <2> DEFINE hint == best_idx[side]
  <2>1. BestBit(side, occupied[side], hint)
    BY TouchBySide DEF IInv
  <2>2. \A i \in LevelIdx : IsSet(occupied[side], i) <=> levels[side][i].orders # <<>>
    BY <1>2 DEF IInv, BitmapAgrees
  <2>3. best(side) = IF hint = kNone THEN {} ELSE {priceAt(hint)}
    BY DEF best
  <2> HIDE DEF hint
  <2>4. ASSUME NEW p \in best(side) PROVE qty_at(side, p) > 0
    <3>1. hint \in LevelIdx /\ p = priceAt(hint) /\ levels[side][hint].orders # <<>>
      BY <2>1, <2>2, <2>3, <2>4 DEF BestBit
    <3>2. HasIndex(p) /\ index(p) = hint
      BY <3>1, PriceOfLevel
    <3>3. TotalLeft(levels[side][hint].orders) > 0
      BY <3>1, <1>1, LevelParts, RestingOrders, LeftType
    <3> QED BY <3>1, <3>2, <3>3 DEF qty_at, TotalsOK
  <2>5. hint = kNone <=> \A i \in LevelIdx : levels[side][i].orders = <<>>
    BY <2>1, <2>2, <1>1 DEF BestBit
  <2>6. best(side) = {} <=> orders_count[side] = 0
    BY <2>3, <2>5, SideEmpty
  <2> QED BY <2>4, <2>6
<1>3. \A side \in BookSide :
        orders_count[side] = Cardinality({r \in DOMAIN refMap : refMap[r].side = side})
  BY DEF Counted, CountOK, RefsOn
<1> QED BY <1>2, <1>3 DEF TouchHasQuantity
-----------------------------------------------------------------------------
(***************************************************************************)
(* Theorems                                                                *)
(***************************************************************************)
\* Every step keeps the invariant.
LEMMA Inductive == ASSUME PositiveQtys PROVE IInv /\ [Next]_vars => IInv'
<1> SUFFICES ASSUME IInv, [Next]_vars PROVE IInv'
  OBVIOUS
<1>1. ASSUME NEW request \in OrderRequest, Submit(request) \/ SubmitRefused(request)
      PROVE  IInv'
  BY <1>1, SubmitStep, SubmitRefusedStep
<1>2. CASE EnterLevel
  BY <1>2, EnterLevelStep
<1>3. CASE FillFront
  BY <1>3, FillFrontStep
<1>4. CASE LeaveLevel
  BY <1>4, LeaveLevelStep
<1>5. CASE SubmitRests
  BY <1>5, SubmitRestsStep
<1>6. CASE SubmitFilled \/ SubmitFallsThrough
  BY <1>6, ReturnStep
<1>7. ASSUME NEW ref \in Refs, Cancel(ref) \/ CancelUnknown(ref)
      PROVE  IInv'
  BY <1>7, CancelStep, CancelUnknownStep
<1>8. CASE UNCHANGED vars
  <2>1. BitmapAgrees' /\ TouchIsBest'
    BY <1>8, TouchBySide DEF vars, IInv, BitmapAgrees, cur
  <2>2. TypeOK' /\ NotCrossed' /\ AtWork' /\ Priced'
    BY <1>8 DEF vars, IInv, TypeOK, TouchTypeOK, NotCrossed, AtWork, Priced, cur
  <2> QED BY <2>1, <2>2 DEF IInv
<1> QED BY <1>1, <1>2, <1>3, <1>4, <1>5, <1>6, <1>7, <1>8 DEF Next, Working

\* Everything below holds throughout.
THEOREM Invariance == ASSUME PositiveQtys PROVE Spec => []IInv
<1>1. Init => IInv
  BY InitInv
<1>2. IInv /\ [Next]_vars => IInv'
  BY Inductive
<1> QED BY <1>1, <1>2, PTL DEF Spec

\* Every structure keeps its type, whatever order of calls fills and empties
\* the levels of the window.
THEOREM TypeCorrect == ASSUME PositiveQtys PROVE Spec => []TypeOK
<1>1. IInv => TypeOK
  BY DEF IInv
<1> QED BY <1>1, Invariance, PTL

\* The occupancy bitmap follows the lists, whatever the size of a word.
THEOREM BitmapCorrect == ASSUME PositiveQtys PROVE Spec => []BitmapAgrees
<1>1. IInv => BitmapAgrees
  BY DEF IInv
<1> QED BY <1>1, Invariance, PTL

\* The hint is the best occupied level of its side: the searches skip no level
\* and stop at none that is empty, at any word boundary.
THEOREM TouchCorrect == ASSUME PositiveQtys PROVE Spec => []TouchIsBest
<1>1. IInv => TouchIsBest
  BY DEF IInv
<1> QED BY <1>1, Invariance, PTL

\* The bid hint stays below the ask hint, during a submit and between calls.
THEOREM BookNeverCrossed == ASSUME PositiveQtys PROVE Spec => []NotCrossed
<1>1. IInv => NotCrossed
  BY DEF IInv
<1> QED BY <1>1, Invariance, PTL

\* And the index, the counters and the totals.
LEMMA SummedInvariance == ASSUME PositiveQtys PROVE Spec => []Summed
<1>1. Init => Summed
  BY InitSummed
<1>2. IInv /\ Summed /\ [Next]_vars => Summed'
  BY IndexedStep, CountedStep, TotalsStep DEF Summed
<1> QED BY <1>1, <1>2, Invariance, PTL DEF Spec

\* Every locator leads to a list with its order and every order in a list has
\* its locator: cancel misses no resting order and removes no other.
THEOREM IndexCorrect == ASSUME PositiveQtys PROVE Spec => []IndexAgrees
<1>1. IInv /\ Summed => IndexAgrees
  BY IndexedAgrees DEF Summed
<1> QED BY <1>1, Invariance, SummedInvariance, PTL

\* An order at work is at the price of a level, and no level's price is ever
\* refused: index() is right at both ends of the window, for every window.
THEOREM LevelPricesTaken == ASSUME PositiveQtys PROVE Spec => []TakesLevelPrices
<1>1. IInv => TakesLevelPrices
  <2> SUFFICES ASSUME IInv PROVE TakesLevelPrices
    OBVIOUS
  <2>1. ASSUME pc # "idle" PROVE \E i \in LevelIdx : req.limit_price = priceAt(i)
    <3>1. req.limit_price \in Prices
      BY <2>1 DEF IInv, TypeOK, OrderRequest
    <3>2. HasIndex(req.limit_price)
      BY <2>1 DEF IInv, AtWork
    <3> QED BY <3>1, <3>2, LevelOfPrice
  <2>2. \A i \in LevelIdx : HasIndex(priceAt(i)) /\ index(priceAt(i)) = i
    BY PriceOfLevel
  <2> HIDE DEF HasIndex, index, priceAt
  <2> QED BY <2>1, <2>2 DEF TakesLevelPrices
<1> QED BY <1>1, Invariance, PTL

\* Between calls best_bid and best_ask name a price with a quantity behind it,
\* exactly if the side has orders, and the counters count what rests.
THEOREM TouchHasQuantityHolds == ASSUME PositiveQtys PROVE Spec => []TouchHasQuantity
<1>1. IInv /\ Summed => TouchHasQuantity
  BY SummedHasQuantity
<1> QED BY <1>1, Invariance, SummedInvariance, PTL
-----------------------------------------------------------------------------
(***************************************************************************)
(* What the inner loop relies on                                           *)
(***************************************************************************)
\* The level being drained is within the limit.  The outer loop has looked at
\* that, and the trades of the inner one do not move the hint.
WithinLimit == pc = "level" => Crosses(req.side, index(req.limit_price), cur)

RInv == IInv /\ Summed /\ WithinLimit

\* Every step keeps the level being drained within the limit.
LEMMA WithinLimitStep ==
    ASSUME WithinLimit, [Next]_vars
    PROVE  WithinLimit'
<1>1. CASE EnterLevel
  BY <1>1 DEF EnterLevel, Reaches, WithinLimit, cur, book
<1>2. CASE FillFront
  BY <1>2 DEF FillFront, WithinLimit, cur, touch
<1>3. CASE \E request \in OrderRequest : Submit(request) \/ SubmitRefused(request)
  BY <1>3 DEF Submit, SubmitRefused, locals, WithinLimit
<1>4. CASE LeaveLevel
  BY <1>4 DEF LeaveLevel, WithinLimit
<1>5. CASE SubmitFilled \/ SubmitRests \/ SubmitFallsThrough
  BY <1>5 DEF SubmitFilled, SubmitRests, SubmitFallsThrough, Return, WithinLimit
<1>6. CASE \E ref \in Refs : Cancel(ref) \/ CancelUnknown(ref)
  BY <1>6 DEF Cancel, CancelUnknown, locals, book, WithinLimit
<1>7. CASE UNCHANGED vars
  BY <1>7 DEF vars, WithinLimit, cur
<1> QED BY <1>1, <1>2, <1>3, <1>4, <1>5, <1>6, <1>7 DEF Next, Working
-----------------------------------------------------------------------------
(***************************************************************************)
(* The vocabulary of the promise is that of the book                       *)
(***************************************************************************)
\* An instance has its own names for what both extend.
LEMMA SameVocabulary ==
    /\ PriceTime!BookSide = BookSide
    /\ \A side : PriceTime!Opposite(side) = Opposite(side)
    /\ \A side, p, q : PriceTime!Better(side, p, q) <=> Better(side, p, q)
    /\ \A side, p, q : PriceTime!Crosses(side, p, q) <=> Crosses(side, p, q)
    /\ \A m, n : PriceTime!Lesser(m, n) = Lesser(m, n)
<1>1. PriceTime!BookSide = BookSide
  BY DEF PriceTime!BookSide, PriceTime!Buy, PriceTime!Sell, BookSide, Buy, Sell
<1>2. \A side : PriceTime!Opposite(side) = Opposite(side)
  BY DEF PriceTime!Opposite, PriceTime!Buy, PriceTime!Sell, Opposite, Buy, Sell
<1>3. \A side, p, q : PriceTime!Better(side, p, q) <=> Better(side, p, q)
  BY DEF PriceTime!Better, PriceTime!Buy, Better, Buy
<1>4. \A side, p, q : PriceTime!Crosses(side, p, q) <=> Crosses(side, p, q)
  BY DEF PriceTime!Crosses, PriceTime!Buy, Crosses, Buy
<1>5. \A m, n : PriceTime!Lesser(m, n) = Lesser(m, n)
  BY DEF PriceTime!Lesser, Lesser
<1> QED BY <1>1, <1>2, <1>3, <1>4, <1>5
-----------------------------------------------------------------------------
(***************************************************************************)
(* The queues of the promise, as lists of the levels                       *)
(***************************************************************************)
ListsOf(L) == [side \in BookSide |-> [p \in Prices |->
                 IF HasIndex(p) THEN L[side][index(p)].orders ELSE <<>>]]
WithList(L, side, p, s) == [ListsOf(L) EXCEPT ![side][p] = s]

\* The prices of the levels are those index() accepts.
LEMMA WindowIs == InWindow = {p \in Prices : HasIndex(p)}
  BY PricesOfLevels DEF InWindow

\* Before a step and after it, the queues are the lists.
LEMMA QueuesAreLists == Queues = ListsOf(levels) /\ Queues' = ListsOf(levels')
  BY WindowIs DEF Queues, ListsOf

\* One list.
LEMMA ListAt ==
    ASSUME NEW L, NEW side \in BookSide, NEW i \in LevelIdx, priceAt(i) \in Prices
    PROVE  ListsOf(L)[side][priceAt(i)] = L[side][i].orders
<1>1. HasIndex(priceAt(i)) /\ index(priceAt(i)) = i
  BY PriceOfLevel
<1> HIDE DEF priceAt
<1> QED BY <1>1 DEF ListsOf

\* One level changes, and one list.
LEMMA OneList ==
    ASSUME NEW L \in LevelsType, NEW side \in BookSide, NEW i \in LevelIdx,
           NEW p \in Prices, p = priceAt(i), NEW lvl
    PROVE  ListsOf(WithLevel(L, side, i, lvl)) = WithList(L, side, p, lvl.orders)
<1> DEFINE M == WithLevel(L, side, i, lvl)
           R == [ListsOf(L) EXCEPT ![side][p] = lvl.orders]
<1>1. HasIndex(p) /\ index(p) = i
  BY PriceOfLevel
<1>2. \A sd \in BookSide, j \in LevelIdx :
        M[sd][j] = IF sd = side /\ j = i THEN lvl ELSE L[sd][j]
  BY DEF WithLevel, LevelsType
<1>3. ASSUME NEW sd \in BookSide, NEW q \in Prices
      PROVE  ListsOf(M)[sd][q] = R[sd][q]
  <2>1. R[sd][q] = IF sd = side /\ q = p THEN lvl.orders ELSE ListsOf(L)[sd][q]
    BY DEF ListsOf
  <2>2. CASE HasIndex(q)
    <3>1. index(q) \in LevelIdx /\ (index(q) = i => q = p)
      BY <2>2, LevelOfPrice
    <3> HIDE DEF M, R
    <3>2. ListsOf(M)[sd][q] = M[sd][index(q)].orders /\ ListsOf(L)[sd][q] = L[sd][index(q)].orders
      BY <2>2 DEF ListsOf
    <3> QED BY <3>1, <3>2, <2>1, <1>1, <1>2
  <2>3. CASE ~HasIndex(q)
    <3> HIDE DEF M, R
    <3> QED BY <2>1, <2>3, <1>1 DEF ListsOf
  <2> QED BY <2>2, <2>3
<1>4. R = [sd \in BookSide |-> [q \in Prices |-> R[sd][q]]]
  <2>1. \A sd \in BookSide : R[sd] = [q \in Prices |-> R[sd][q]]
    BY DEF ListsOf
  <2>2. R = [sd \in BookSide |-> R[sd]]
    BY DEF ListsOf
  <2> HIDE DEF R
  <2> QED BY <2>1, <2>2
<1> HIDE DEF M, R
<1>5. ListsOf(M) = [sd \in BookSide |-> [q \in Prices |-> ListsOf(M)[sd][q]]]
  BY DEF ListsOf
<1>6. ListsOf(M) = R
  BY <1>3, <1>4, <1>5
<1> QED BY <1>6 DEF M, R, WithList

\* A ref that the index does not have is in no queue.
LEMMA NotInBook ==
    ASSUME Indexed, NEW ref, ref \notin DOMAIN refMap
    PROVE  ~PriceTime!InBook(ref)
<1> SUFFICES ASSUME NEW side \in BookSide, NEW p \in Prices,
                    NEW n \in 1..Len(Queues[side][p]), PriceTime!Rests(ref, side, p, n)
             PROVE  FALSE
  BY SameVocabulary DEF PriceTime!InBook
<1>1. Queues[side][p] = IF HasIndex(p) THEN levels[side][index(p)].orders ELSE <<>>
  BY QueuesAreLists DEF ListsOf
<1>2. Queues[side][p][n].resting = ref
  BY DEF PriceTime!Rests
<1>3. CASE HasIndex(p)
  <2>1. index(p) \in LevelIdx
    BY <1>3, LevelOfPrice
  <2>2. At(levels, side, index(p), n, ref)
    BY <1>1, <1>2, <1>3 DEF At
  <2> QED BY <2>1, <2>2 DEF Indexed, IndexOK
<1>4. CASE ~HasIndex(p)
  BY <1>1, <1>4, EmptySeq
<1> QED BY <1>3, <1>4

\* A request at work is a taker.
LEMMA WorkerIs ==
    ASSUME TwoSides, NoWorker, TypeOK, pc # "idle"
    PROVE  /\ req \in OrderRequest
           /\ req.ref \in Refs /\ req.side \in BookSide /\ req.limit_price \in Prices
           /\ remaining \in Nat
           /\ Worker = [ref |-> req.ref, side |-> req.side, limit_price |-> req.limit_price,
                        remaining |-> remaining]
           /\ Worker # None
<1>1. req \in OrderRequest /\ req # None /\ remaining \in Nat
  BY DEF TypeOK
<1>2. req.ref \in Refs /\ req.side \in BookSide /\ req.limit_price \in Prices
  BY <1>1 DEF OrderRequest, TwoSides
<1>3. Worker = [ref |-> req.ref, side |-> req.side, limit_price |-> req.limit_price,
                remaining |-> remaining]
  BY <1>1 DEF Worker
<1>4. Worker \in PriceTime!Taker
  BY <1>1, <1>2, <1>3, SameVocabulary DEF PriceTime!Taker
<1> QED BY <1>1, <1>2, <1>3, <1>4 DEF NoWorker

\* And back, when there is none.
LEMMA NoneAtWork == ASSUME TypeOK, pc = "idle" PROVE Worker = None
  BY DEF TypeOK, Worker
-----------------------------------------------------------------------------
(***************************************************************************)
(* Each step of the book                                                   *)
(***************************************************************************)
\* An empty book is an empty promise.
LEMMA InitMaps == Init => PriceTime!Init
<1> SUFFICES ASSUME Init PROVE PriceTime!Init
  OBVIOUS
<1>1. \A side \in BookSide, i \in LevelIdx : levels[side][i].orders = <<>>
  BY DEF Init
<1>2. Queues = [side \in BookSide |-> [p \in Prices |-> <<>>]]
  BY <1>1, LevelOfPrice, QueuesAreLists DEF ListsOf
<1>3. Worker = None
  BY DEF Init, Worker
<1> QED BY <1>2, <1>3, SameVocabulary DEF Init, PriceTime!Init

\* submit begins.
LEMMA SubmitMaps ==
    ASSUME RInv, NEW request \in OrderRequest, Submit(request)
    PROVE  PriceTime!Arrive(request.ref, request.side, request.qty, request.limit_price)
<1>1. Worker = None
  BY NoneAtWork DEF RInv, IInv, Submit
<1>2. Worker' = [ref |-> request.ref, side |-> request.side,
                 limit_price |-> request.limit_price, remaining |-> request.qty]
  BY NoneAssumption DEF Submit, Worker
<1>3. ~PriceTime!InBook(request.ref)
  BY NotInBook DEF RInv, Summed, Submit
<1>4. Queues' = Queues
  BY QueuesAreLists DEF Submit, book
<1>5. request.limit_price \in InWindow
  BY WindowIs DEF Submit, OrderRequest
<1> QED BY <1>1, <1>2, <1>3, <1>4, <1>5 DEF Submit, PriceTime!Arrive

\* A price off the window is turned away.
LEMMA SubmitRefusedMaps ==
    ASSUME RInv, NEW request \in OrderRequest, SubmitRefused(request)
    PROVE  PriceTime!Refuse(request.ref, request.limit_price)
<1>1. Worker = None
  BY NoneAtWork DEF RInv, IInv, SubmitRefused
<1>2. Worker' = Worker /\ Queues' = Queues
  BY QueuesAreLists DEF SubmitRefused, book, locals, Worker
<1>3. ~PriceTime!InBook(request.ref)
  BY NotInBook DEF RInv, Summed, SubmitRefused
<1>4. request.limit_price \notin InWindow
  BY WindowIs DEF SubmitRefused
<1> QED BY <1>1, <1>2, <1>3, <1>4 DEF SubmitRefused, PriceTime!Refuse

\* The loops go round and end: nothing the promise speaks of.
LEMMA LoopMaps ==
    ASSUME EnterLevel \/ LeaveLevel
    PROVE  UNCHANGED PriceTime!vars
<1>1. Queues' = Queues
  BY QueuesAreLists DEF EnterLevel, LeaveLevel, book
<1> QED BY <1>1 DEF EnterLevel, LeaveLevel, Worker, PriceTime!vars

\* A submit that is filled.
LEMMA SubmitFilledMaps ==
    ASSUME TwoSides, NoWorker, RInv, SubmitFilled
    PROVE  PriceTime!Done
<1>1. Worker # None /\ Worker.remaining = 0
  BY WorkerIs DEF RInv, IInv, SubmitFilled
<1>2. Worker' = None /\ Queues' = Queues
  BY QueuesAreLists DEF SubmitFilled, Return, book, Worker
<1> QED BY <1>1, <1>2 DEF SubmitFilled, Return, book, PriceTime!Done

\* A cancel that finds nothing.
LEMMA CancelUnknownMaps ==
    ASSUME RInv, NEW ref, CancelUnknown(ref)
    PROVE  PriceTime!CancelUnknown(ref)
<1>1. Worker = None
  BY NoneAtWork DEF RInv, IInv, CancelUnknown
<1>2. Worker' = Worker /\ Queues' = Queues
  BY QueuesAreLists DEF CancelUnknown, book, locals, Worker
<1>3. ~PriceTime!InBook(ref)
  BY NotInBook DEF RInv, Summed, CancelUnknown
<1> QED BY <1>1, <1>2, <1>3 DEF CancelUnknown, PriceTime!CancelUnknown

\* Outside the inner loop a queue that is not empty has its bit set, so it is
\* no better than the hint.
LEMMA TouchMeansBest ==
    ASSUME IInv, NEW side \in BookSide, NEW q \in Prices, Queues[side][q] # <<>>,
           pc = "level" /\ side = Opposite(req.side) => index(q) # cur
    PROVE  /\ HasIndex(q) /\ index(q) \in LevelIdx
           /\ best_idx[side] \in LevelIdx
           /\ ~Better(side, index(q), best_idx[side])
<1>1. HasIndex(q) /\ levels[side][index(q)].orders # <<>>
  BY QueuesAreLists DEF ListsOf
<1>2. index(q) \in LevelIdx
  BY <1>1, LevelOfPrice
<1>3. IsSet(occupied[side], index(q))
  BY <1>1, <1>2 DEF IInv, BitmapAgrees
<1>4. BestBit(side, occupied[side], best_idx[side])
  BY TouchBySide DEF IInv
<1> QED BY <1>1, <1>2, <1>3, <1>4 DEF BestBit

\* The rest of an order joins its queue: there is no touch within its limit.
LEMMA SubmitRestsMaps ==
    ASSUME TwoSides, NoWorker, RInv, SubmitRests
    PROVE  PriceTime!Rest
<1> DEFINE side == req.side
           p    == req.limit_price
           i    == index(p)
           lvl  == levels[side][i]
           node == [resting |-> req.ref, remainQty |-> remaining]
           new  == [total_qty |-> lvl.total_qty + remaining, orders |-> Append(lvl.orders, node)]
<1>0. /\ TypeOK /\ IInv /\ levels \in LevelsType /\ pc = "match" /\ side \in BookSide
      /\ HasIndex(p)
      /\ remaining < 0 \/ ~Reaches(cur)
      /\ req' = None /\ returned' = remaining /\ fills' = fills
      /\ remaining # 0
      /\ levels' = WithLevel(levels, side, i, new)
  BY DEF RInv, IInv, TypeOK, LevelsType, AtWork, SubmitRests, Return, WithLevel
<1>1. /\ req \in OrderRequest /\ p \in Prices /\ remaining \in Nat
      /\ Worker = [ref |-> req.ref, side |-> side, limit_price |-> p, remaining |-> remaining]
      /\ Worker # None
  BY <1>0, WorkerIs
<1>2. Worker' = None
  BY <1>0 DEF Worker
<1>3. i \in LevelIdx /\ p = priceAt(i)
  BY <1>0, <1>1, LevelOfPrice
<1>4. ~PriceTime!CanTrade
  <2>1. ASSUME NEW q \in Prices, PriceTime!IsTouch(q) PROVE FALSE
    <3>1. /\ Opposite(side) \in BookSide /\ Queues[Opposite(side)][q] # <<>>
          /\ Crosses(side, p, q)
      BY <2>1, <1>1, OppositeSide, SameVocabulary DEF PriceTime!IsTouch
    <3>2. /\ HasIndex(q) /\ index(q) \in LevelIdx /\ cur \in LevelIdx
          /\ ~Better(Opposite(side), index(q), cur)
      BY <3>1, <1>0, TouchMeansBest DEF cur
    <3>3. Crosses(side, i, index(q))
      <4>1. priceAt(index(q)) = q
        BY <3>2, LevelOfPrice
      <4> QED BY <4>1, <3>1, <3>2, <1>0, <1>1, PricesAsLevels
    <3>4. ~Crosses(side, i, cur)
      <4>1. cur # kNone
        BY <3>2, BitmapAssumption DEF kNone, LevelIdx
      <4> QED BY <4>1, <1>0, <1>1 DEF Reaches
    <3>5. cur \in Int /\ i \in Int /\ index(q) \in Int
      BY <3>2, <1>3, BitmapAssumption DEF LevelIdx
    <3> HIDE DEF i
    <3> QED BY <3>2, <3>3, <3>4, <3>5, <1>0 DEF Crosses, Better, Opposite, BookSide, Buy, Sell
  <2> QED BY <2>1 DEF PriceTime!CanTrade
<1>5. ~PriceTime!Full
  BY DEF PriceTime!Full, PriceTime!Unlimited
<1>6. Queues' = [Queues EXCEPT ![side][p] = Append(Queues[side][p], node)]
  <2>1. ListsOf(levels') = WithList(levels, side, p, new.orders)
    <3> HIDE DEF new, side, i, p
    <3> QED BY <1>0, <1>1, <1>3, OneList
  <2>2. Queues[side][p] = lvl.orders
    BY <1>0, <1>1, QueuesAreLists DEF ListsOf
  <2>3. new.orders = Append(Queues[side][p], node)
    BY <2>2
  <2> HIDE DEF new, node, side, p
  <2> QED BY <2>1, <2>3, QueuesAreLists DEF WithList
<1> QED BY <1>0, <1>1, <1>2, <1>4, <1>5, <1>6 DEF PriceTime!Rest

\* A trade: with the front order of the level that the promise calls the touch.
LEMMA FillFrontMaps ==
    ASSUME TwoSides, NoWorker, RInv, FillFront
    PROVE  PriceTime!Trade
<1> DEFINE side    == Opposite(req.side)
           p       == priceAt(cur)
           lvl     == levels[side][cur]
           front   == Head(lvl.orders)
           fillQty == Lesser(remaining, front.remainQty)
           spent   == front.remainQty - fillQty <= 0
           orders  == IF spent THEN Tail(lvl.orders)
                      ELSE [lvl.orders EXCEPT ![1] = [front EXCEPT !.remainQty = @ - fillQty]]
           new     == [total_qty |-> lvl.total_qty - fillQty, orders |-> orders]
<1>0. /\ TypeOK /\ IInv /\ levels \in LevelsType /\ pc = "level" /\ remaining > 0
      /\ lvl.orders # <<>>
      /\ req.side \in BookSide /\ side \in BookSide /\ cur \in LevelIdx
      /\ HasIndex(req.limit_price)
      /\ Crosses(req.side, index(req.limit_price), cur)
  BY OppositeSide DEF RInv, IInv, TypeOK, LevelsType, AtWork, FillFront, WithinLimit
<1>1. /\ fills' = Append(fills, [aggressor |-> req.ref, resting |-> front.resting,
                                 price |-> p, qty |-> fillQty])
      /\ remaining' = remaining - fillQty
      /\ levels' = WithLevel(levels, side, cur, new)
      /\ req' = req /\ returned' = returned
  BY DEF FillFront, WithLevel
<1>2. /\ remaining \in Nat /\ req.limit_price \in Prices
      /\ Worker = [ref |-> req.ref, side |-> req.side, limit_price |-> req.limit_price,
                   remaining |-> remaining]
      /\ Worker # None
  BY <1>0, WorkerIs
<1>3. p \in Prices
  BY <1>0 DEF IInv, Priced
<1>4. Queues[side][p] = lvl.orders
  <2> HIDE DEF side
  <2> QED BY <1>0, <1>3, ListAt, QueuesAreLists
<1>5. front.remainQty \in Nat \ {0} /\ fillQty \in Nat \ {0} /\ fillQty <= front.remainQty
  <2>1. lvl.orders \in Seq(RestingOrder)
    BY <1>0, LevelParts
  <2>2. front \in RestingOrder
    <3> HIDE DEF lvl
    <3> QED BY <2>1, <1>0, HeadTailProperties
  <2>3. front.remainQty \in Nat \ {0}
    BY <2>2 DEF RestingOrder
  <2> QED BY <2>3, <1>0, <1>2 DEF Lesser
<1>6. PriceTime!IsTouch(p)
  <2>1. ASSUME NEW q \in Prices, Better(side, q, p) PROVE Queues[side][q] = <<>>
    <3> SUFFICES ASSUME Queues[side][q] # <<>> PROVE FALSE
      OBVIOUS
    <3>1. HasIndex(q)
      BY QueuesAreLists, <1>0 DEF ListsOf
    <3>2. Better(side, index(q), cur)
      BY <2>1, <3>1, <1>0, PricesAsLevels
    <3>3. index(q) # cur
      BY <3>2, <1>0, BitmapAssumption DEF Better, LevelIdx
    <3>4. ~Better(side, index(q), best_idx[side])
      <4> HIDE DEF side
      <4> QED BY <3>3, <1>0, TouchMeansBest
    <3> QED BY <3>2, <3>4 DEF cur
  <2>2. Crosses(req.side, req.limit_price, p)
    BY <1>0, <1>2, PricesAsLevels
  <2>3. Worker.side = req.side /\ Worker.limit_price = req.limit_price
    BY <1>2
  <2> HIDE DEF lvl, p
  <2> QED BY <2>1, <2>2, <2>3, <1>0, <1>4, SameVocabulary DEF PriceTime!IsTouch
<1>7. Worker' = [Worker EXCEPT !.remaining = remaining - fillQty]
  <2>1. req # None
    BY <1>0 DEF TypeOK
  <2> HIDE DEF fillQty
  <2> QED BY <2>1, <1>1, <1>2 DEF Worker
<1>8. Queues' = [Queues EXCEPT ![side][p] = orders]
  <2>1. new.orders = orders
    OBVIOUS
  <2>2. ListsOf(levels') = WithList(levels, side, p, new.orders)
    <3> HIDE DEF new, side
    <3> QED BY <1>0, <1>1, <1>3, OneList
  <2> HIDE DEF new, orders, side, p
  <2> QED BY <2>1, <2>2, QueuesAreLists DEF WithList
<1>9. orders = IF front.remainQty = fillQty THEN Tail(Queues[side][p])
               ELSE [Queues[side][p] EXCEPT ![1] = [front EXCEPT !.remainQty = @ - fillQty]]
  <2>1. spent <=> front.remainQty = fillQty
    <3> HIDE DEF front, fillQty
    <3> QED BY <1>5
  <2> HIDE DEF front, fillQty, spent
  <2> QED BY <2>1, <1>4
<1>10. Head(Queues[side][p]) = front /\ Worker.remaining = remaining /\ Worker.ref = req.ref
  BY <1>2, <1>4
<1> HIDE DEF orders, front, fillQty, p
<1>11. \E q \in Prices :
         LET f   == Head(Queues[side][q])
             qty == Lesser(Worker.remaining, f.remainQty)
         IN  /\ PriceTime!IsTouch(q)
             /\ Worker' = [Worker EXCEPT !.remaining = Worker.remaining - qty]
             /\ Queues' = [Queues EXCEPT ![side][q] =
                    IF f.remainQty = qty THEN Tail(Queues[side][q])
                    ELSE [Queues[side][q] EXCEPT ![1] = [f EXCEPT !.remainQty = @ - qty]]]
             /\ fills' = Append(fills, [aggressor |-> Worker.ref, resting |-> f.resting,
                                        price |-> q, qty |-> qty])
  <2>1. fillQty = Lesser(Worker.remaining, Head(Queues[side][p]).remainQty)
    BY <1>10 DEF fillQty
  <2>2. p \in Prices
    BY <1>3 DEF p
  <2> HIDE DEF side
  <2>3. WITNESS p \in Prices
  <2> QED BY <2>1, <1>1, <1>6, <1>7, <1>8, <1>9, <1>10
<1>12. Opposite(Worker.side) = side
  BY <1>2
<1> QED BY <1>0, <1>1, <1>2, <1>10, <1>11, <1>12, SameVocabulary DEF PriceTime!Trade

\* cancel takes the node out of its queue and returns what was left of it.
LEMMA CancelMaps ==
    ASSUME RInv, NEW ref, Cancel(ref)
    PROVE  PriceTime!Cancel(ref)
<1> DEFINE side == refMap[ref].side
           i    == refMap[ref].index
           p    == priceAt(i)
           lvl  == levels[side][i]
           s    == lvl.orders
           rest(k) == SubSeq(s, 1, k - 1) \o SubSeq(s, k + 1, Len(s))
           less(k) == [total_qty |-> lvl.total_qty - s[k].remainQty, orders |-> rest(k)]
<1>0. /\ TypeOK /\ IInv /\ levels \in LevelsType /\ refMap[ref] \in ArrayLocator
      /\ pc = "idle" /\ req' = req /\ remaining' = remaining /\ fills' = fills
  BY DEF RInv, IInv, TypeOK, LevelsType, Cancel, locals
<1>1. side \in BookSide /\ i \in LevelIdx
  BY <1>0 DEF ArrayLocator
<1>2. PICK k \in 1..Len(s) : /\ s[k].resting = ref /\ returned' = s[k].remainQty
                             /\ levels' = WithLevel(levels, side, i, less(k))
  BY DEF Cancel, WithLevel
<1>3. s \in Seq(RestingOrder)
  BY <1>0, <1>1, LevelParts
<1>4. p \in Prices
  <2>1. s # <<>>
    <3> HIDE DEF s
    <3> QED BY <1>2, EmptySeq
  <2> QED BY <2>1, <1>0, <1>1 DEF IInv, Priced
<1>5. Queues[side][p] = s
  <2> HIDE DEF side, i
  <2> QED BY <1>1, <1>4, ListAt, QueuesAreLists
<1> DEFINE new == less(k)
<1>6. new.orders = rest(k)
  OBVIOUS
<1>7. Queues' = [Queues EXCEPT ![side][p] = rest(k)]
  <2>1. levels' = WithLevel(levels, side, i, new)
    BY <1>2
  <2> HIDE DEF new, rest, side, i
  <2>2. ListsOf(levels') = WithList(levels, side, p, new.orders)
    BY <2>1, <1>0, <1>1, <1>4, OneList
  <2> HIDE DEF p
  <2> QED BY <2>2, <1>6, QueuesAreLists DEF WithList
<1>8. Worker = None /\ Worker' = Worker
  BY <1>0, NoneAtWork DEF Worker
<1> HIDE DEF new, less, side, p, s
<1>9. \E sd \in BookSide, q \in Prices : \E n \in 1..Len(Queues[sd][q]) :
        /\ PriceTime!Rests(ref, sd, q, n)
        /\ Queues' = [Queues EXCEPT ![sd][q] = SubSeq(@, 1, n - 1) \o SubSeq(@, n + 1, Len(@))]
        /\ returned' = Queues[sd][q][n].remainQty
  <2>1. k \in DOMAIN Queues[side][p] /\ k \in 1..Len(Queues[side][p])
    BY <1>2, <1>3, <1>5, LenProperties
  <2>2. PriceTime!Rests(ref, side, p, k)
    BY <2>1, <1>2, <1>5 DEF PriceTime!Rests
  <2> QED BY <2>1, <2>2, <1>1, <1>2, <1>4, <1>5, <1>7
<1> QED BY <1>0, <1>8, <1>9, SameVocabulary DEF PriceTime!Cancel
-----------------------------------------------------------------------------
(***************************************************************************)
(* The refinement                                                          *)
(***************************************************************************)
\* Every step is a step of the promised book, or changes nothing it has.
LEMMA StepMaps ==
    ASSUME TwoSides, NoWorker
    PROVE  RInv /\ [Next]_vars => [PriceTime!Next]_(PriceTime!vars)
<1> SUFFICES ASSUME RInv, [Next]_vars
             PROVE  PriceTime!Next \/ UNCHANGED PriceTime!vars
  OBVIOUS
<1>1. ASSUME NEW request \in OrderRequest PROVE
        /\ request.ref \in Refs /\ request.side \in BookSide
        /\ request.qty \in Qtys /\ request.limit_price \in Prices
  BY DEF OrderRequest, TwoSides
<1>2. ASSUME NEW request \in OrderRequest, Submit(request) PROVE PriceTime!Next
  BY <1>1, <1>2, SubmitMaps, SameVocabulary DEF PriceTime!Next
<1>3. ASSUME NEW request \in OrderRequest, SubmitRefused(request) PROVE PriceTime!Next
  BY <1>1, <1>3, SubmitRefusedMaps DEF PriceTime!Next
<1>4. CASE EnterLevel \/ LeaveLevel
  BY <1>4, LoopMaps
<1>5. CASE FillFront
  BY <1>5, FillFrontMaps DEF PriceTime!Next, PriceTime!Working
<1>6. CASE SubmitFilled
  BY <1>6, SubmitFilledMaps DEF PriceTime!Next, PriceTime!Working
<1>7. CASE SubmitRests
  BY <1>7, SubmitRestsMaps DEF PriceTime!Next, PriceTime!Working
<1>8. CASE SubmitFallsThrough
  <2>1. req.side \in BookSide
    BY <1>8, WorkerIs DEF RInv, IInv, SubmitFallsThrough
  <2> QED BY <1>8, <2>1 DEF SubmitFallsThrough
<1>9. CASE \E ref \in Refs : Cancel(ref)
  BY <1>9, CancelMaps DEF PriceTime!Next
<1>10. CASE \E ref \in Refs : CancelUnknown(ref)
  BY <1>10, CancelUnknownMaps DEF PriceTime!Next
<1>11. CASE UNCHANGED vars
  <2>1. Queues' = Queues
    BY <1>11, QueuesAreLists DEF vars
  <2> QED BY <1>11, <2>1 DEF vars, Worker, PriceTime!vars
<1> QED BY <1>2, <1>3, <1>4, <1>5, <1>6, <1>7, <1>8, <1>9, <1>10, <1>11 DEF Next, Working

\* ArrayOrderBook::submit and cancel trade and rest as price-time priority
\* demands, over the prices of whatever window, refuse the others whole and
\* return what is promised: the bitmap and the hint change nothing of that.
THEOREM Refinement ==
    ASSUME PositiveQtys, TwoSides, NoWorker PROVE Spec => PriceTime!Spec
<1>1. Init => PriceTime!Init
  BY InitMaps
<1>2. Init => WithinLimit
  BY DEF Init, WithinLimit
<1>3. WithinLimit /\ [Next]_vars => WithinLimit'
  BY WithinLimitStep
<1>4. RInv /\ [Next]_vars => [PriceTime!Next]_(PriceTime!vars)
  BY StepMaps
<1>5. IInv /\ Summed /\ WithinLimit => RInv
  BY DEF RInv
<1> QED BY <1>1, <1>2, <1>3, <1>4, <1>5, Invariance, SummedInvariance, PTL
        DEF Spec, PriceTime!Spec
=============================================================================
