--------------------------- MODULE OrderBook_proofs ---------------------------
(***************************************************************************)
(* Theorems about OrderBook, for every set of references, prices and       *)
(* sides, and every set of quantities within the contract: its invariants, *)
(* and that each of its steps is a step of the book PriceTimeBook promises *)
(* or changes nothing the promise speaks of.                               *)
(***************************************************************************)
EXTENDS OrderBookContract, OrderBookRefines, Lists_proofs, FiniteSetTheorems

-----------------------------------------------------------------------------
(***************************************************************************)
(* Lemmas about the operators of the model                                 *)
(***************************************************************************)
\* Opposite is a side of the book.
LEMMA OppositeSide == ASSUME NEW side PROVE Opposite(side) \in BookSide
  BY DEF Opposite, BookSide

\* std::map / unordered_map erase keeps the type and removes one key.
LEMMA EraseMap ==
    ASSUME NEW K, NEW V, NEW f, MapOf(f, K, V), NEW k
    PROVE  /\ MapOf(Erase(f, k), K, V)
           /\ DOMAIN Erase(f, k) = DOMAIN f \ {k}
           /\ \A x \in DOMAIN f \ {k} : Erase(f, k)[x] = f[x]
  BY DEF MapOf, Erase

\* operator[] followed by an assignment keeps the type and adds one key.
LEMMA PutMap ==
    ASSUME NEW K, NEW V, NEW f, MapOf(f, K, V), NEW k \in K, NEW v \in V
    PROVE  /\ MapOf(Put(f, k, v), K, V)
           /\ DOMAIN Put(f, k, v) = DOMAIN f \cup {k}
           /\ Put(f, k, v)[k] = v
           /\ \A x \in DOMAIN f : x # k => Put(f, k, v)[x] = f[x]
  BY DEF MapOf, Put

\* Assigning a whole side of the book.
LEMMA SetSide ==
    ASSUME NEW L, LevelsOK(L), NEW side \in BookSide, NEW f, MapOf(f, Prices, Level),
           NEW M, M = [L EXCEPT ![side] = f]
    PROVE  /\ LevelsOK(M)
           /\ M[side] = f
           /\ \A other \in BookSide : other # side => M[other] = L[other]
  BY DEF LevelsOK

\* Assigning one level that is already there.
LEMMA SetLevel ==
    ASSUME NEW L, LevelsOK(L), NEW side \in BookSide, NEW p \in DOMAIN L[side],
           NEW lvl \in Level, NEW M, M = [L EXCEPT ![side][p] = lvl]
    PROVE  /\ LevelsOK(M)
           /\ DOMAIN M[side] = DOMAIN L[side]
           /\ M[side][p] = lvl
           /\ \A q \in DOMAIN L[side] : q # p => M[side][q] = L[side][q]
           /\ \A other \in BookSide : other # side => M[other] = L[other]
<1> DEFINE f == [L[side] EXCEPT ![p] = lvl]
<1>1. /\ MapOf(f, Prices, Level)
      /\ DOMAIN f = DOMAIN L[side]
      /\ f[p] = lvl
      /\ \A q \in DOMAIN L[side] : q # p => f[q] = L[side][q]
  BY DEF LevelsOK, MapOf
<1>2. M = [L EXCEPT ![side] = f]
  BY DEF LevelsOK
<1> HIDE DEF f
<1>3. /\ LevelsOK(M)
      /\ M[side] = f
      /\ \A other \in BookSide : other # side => M[other] = L[other]
  BY <1>1, <1>2 DEF LevelsOK
<1> QED BY <1>1, <1>3
-----------------------------------------------------------------------------
(***************************************************************************)
(* Type correctness                                                        *)
(***************************************************************************)
LEMMA InitType == Init => TypeOK
<1> SUFFICES ASSUME Init PROVE TypeOK
  OBVIOUS
<1>1. LevelsOK(levels)
  BY DEF Init, LevelsOK, MapOf, BookSide
<1>2. MapOf(refMap, Refs, Locator)
  BY DEF Init, MapOf
<1> QED BY <1>1, <1>2 DEF Init, TypeOK

\* The level an inner-loop step works on, and the trade it makes.
LEMMA BeginLevel ==
    ASSUME LevelsOK(levels), NEW side \in BookSide, NEW p, IsBegin(side, p)
    PROVE  /\ p \in DOMAIN levels[side]
           /\ levels[side][p] \in Level
           /\ levels[side][p].orders \in Seq(RestingOrder)
           /\ levels[side][p].total_qty \in Int
<1>1. p \in DOMAIN levels[side]
  BY DEF IsBegin
<1>2. levels[side][p] \in Level
  BY <1>1 DEF LevelsOK, MapOf
<1> QED BY <1>1, <1>2 DEF Level

\* The front of a list that is not empty, and what a trade with it leaves on
\* both sides: something is always filled, and nothing goes below zero.
LEMMA FrontOrder ==
    ASSUME NEW orders \in Seq(RestingOrder), orders # <<>>, NEW qty \in Nat, qty > 0
    PROVE  LET front   == Head(orders)
               fillQty == Lesser(qty, front.remainQty)
           IN  /\ 1 \in 1..Len(orders)
               /\ front = orders[1]
               /\ front \in RestingOrder
               /\ front.resting \in Refs
               /\ front.remainQty \in Nat \ {0}
               /\ fillQty \in Nat \ {0}
               /\ qty - fillQty \in Nat
               /\ front.remainQty - fillQty \in Nat
<1>1. Head(orders) \in RestingOrder /\ Head(orders) = orders[1] /\ 1 \in 1..Len(orders)
  BY HeadTailProperties
<1>2. Head(orders).remainQty \in Nat \ {0} /\ Head(orders).resting \in Refs
  BY <1>1 DEF RestingOrder
<1> QED BY <1>1, <1>2 DEF Lesser

\* The list after a trade: its front gone, or with less left of it.
LEMMA TradedOrders ==
    ASSUME NEW orders \in Seq(RestingOrder), orders # <<>>, NEW left \in Nat \ {0}
    PROVE  /\ Tail(orders) \in Seq(RestingOrder)
           /\ [orders EXCEPT ![1] = [Head(orders) EXCEPT !.remainQty = left]] \in Seq(RestingOrder)
           /\ Len([orders EXCEPT ![1] = [Head(orders) EXCEPT !.remainQty = left]]) = Len(orders)
           /\ \A i \in 1..Len(orders) :
                [orders EXCEPT ![1] = [Head(orders) EXCEPT !.remainQty = left]][i].resting =
                    orders[i].resting
<1> DEFINE new == [Head(orders) EXCEPT !.remainQty = left]
<1>1. Head(orders) \in RestingOrder /\ Head(orders) = orders[1] /\ 1 \in 1..Len(orders)
  BY HeadTailProperties
<1>2. new \in RestingOrder /\ new.resting = orders[1].resting
  BY <1>1 DEF RestingOrder
<1>3. Tail(orders) \in Seq(RestingOrder)
  BY HeadTailProperties
<1> HIDE DEF new
<1>4. /\ [orders EXCEPT ![1] = new] \in Seq(RestingOrder)
      /\ Len([orders EXCEPT ![1] = new]) = Len(orders)
      /\ \A i \in 1..Len(orders) : [orders EXCEPT ![1] = new][i] = IF i = 1 THEN new ELSE orders[i]
  BY <1>1, <1>2, ExceptSeq
<1>5. \A i \in 1..Len(orders) : [orders EXCEPT ![1] = new][i].resting = orders[i].resting
  BY <1>2, <1>4
<1> QED BY <1>3, <1>4, <1>5 DEF new

\* The structures after a trade have their types.
LEMMA TradeType ==
    ASSUME TypeOK, NEW p, FillFront(p), req \in OrderRequest
    PROVE  /\ LevelsOK(levels')
           /\ MapOf(refMap', Refs, Locator)
           /\ orders_count' \in [BookSide -> Int]
           /\ remaining' \in Nat
           /\ fills' \in Seq(Fill)
<1> DEFINE side    == Opposite(req.side)
           lvl     == levels[side][p]
           front   == Head(lvl.orders)
           fillQty == Lesser(remaining, front.remainQty)
           left    == front.remainQty - fillQty
<1>1. side \in BookSide
  BY DEF Opposite, BookSide
<1>2. IsBegin(side, p) /\ remaining > 0 /\ lvl.orders # <<>> /\ TradeAt(p)
  BY DEF FillFront
<1>3. LevelsOK(levels) /\ remaining \in Nat /\ MapOf(refMap, Refs, Locator)
  BY DEF TypeOK
<1>4. /\ p \in DOMAIN levels[side]
      /\ lvl.orders \in Seq(RestingOrder)
      /\ lvl.total_qty \in Int
  BY <1>1, <1>2, <1>3, BeginLevel
<1>5. /\ front.resting \in Refs
      /\ fillQty \in Nat \ {0}
      /\ remaining - fillQty \in Nat
      /\ left \in Nat
  BY <1>2, <1>3, <1>4, FrontOrder
<1> DEFINE kept == [lvl.orders EXCEPT ![1] = [front EXCEPT !.remainQty = left]]
           orders == IF left <= 0 THEN Tail(lvl.orders) ELSE kept
           new == [total_qty |-> lvl.total_qty - fillQty, orders |-> orders]
<1>6. orders \in Seq(RestingOrder)
  <2>1. CASE left <= 0
    BY <2>1, <1>2, <1>4, HeadTailProperties
  <2>2. CASE ~(left <= 0)
    <3>1. left \in Nat \ {0}
      BY <2>2, <1>5
    <3>2. kept \in Seq(RestingOrder)
      BY <3>1, <1>2, <1>4, TradedOrders
    <3> QED BY <2>2, <3>2
  <2> QED BY <2>1, <2>2
<1>7. lvl.total_qty - fillQty \in Int
  BY <1>4, <1>5
<1>8. new \in Level
  BY <1>6, <1>7 DEF Level
<1>9. levels' = [levels EXCEPT ![side][p] = new]
  BY <1>2 DEF TradeAt
<1>10. LevelsOK(levels')
  <2> HIDE DEF new, side
  <2> QED BY <1>1, <1>3, <1>4, <1>8, <1>9, SetLevel
<1>11. MapOf(refMap', Refs, Locator)
  <2>1. refMap' = Erase(refMap, front.resting) \/ refMap' = refMap
    BY <1>2 DEF TradeAt
  <2> HIDE DEF front
  <2>2. MapOf(Erase(refMap, front.resting), Refs, Locator)
    BY <1>3, EraseMap
  <2> QED BY <2>1, <2>2, <1>3
<1>12. orders_count' \in [BookSide -> Int]
  <2>1. orders_count' = [orders_count EXCEPT ![side] = @ - 1] \/ orders_count' = orders_count
    BY <1>2 DEF TradeAt
  <2> QED BY <2>1, <1>1 DEF TypeOK
<1>13. remaining' \in Nat
  BY <1>2, <1>5 DEF TradeAt
<1>14. fills' \in Seq(Fill)
  <2> DEFINE fill == [aggressor |-> req.ref, resting |-> front.resting,
                      price |-> p, qty |-> fillQty]
  <2>1. p \in Prices
    BY <1>1, <1>3, <1>4 DEF LevelsOK, MapOf
  <2>2. req.ref \in Refs
    BY DEF OrderRequest
  <2>3. fill \in Fill
    BY <2>1, <2>2, <1>5 DEF Fill
  <2>4. fills' = Append(fills, fill)
    BY <1>2 DEF TradeAt
  <2> QED BY <2>3, <2>4, AppendProperties DEF TypeOK
<1> QED BY <1>10, <1>11, <1>12, <1>13, <1>14

\* The structures after a cancel have their types.
LEMMA RemoveType ==
    ASSUME TypeOK, NEW ref \in DOMAIN refMap,
           refMap[ref].price \in DOMAIN levels[refMap[ref].side],
           NEW i \in 1..Len(levels[refMap[ref].side][refMap[ref].price].orders),
           RemoveNode(ref, i)
    PROVE  /\ LevelsOK(levels')
           /\ orders_count' \in [BookSide -> Int]
           /\ returned' \in Nat
<1> DEFINE side == refMap[ref].side
           p    == refMap[ref].price
           lvl  == levels[side][p]
           qty  == lvl.orders[i].remainQty
           rest == SubSeq(lvl.orders, 1, i - 1) \o SubSeq(lvl.orders, i + 1, Len(lvl.orders))
           new  == [total_qty |-> lvl.total_qty - qty, orders |-> rest]
<1>1. side \in BookSide /\ p \in Prices
  BY DEF TypeOK, MapOf, Locator
<1>2. LevelsOK(levels) /\ MapOf(levels[side], Prices, Level)
  BY <1>1 DEF TypeOK, LevelsOK
<1>3. lvl \in Level
  BY <1>2 DEF MapOf
<1>4. lvl.orders \in Seq(RestingOrder) /\ lvl.total_qty \in Int
  BY <1>3 DEF Level
<1>5. lvl.orders[i] \in RestingOrder
  BY <1>4, ElementOfSeq
<1>6. qty \in Nat
  BY <1>5 DEF RestingOrder
<1>7. rest \in Seq(RestingOrder)
  BY <1>4, NodeOut
<1>8. new \in Level
  BY <1>4, <1>6, <1>7 DEF Level
<1> DEFINE f == IF rest = <<>> THEN Erase(levels[side], p) ELSE Put(levels[side], p, new)
<1>9. MapOf(f, Prices, Level)
  <2> HIDE DEF new, rest
  <2> QED BY <1>1, <1>2, <1>8, EraseMap, PutMap
<1>10. levels' = [levels EXCEPT ![side] = f]
  BY DEF RemoveNode
<1>11. LevelsOK(levels')
  <2> HIDE DEF f, side
  <2> QED BY <1>1, <1>2, <1>9, <1>10, SetSide
<1>12. orders_count' \in [BookSide -> Int] /\ returned' \in Nat
  <2>1. orders_count' = [orders_count EXCEPT ![side] = @ - 1] /\ returned' = qty
    BY DEF RemoveNode
  <2> HIDE DEF side, qty
  <2> QED BY <2>1, <1>1, <1>6 DEF TypeOK
<1> QED BY <1>11, <1>12
-----------------------------------------------------------------------------
(***************************************************************************)
(* The index                                                               *)
(***************************************************************************)
\* The node a locator leads to, one side and price at a time.
Holds(L, side, p, i, r) ==
    /\ p \in DOMAIN L[side]
    /\ i \in 1..Len(L[side][p].orders)
    /\ L[side][p].orders[i].resting = r

\* What IndexAgrees says of the nodes of the book, one node at a time.
LEMMA IndexMeans ==
    ASSUME NEW L, NEW index, MapOf(index, Refs, Locator), IndexOK(L, index)
    PROVE  /\ \A r \in DOMAIN index : \E i : Holds(L, index[r].side, index[r].price, i, r)
           /\ \A side \in BookSide : \A p, i, r :
                Holds(L, side, p, i, r) =>
                  /\ r \in DOMAIN index
                  /\ index[r].side = side
                  /\ index[r].price = p
           /\ \A side \in BookSide : \A p, i, j, r :
                Holds(L, side, p, i, r) /\ Holds(L, side, p, j, r) => i = j
<1>1. ASSUME NEW r \in DOMAIN index
      PROVE  \E i : Holds(L, index[r].side, index[r].price, i, r)
  BY DEF IndexOK, Holds
<1>2. ASSUME NEW side \in BookSide, NEW p, NEW i, NEW r, Holds(L, side, p, i, r)
      PROVE  r \in DOMAIN index /\ index[r].side = side /\ index[r].price = p
  <2>1. /\ p \in DOMAIN L[side]
        /\ i \in 1..Len(L[side][p].orders)
        /\ r = L[side][p].orders[i].resting
    BY <1>2 DEF Holds
  <2>2. r \in DOMAIN index /\ index[r] = [side |-> side, price |-> p]
    BY <2>1 DEF IndexOK
  <2> QED BY <2>2
<1>3. ASSUME NEW side \in BookSide, NEW p, NEW i, NEW j, NEW r,
             Holds(L, side, p, i, r), Holds(L, side, p, j, r)
      PROVE  i = j
  <2>1. /\ p \in DOMAIN L[side]
        /\ i \in 1..Len(L[side][p].orders)
        /\ j \in 1..Len(L[side][p].orders)
        /\ L[side][p].orders[j].resting = L[side][p].orders[i].resting
    BY <1>3 DEF Holds
  <2> QED BY <2>1 DEF IndexOK
<1> QED BY <1>1, <1>2, <1>3

\* And back: what has to be shown of the nodes to have IndexAgrees.
LEMMA IndexFrom ==
    ASSUME NEW L, NEW index, MapOf(index, Refs, Locator),
           \A r \in DOMAIN index : \E i : Holds(L, index[r].side, index[r].price, i, r),
           \A side \in BookSide : \A p, i, r :
             Holds(L, side, p, i, r) =>
               /\ r \in DOMAIN index
               /\ index[r].side = side
               /\ index[r].price = p,
           \A side \in BookSide : \A p, i, j, r :
             Holds(L, side, p, i, r) /\ Holds(L, side, p, j, r) => i = j
    PROVE  IndexOK(L, index)
<1>1. ASSUME NEW r \in DOMAIN index
      PROVE  /\ index[r].price \in DOMAIN L[index[r].side]
             /\ \E i \in 1..Len(L[index[r].side][index[r].price].orders) :
                  L[index[r].side][index[r].price].orders[i].resting = r
  BY DEF Holds
<1>2. ASSUME NEW side \in BookSide, NEW p \in DOMAIN L[side],
             NEW i \in 1..Len(L[side][p].orders)
      PROVE  /\ L[side][p].orders[i].resting \in DOMAIN index
             /\ index[L[side][p].orders[i].resting] = [side |-> side, price |-> p]
             /\ \A j \in 1..Len(L[side][p].orders) :
                  L[side][p].orders[j].resting = L[side][p].orders[i].resting => j = i
  <2> DEFINE r == L[side][p].orders[i].resting
  <2>1. Holds(L, side, p, i, r)
    BY DEF Holds
  <2>2. r \in DOMAIN index /\ index[r].side = side /\ index[r].price = p
    BY <2>1
  <2>3. index[r] \in Locator
    BY <2>2 DEF MapOf
  <2>4. index[r] = [side |-> side, price |-> p]
    BY <2>2, <2>3 DEF Locator
  <2>5. ASSUME NEW j \in 1..Len(L[side][p].orders), L[side][p].orders[j].resting = r
        PROVE  j = i
    <3>1. Holds(L, side, p, j, r)
      BY <2>5 DEF Holds
    <3> QED BY <2>1, <3>1
  <2> QED BY <2>2, <2>4, <2>5
<1> QED BY <1>1, <1>2 DEF IndexOK

\* M is L with one node taken out of the list at p, and with the level erased
\* or not when that was its only node: what FillFront and Cancel do.
NodeTakenOut(L, M, side, p, k) ==
    LET s == L[side][p].orders
    IN  /\ \A other \in BookSide : other # side => M[other] = L[other]
        /\ \A q : q # p => (q \in DOMAIN M[side] <=> q \in DOMAIN L[side])
        /\ \A q \in DOMAIN L[side] : q # p => M[side][q] = L[side][q]
        /\ p \in DOMAIN M[side] =>
             /\ Len(M[side][p].orders) = Len(s) - 1
             /\ \A j \in 1..(Len(s) - 1) :
                  M[side][p].orders[j].resting = IF j < k THEN s[j].resting ELSE s[j + 1].resting
        /\ p \notin DOMAIN M[side] => Len(s) = 1

\* Taking one node out of its list and its ref out of the index keeps the two
\* in step: pop_front in submit, erase in cancel.
LEMMA NodeGone ==
    ASSUME NEW L, LevelsOK(L), NEW index, MapOf(index, Refs, Locator), IndexOK(L, index),
           NEW side \in BookSide, NEW p \in DOMAIN L[side],
           NEW k \in 1..Len(L[side][p].orders),
           NEW M, NodeTakenOut(L, M, side, p, k)
    PROVE  IndexOK(M, Erase(index, L[side][p].orders[k].resting))
<1> DEFINE s  == L[side][p].orders
           r0 == s[k].resting
           new == Erase(index, r0)
<1>0. Len(s) \in Nat
  BY LenProperties DEF LevelsOK, MapOf, Level
<1>1. /\ MapOf(new, Refs, Locator)
      /\ DOMAIN new = DOMAIN index \ {r0}
      /\ \A x \in DOMAIN index \ {r0} : new[x] = index[x]
  BY DEF Erase, MapOf
<1>2. Holds(L, side, p, k, r0)
  BY DEF Holds
<1>3. /\ \A r \in DOMAIN index : \E i : Holds(L, index[r].side, index[r].price, i, r)
      /\ \A sd \in BookSide : \A q, i, r :
           Holds(L, sd, q, i, r) => r \in DOMAIN index /\ index[r].side = sd /\ index[r].price = q
      /\ \A sd \in BookSide : \A q, i, j, r :
           Holds(L, sd, q, i, r) /\ Holds(L, sd, q, j, r) => i = j
  BY IndexMeans
<1>4. \A r \in DOMAIN index : index[r].side \in BookSide
  BY DEF MapOf, Locator
\* Elsewhere nothing has changed.
<1>5. ASSUME NEW sd \in BookSide, NEW q, sd # side \/ q # p, NEW i, NEW r
      PROVE  Holds(M, sd, q, i, r) <=> Holds(L, sd, q, i, r)
  <2>1. CASE sd # side
    BY <2>1 DEF NodeTakenOut, Holds
  <2>2. CASE sd = side
    <3>1. q # p
      BY <2>2, <1>5
    <3>2. (q \in DOMAIN M[side] <=> q \in DOMAIN L[side])
          /\ (q \in DOMAIN L[side] => M[side][q] = L[side][q])
      BY <3>1 DEF NodeTakenOut
    <3> QED BY <2>2, <3>2 DEF Holds
  <2> QED BY <2>1, <2>2
\* At p a node sits where it was or one place nearer the front.
<1>6. ASSUME NEW i, NEW r, Holds(M, side, p, i, r)
      PROVE  /\ Holds(L, side, p, IF i < k THEN i ELSE i + 1, r)
             /\ i \in 1..(Len(s) - 1)
  <2>1. /\ p \in DOMAIN M[side]
        /\ i \in 1..Len(M[side][p].orders)
        /\ M[side][p].orders[i].resting = r
    BY <1>6 DEF Holds
  <2>2. i \in 1..(Len(s) - 1)
        /\ M[side][p].orders[i].resting = IF i < k THEN s[i].resting ELSE s[i + 1].resting
    BY <2>1 DEF NodeTakenOut
  <2>3. (IF i < k THEN i ELSE i + 1) \in 1..Len(s)
    BY <2>2, <1>0
  <2> QED BY <2>1, <2>2, <2>3 DEF Holds
<1>7. ASSUME NEW i, NEW r, Holds(L, side, p, i, r), i # k
      PROVE  Holds(M, side, p, IF i < k THEN i ELSE i - 1, r)
  <2>1. i \in 1..Len(s) /\ s[i].resting = r
    BY <1>7 DEF Holds
  <2>2. Len(s) # 1
    <3>1. SUFFICES ASSUME Len(s) = 1 PROVE FALSE
      OBVIOUS
    <3>2. i \in 1..1 /\ k \in 1..1
      BY <2>1, <3>1
    <3> QED BY <3>2, <1>7
  <2>3. p \in DOMAIN M[side]
    BY <2>2 DEF NodeTakenOut
  <2> DEFINE j == IF i < k THEN i ELSE i - 1
  <2>4. j \in 1..(Len(s) - 1) /\ s[IF j < k THEN j ELSE j + 1].resting = r
    BY <2>1, <1>7, <1>0
  <2>5. Len(M[side][p].orders) = Len(s) - 1
        /\ M[side][p].orders[j].resting = IF j < k THEN s[j].resting ELSE s[j + 1].resting
    <3> HIDE DEF j
    <3> QED BY <2>3, <2>4 DEF NodeTakenOut
  <2>6. M[side][p].orders[j].resting = r
    <3> HIDE DEF j
    <3> QED BY <2>4, <2>5
  <2> QED BY <2>3, <2>4, <2>5, <2>6 DEF Holds
<1>8. ASSUME NEW r \in DOMAIN new
      PROVE  \E i : Holds(M, new[r].side, new[r].price, i, r)
  <2>1. r \in DOMAIN index /\ r # r0 /\ new[r] = index[r]
    BY <1>1
  <2>2. PICK i : Holds(L, index[r].side, index[r].price, i, r)
    BY <2>1, <1>3
  <2>3. CASE index[r].side = side /\ index[r].price = p
    <3>1. i # k
      BY <2>1, <2>2, <2>3, <1>2 DEF Holds
    <3>2. Holds(M, side, p, IF i < k THEN i ELSE i - 1, r)
      BY <3>1, <2>2, <2>3, <1>7
    <3> QED BY <3>2, <2>1, <2>3
  <2>4. CASE ~(index[r].side = side /\ index[r].price = p)
    BY <2>1, <2>2, <2>4, <1>4, <1>5
  <2> QED BY <2>3, <2>4
<1>9. ASSUME NEW sd \in BookSide, NEW q, NEW i, NEW r, Holds(M, sd, q, i, r)
      PROVE  r \in DOMAIN new /\ new[r].side = sd /\ new[r].price = q
  <2>1. r \in DOMAIN index /\ index[r].side = sd /\ index[r].price = q /\ r # r0
    <3>1. CASE sd = side /\ q = p
      <4>1. Holds(L, side, p, IF i < k THEN i ELSE i + 1, r) /\ i \in 1..(Len(s) - 1)
        BY <3>1, <1>6, <1>9
      <4>2. (IF i < k THEN i ELSE i + 1) # k
        BY <4>1, <1>0
      <4>3. r # r0
        BY <4>1, <4>2, <1>2, <1>3
      <4> QED BY <3>1, <4>1, <4>3, <1>3
    <3>2. CASE sd # side \/ q # p
      <4>1. Holds(L, sd, q, i, r)
        BY <3>2, <1>5, <1>9
      <4>2. r \in DOMAIN index /\ index[r].side = sd /\ index[r].price = q
        BY <4>1, <1>3
      <4>3. index[r0].side = side /\ index[r0].price = p
        BY <1>2, <1>3
      <4> QED BY <3>2, <4>2, <4>3
    <3> QED BY <3>1, <3>2
  <2> QED BY <2>1, <1>1
<1>10. ASSUME NEW sd \in BookSide, NEW q, NEW i, NEW j, NEW r,
              Holds(M, sd, q, i, r), Holds(M, sd, q, j, r)
       PROVE  i = j
  <2>1. CASE sd = side /\ q = p
    <3>1. /\ Holds(L, side, p, IF i < k THEN i ELSE i + 1, r)
          /\ Holds(L, side, p, IF j < k THEN j ELSE j + 1, r)
          /\ i \in 1..(Len(s) - 1) /\ j \in 1..(Len(s) - 1)
      BY <2>1, <1>6, <1>10
    <3>2. (IF i < k THEN i ELSE i + 1) = (IF j < k THEN j ELSE j + 1)
      BY <3>1, <1>3
    <3> QED BY <3>1, <3>2, <1>0
  <2>2. CASE sd # side \/ q # p
    <3>1. Holds(L, sd, q, i, r) /\ Holds(L, sd, q, j, r)
      BY <2>2, <1>5, <1>10
    <3> QED BY <3>1, <1>3
  <2> QED BY <2>1, <2>2
<1> HIDE DEF new
<1>11. IndexOK(M, new)
  BY <1>1, <1>8, <1>9, <1>10, IndexFrom
<1> QED BY <1>11 DEF new

\* The lists hold the same refs in the same places: a partial fill, or an
\* empty level erased.
LEMMA NodesKept ==
    ASSUME NEW L, NEW index, MapOf(index, Refs, Locator), IndexOK(L, index), NEW M,
           \A side \in BookSide : \A p, i, r :
             Holds(M, side, p, i, r) <=> Holds(L, side, p, i, r)
    PROVE  IndexOK(M, index)
<1>1. /\ \A r \in DOMAIN index : \E i : Holds(L, index[r].side, index[r].price, i, r)
      /\ \A side \in BookSide : \A p, i, r :
           Holds(L, side, p, i, r) => r \in DOMAIN index /\ index[r].side = side /\ index[r].price = p
      /\ \A side \in BookSide : \A p, i, j, r :
           Holds(L, side, p, i, r) /\ Holds(L, side, p, j, r) => i = j
  BY IndexMeans
<1>2. \A r \in DOMAIN index : index[r].side \in BookSide
  BY DEF MapOf, Locator
<1>3. ASSUME NEW r \in DOMAIN index
      PROVE  \E i : Holds(M, index[r].side, index[r].price, i, r)
  BY <1>1, <1>2
<1>4. ASSUME NEW side \in BookSide, NEW p, NEW i, NEW r, Holds(M, side, p, i, r)
      PROVE  r \in DOMAIN index /\ index[r].side = side /\ index[r].price = p
  BY <1>1, <1>4
<1>5. ASSUME NEW side \in BookSide, NEW p, NEW i, NEW j, NEW r,
             Holds(M, side, p, i, r), Holds(M, side, p, j, r)
      PROVE  i = j
  BY <1>1, <1>5
<1> QED BY <1>3, <1>4, <1>5, IndexFrom

\* M is L with one node put in: what SubmitRests does.
NodePutIn(L, M, side, p, n, r0) ==
    \A sd \in BookSide : \A q, i, r :
        Holds(M, sd, q, i, r) <=>
            Holds(L, sd, q, i, r) \/ (sd = side /\ q = p /\ i = n /\ r = r0)

\* One node more, for a ref the index did not have: the rest of an order.
LEMMA NodeAdded ==
    ASSUME NEW L, NEW index, MapOf(index, Refs, Locator), IndexOK(L, index), NEW M,
           NEW side \in BookSide, NEW p \in Prices, NEW n, NEW r0 \in Refs,
           r0 \notin DOMAIN index, NodePutIn(L, M, side, p, n, r0)
    PROVE  IndexOK(M, Put(index, r0, [side |-> side, price |-> p]))
<1> DEFINE loc == [side |-> side, price |-> p]
           new == Put(index, r0, loc)
<1>1. /\ \A r \in DOMAIN index : \E i : Holds(L, index[r].side, index[r].price, i, r)
      /\ \A sd \in BookSide : \A q, i, r :
           Holds(L, sd, q, i, r) => r \in DOMAIN index /\ index[r].side = sd /\ index[r].price = q
      /\ \A sd \in BookSide : \A q, i, j, r :
           Holds(L, sd, q, i, r) /\ Holds(L, sd, q, j, r) => i = j
  BY IndexMeans
<1>2. \A r \in DOMAIN index : index[r].side \in BookSide
  BY DEF MapOf, Locator
<1>3. loc \in Locator /\ loc.side = side /\ loc.price = p
  BY DEF Locator
<1>4. /\ MapOf(new, Refs, Locator)
      /\ DOMAIN new = DOMAIN index \cup {r0}
      /\ new[r0] = loc
      /\ \A x \in DOMAIN index : new[x] = index[x]
  <2> HIDE DEF loc
  <2> QED BY <1>3 DEF MapOf, Put
<1> HIDE DEF new, loc
<1>5. ASSUME NEW r \in DOMAIN new
      PROVE  \E i : Holds(M, new[r].side, new[r].price, i, r)
  <2>1. CASE r = r0
    BY <2>1, <1>3, <1>4 DEF NodePutIn
  <2>2. CASE r # r0
    BY <2>2, <1>1, <1>2, <1>4 DEF NodePutIn
  <2> QED BY <2>1, <2>2
<1>6. ASSUME NEW sd \in BookSide, NEW q, NEW i, NEW r, Holds(M, sd, q, i, r)
      PROVE  r \in DOMAIN new /\ new[r].side = sd /\ new[r].price = q
  <2>1. CASE Holds(L, sd, q, i, r)
    BY <2>1, <1>1, <1>4
  <2>2. CASE sd = side /\ q = p /\ i = n /\ r = r0
    BY <2>2, <1>3, <1>4
  <2> QED BY <2>1, <2>2, <1>6 DEF NodePutIn
<1>7. ASSUME NEW sd \in BookSide, NEW q, NEW i, NEW j, NEW r,
             Holds(M, sd, q, i, r), Holds(M, sd, q, j, r)
      PROVE  i = j
  <2>1. CASE r = r0
    <3>1. ~Holds(L, sd, q, i, r) /\ ~Holds(L, sd, q, j, r)
      BY <2>1, <1>1
    <3> QED BY <3>1, <1>7 DEF NodePutIn
  <2>2. CASE r # r0
    <3>1. Holds(L, sd, q, i, r) /\ Holds(L, sd, q, j, r)
      BY <2>2, <1>7 DEF NodePutIn
    <3> QED BY <3>1, <1>1
  <2> QED BY <2>1, <2>2
<1>8. IndexOK(M, new)
  BY <1>4, <1>5, <1>6, <1>7, IndexFrom
<1> QED BY <1>8 DEF new, loc
-----------------------------------------------------------------------------
(***************************************************************************)
(* The inductive invariant                                                 *)
(***************************************************************************)
\* The order being worked is not in the index: its ref is unique among live
\* orders, and it is not live yet.
NewRef == pc # "idle" => req.ref \notin DOMAIN refMap

\* The conjuncts of the invariant need each other: a ghost level would let a
\* crossing order rest, and a wrong index would let a trade erase another node.
IInv == TypeOK /\ NewRef /\ NotCrossed /\ NoGhostLevel /\ IndexAgrees

\* An empty book satisfies the invariant.
LEMMA InitInv == Init => IInv
<1> SUFFICES ASSUME Init PROVE IInv
  OBVIOUS
<1>1. TypeOK
  BY InitType
<1>2. pc = "idle" /\ DOMAIN refMap = {} /\ \A side \in BookSide : DOMAIN levels[side] = {}
  BY DEF Init
<1>3. NewRef /\ NotCrossed /\ NoGhostLevel
  BY <1>2 DEF NewRef, NotCrossed, NoGhostLevel, BookSide
<1>4. IndexAgrees
  BY <1>2 DEF IndexAgrees, IndexOK
<1> QED BY <1>1, <1>3, <1>4 DEF IInv

\* Steps that leave the book alone, none of them from inside a level.
LEMMA BookUntouched ==
    ASSUME IInv, pc # "level", UNCHANGED <<levels, refMap>>
    PROVE  NotCrossed' /\ NoGhostLevel' /\ IndexAgrees'
<1>1. NotCrossed'
  BY DEF IInv, NotCrossed
<1>2. IndexAgrees'
  BY DEF IInv, IndexAgrees
<1>3. NoGhostLevel'
  BY DEF IInv, NoGhostLevel
<1> QED BY <1>1, <1>2, <1>3

\* A submit begins: the book is untouched, and its ref is not in the index.
LEMMA SubmitStep ==
    ASSUME IInv, NEW request \in OrderRequest, Submit(request)
    PROVE  IInv'
<1>1. request.qty \in Nat
  BY ContractAssumption DEF OrderRequest
<1>2. TypeOK'
  <2>1. fills' \in Seq(Fill)
    BY EmptySeq DEF Submit
  <2> QED BY <1>1, <2>1, NoneAssumption DEF IInv, TypeOK, Submit
<1>3. NewRef'
  BY DEF Submit, NewRef
<1>4. NotCrossed' /\ NoGhostLevel' /\ IndexAgrees'
  BY BookUntouched DEF Submit
<1> QED BY <1>2, <1>3, <1>4 DEF IInv

\* The outer loop goes round: only pc changes.
LEMMA EnterLevelStep ==
    ASSUME IInv, NEW p \in Prices, EnterLevel(p)
    PROVE  IInv'
<1>1. TypeOK'
  BY DEF IInv, TypeOK, EnterLevel, book
<1>2. NewRef'
  BY DEF IInv, NewRef, EnterLevel, book
<1>3. NotCrossed' /\ NoGhostLevel' /\ IndexAgrees'
  BY BookUntouched DEF EnterLevel, book
<1> QED BY <1>1, <1>2, <1>3 DEF IInv

\* The best level of a side is one.
LEMMA BeginUnique ==
    ASSUME LevelsOK(levels), NEW side \in BookSide, NEW p, NEW q,
           IsBegin(side, p), IsBegin(side, q)
    PROVE  p = q
<1>1. p \in Int /\ q \in Int
  BY PricesAssumption DEF IsBegin, LevelsOK, MapOf
<1> QED BY <1>1 DEF IsBegin, Better

\* A trade: the front node shrinks or leaves, with its index entry.
LEMMA FillFrontStep ==
    ASSUME IInv, NEW p \in Prices, FillFront(p)
    PROVE  IInv'
<1> DEFINE side    == Opposite(req.side)
           lvl     == levels[side][p]
           front   == Head(lvl.orders)
           fillQty == Lesser(remaining, front.remainQty)
           left    == front.remainQty - fillQty
           kept    == [lvl.orders EXCEPT ![1] = [front EXCEPT !.remainQty = left]]
           orders  == IF left <= 0 THEN Tail(lvl.orders) ELSE kept
           new     == [total_qty |-> lvl.total_qty - fillQty, orders |-> orders]
<1>0. /\ TypeOK /\ LevelsOK(levels) /\ MapOf(refMap, Refs, Locator)
      /\ remaining \in Nat
      /\ pc = "level" /\ IsBegin(side, p) /\ remaining > 0 /\ lvl.orders # <<>>
      /\ TradeAt(p)
      /\ pc' = pc /\ req' = req /\ returned' = returned
  BY DEF IInv, TypeOK, FillFront
<1>1. side \in BookSide
  BY DEF Opposite, BookSide
<1>2. req \in OrderRequest
  BY <1>0 DEF TypeOK
<1>3. p \in DOMAIN levels[side] /\ lvl.orders \in Seq(RestingOrder)
  BY <1>0, <1>1, BeginLevel
<1>4. 1 \in 1..Len(lvl.orders) /\ front = lvl.orders[1] /\ left \in Nat
  BY <1>0, <1>3, FrontOrder
<1>5. TypeOK'
  BY <1>0, <1>2, TradeType DEF TypeOK
<1>6. levels' = [levels EXCEPT ![side][p] = new]
  BY <1>0 DEF TradeAt
<1>7. /\ DOMAIN levels'[side] = DOMAIN levels[side]
      /\ levels'[side][p] = new
      /\ \A q \in DOMAIN levels[side] : q # p => levels'[side][q] = levels[side][q]
      /\ \A other \in BookSide : other # side => levels'[other] = levels[other]
  <2> HIDE DEF new, side
  <2> QED BY <1>0, <1>1, <1>3, <1>6 DEF LevelsOK, MapOf
<1>8. NotCrossed'
  BY <1>7, <1>1 DEF IInv, NotCrossed, BookSide
<1>9. \A s \in BookSide : \A q : IsBegin(s, q)' <=> IsBegin(s, q)
  BY <1>7 DEF IsBegin
<1>10. NoGhostLevel'
  <2> SUFFICES ASSUME NEW s \in BookSide, NEW q \in DOMAIN levels'[s],
                      levels'[s][q].orders = <<>>
               PROVE  s = side /\ IsBegin(s, q)
    BY <1>0, <1>9 DEF NoGhostLevel
  <2>1. CASE s = side /\ q = p
    BY <2>1, <1>0
  <2>2. CASE ~(s = side /\ q = p)
    <3>1. q \in DOMAIN levels[s] /\ levels[s][q].orders = <<>>
      BY <2>2, <1>7
    <3> QED BY <3>1 DEF IInv, NoGhostLevel
  <2> QED BY <2>1, <2>2
<1>11. new.orders = orders
  OBVIOUS
<1>12. IndexAgrees' /\ NewRef'
  <2>1. CASE left <= 0
    <3>1. refMap' = Erase(refMap, lvl.orders[1].resting)
      BY <2>1, <1>0, <1>4 DEF TradeAt
    <3>2. /\ orders = Tail(lvl.orders)
          /\ Len(orders) = Len(lvl.orders) - 1
          /\ \A j \in 1..(Len(lvl.orders) - 1) : orders[j] = lvl.orders[j + 1]
      BY <2>1, <1>0, <1>3, HeadTailProperties
    <3>3. NodeTakenOut(levels, levels', side, p, 1)
      <4>1. p \in DOMAIN levels'[side] /\ levels'[side][p].orders = orders
        BY <1>3, <1>7, <1>11
      <4>2. \A j \in 1..(Len(lvl.orders) - 1) :
              orders[j].resting = IF j < 1 THEN lvl.orders[j].resting
                                  ELSE lvl.orders[j + 1].resting
        <5> HIDE DEF orders, lvl
        <5>1. Len(lvl.orders) \in Nat
          BY <1>3, LenProperties
        <5> QED BY <3>2, <5>1
      <4> HIDE DEF orders, side, new
      <4> QED BY <4>1, <4>2, <3>2, <1>7 DEF NodeTakenOut
    <3>4. IndexAgrees'
      <4> HIDE DEF side
      <4> QED BY <3>1, <3>3, <1>0, <1>1, <1>3, <1>4, NodeGone DEF IInv, IndexAgrees
    <3>5. NewRef'
      <4>1. DOMAIN refMap' \subseteq DOMAIN refMap
        BY <3>1 DEF Erase
      <4> QED BY <4>1, <1>0 DEF IInv, NewRef
    <3> QED BY <3>4, <3>5
  <2>2. CASE ~(left <= 0)
    <3>1. refMap' = refMap
      BY <2>2, <1>0 DEF TradeAt
    <3>2. /\ orders = kept
          /\ Len(kept) = Len(lvl.orders)
          /\ \A i \in 1..Len(lvl.orders) : kept[i].resting = lvl.orders[i].resting
      <4>1. left \in Nat \ {0}
        BY <2>2, <1>4
      <4> HIDE DEF left
      <4> QED BY <4>1, <2>2, <1>0, <1>3, TradedOrders
    <3>3. \A s \in BookSide : \A q, i, r : Holds(levels', s, q, i, r) <=> Holds(levels, s, q, i, r)
      <4> TAKE s \in BookSide
      <4> TAKE q, i, r
      <4>1. CASE s = side /\ q = p
        <5>1. p \in DOMAIN levels'[side] /\ levels'[side][p].orders = kept
          BY <3>2, <1>3, <1>7, <1>11
        <5> HIDE DEF kept, side, new
        <5> QED BY <4>1, <5>1, <3>2, <1>3 DEF Holds
      <4>2. CASE ~(s = side /\ q = p)
        <5> HIDE DEF side, new
        <5> QED BY <4>2, <1>7 DEF Holds
      <4> QED BY <4>1, <4>2
    <3>4. IndexAgrees'
      BY <3>1, <3>3, <1>0, NodesKept DEF IInv, IndexAgrees
    <3>5. NewRef'
      BY <3>1, <1>0 DEF IInv, NewRef
    <3> QED BY <3>4, <3>5
  <2> QED BY <2>1, <2>2
<1> QED BY <1>5, <1>8, <1>10, <1>12 DEF IInv

\* The inner loop ends: a drained level is erased, so no ghost remains.
LEMMA LeaveLevelStep ==
    ASSUME IInv, NEW p \in Prices, LeaveLevel(p)
    PROVE  IInv'
<1> DEFINE side    == Opposite(req.side)
           drained == levels[side][p].orders = <<>>
<1>0. /\ TypeOK /\ LevelsOK(levels) /\ MapOf(refMap, Refs, Locator)
      /\ pc = "level" /\ IsBegin(side, p)
      /\ levels' = IF drained THEN [levels EXCEPT ![side] = Erase(@, p)] ELSE levels
      /\ pc' = "match"
      /\ UNCHANGED <<refMap, orders_count, req, remaining, fills, returned>>
  BY DEF IInv, TypeOK, LeaveLevel
<1>1. side \in BookSide
  BY DEF Opposite, BookSide
<1>2. p \in DOMAIN levels[side] /\ levels[side][p].orders \in Seq(RestingOrder)
  BY <1>0, <1>1, BeginLevel
<1>3. /\ LevelsOK(levels')
      /\ \A s \in BookSide : \A q \in DOMAIN levels'[s] :
           q \in DOMAIN levels[s] /\ levels'[s][q] = levels[s][q]
      /\ \A s \in BookSide : \A q \in DOMAIN levels[s] :
           q \in DOMAIN levels'[s] <=> ~(drained /\ s = side /\ q = p)
  <2>1. CASE ~drained
    BY <2>1, <1>0
  <2>2. CASE drained
    <3> DEFINE f == Erase(levels[side], p)
    <3>1. /\ MapOf(f, Prices, Level)
          /\ DOMAIN f = DOMAIN levels[side] \ {p}
          /\ \A q \in DOMAIN f : f[q] = levels[side][q]
      BY <1>0, <1>1 DEF LevelsOK, MapOf, Erase
    <3>2. levels' = [levels EXCEPT ![side] = f]
      BY <2>2, <1>0
    <3> HIDE DEF f, side
    <3>3. /\ LevelsOK(levels')
          /\ levels'[side] = f
          /\ \A other \in BookSide : other # side => levels'[other] = levels[other]
      BY <3>1, <3>2, <1>0, <1>1 DEF LevelsOK
    <3> QED BY <3>1, <3>3, <2>2, <1>1
  <2> QED BY <2>1, <2>2
<1>4. TypeOK'
  BY <1>0, <1>3 DEF TypeOK
<1>5. NewRef'
  BY <1>0 DEF IInv, NewRef
<1>6. NotCrossed'
  BY <1>3 DEF IInv, NotCrossed, BookSide
<1>7. NoGhostLevel'
  <2> SUFFICES ASSUME NEW s \in BookSide, NEW q \in DOMAIN levels'[s],
                      levels'[s][q].orders = <<>>
               PROVE  FALSE
    BY DEF NoGhostLevel
  <2>1. q \in DOMAIN levels[s] /\ levels[s][q].orders = <<>> /\ ~(drained /\ s = side /\ q = p)
    BY <1>3
  <2>2. s = side /\ IsBegin(side, q)
    BY <2>1 DEF IInv, NoGhostLevel
  <2>3. q = p
    BY <2>2, <1>0, <1>1, BeginUnique
  <2> QED BY <2>1, <2>2, <2>3
<1>8. IndexAgrees'
  <2>1. \A s \in BookSide : \A q, i, r : Holds(levels', s, q, i, r) <=> Holds(levels, s, q, i, r)
    <3> TAKE s \in BookSide
    <3> TAKE q, i, r
    <3>1. Holds(levels', s, q, i, r) => Holds(levels, s, q, i, r)
      BY <1>3 DEF Holds
    <3>2. ASSUME Holds(levels, s, q, i, r) PROVE Holds(levels', s, q, i, r)
      <4>1. q \in DOMAIN levels[s] /\ i \in 1..Len(levels[s][q].orders)
        BY <3>2 DEF Holds
      <4>2. levels[s][q].orders # <<>>
        BY <4>1, EmptySeq
      <4>3. q \in DOMAIN levels'[s]
        BY <4>1, <4>2, <1>3
      <4> QED BY <4>3, <3>2, <1>3 DEF Holds
    <3> QED BY <3>1, <3>2
  <2> QED BY <2>1, <1>0, NodesKept DEF IInv, IndexAgrees
<1> QED BY <1>4, <1>5, <1>6, <1>7, <1>8 DEF IInv

\* submit returns with nothing left.
LEMMA SubmitFilledStep ==
    ASSUME IInv, SubmitFilled
    PROVE  IInv'
<1>1. TypeOK' /\ NewRef'
  BY DEF IInv, TypeOK, NewRef, SubmitFilled, Return, book
<1>2. NotCrossed' /\ NoGhostLevel' /\ IndexAgrees'
  BY BookUntouched DEF SubmitFilled, book
<1> QED BY <1>1, <1>2 DEF IInv

\* submit of a short side returns without touching the book.
LEMMA SubmitFallsThroughStep ==
    ASSUME IInv, SubmitFallsThrough
    PROVE  IInv'
<1>1. TypeOK' /\ NewRef'
  BY DEF IInv, TypeOK, NewRef, SubmitFallsThrough, Return, book
<1>2. NotCrossed' /\ NoGhostLevel' /\ IndexAgrees'
  BY BookUntouched DEF SubmitFallsThrough, book
<1> QED BY <1>1, <1>2 DEF IInv

\* cancel of an unknown ref touches nothing.
LEMMA CancelUnknownStep ==
    ASSUME IInv, NEW ref \in Refs, CancelUnknown(ref)
    PROVE  IInv'
<1>1. TypeOK' /\ NewRef'
  BY DEF IInv, TypeOK, NewRef, CancelUnknown, book, locals
<1>2. NotCrossed' /\ NoGhostLevel' /\ IndexAgrees'
  BY BookUntouched DEF CancelUnknown, book
<1> QED BY <1>1, <1>2 DEF IInv

\* When the outer loop ends with quantity left, no level of the other side is
\* within the limit, for its best one is not.
LEMMA UnmatchedBeyond ==
    ASSUME LevelsOK(levels), req \in OrderRequest, req.side \in BookSide, remaining \in Nat,
           Unmatched
    PROVE  \A q \in DOMAIN levels[Opposite(req.side)] : ~Crosses(req.side, req.limit_price, q)
<1> DEFINE side == req.side
           p    == req.limit_price
<1>0. p \in Int /\ \A q \in DOMAIN levels[Opposite(side)] : q \in Int
  BY PricesAssumption DEF LevelsOK, MapOf, Opposite, BookSide, OrderRequest
<1>1. CASE DOMAIN levels[Opposite(side)] = {}
  BY <1>1
<1>2. CASE \E q \in Prices : IsBegin(Opposite(side), q) /\ ~Crosses(side, p, q)
  <2>1. PICK q \in Prices : IsBegin(Opposite(side), q) /\ ~Crosses(side, p, q)
    BY <1>2
  <2>2. \A x \in DOMAIN levels[Opposite(side)] : ~Better(Opposite(side), x, q)
    BY <2>1 DEF IsBegin
  <2>3. q \in Int
    BY PricesAssumption
  <2>4. CASE side = Buy
    BY <2>1, <2>2, <2>3, <2>4, <1>0 DEF Crosses, Better, Opposite, Buy, Sell
  <2>5. CASE side = Sell
    BY <2>1, <2>2, <2>3, <2>5, <1>0 DEF Crosses, Better, Opposite, Buy, Sell
  <2> QED BY <2>4, <2>5 DEF BookSide
<1> QED BY <1>1, <1>2 DEF Unmatched

\* The rest of an order joins its level: every opposing level is beyond its
\* limit by then, so the book stays uncrossed.
LEMMA SubmitRestsStep ==
    ASSUME IInv, SubmitRests
    PROVE  IInv'
<1> DEFINE side == req.side
           p    == req.limit_price
           lvl  == LevelOrNew(side, p)
           node == [resting |-> req.ref, remainQty |-> remaining]
           new  == [total_qty |-> lvl.total_qty + remaining, orders |-> Append(lvl.orders, node)]
           loc  == [side |-> side, price |-> p]
           f    == Put(levels[side], p, new)
<1>0. /\ TypeOK /\ LevelsOK(levels) /\ MapOf(refMap, Refs, Locator)
      /\ pc = "match" /\ side \in BookSide
      /\ Unmatched
      /\ levels' = [levels EXCEPT ![side] = f]
      /\ refMap' = Put(refMap, req.ref, loc)
      /\ orders_count' = [orders_count EXCEPT ![side] = @ + 1]
      /\ pc' = "idle" /\ req' = None /\ remaining' = 0 /\ returned' = remaining
      /\ fills' = fills
  BY DEF IInv, TypeOK, SubmitRests, Return
<1>1. req.ref \in Refs /\ p \in Prices
  BY <1>0 DEF TypeOK, OrderRequest
<1>2. remaining \in Nat \ {0}
  <2>1. remaining \in Nat
    BY <1>0 DEF TypeOK
  <2>2. remaining # 0
    BY <1>0 DEF Unmatched
  <2> QED BY <2>1, <2>2
<1>3. lvl \in Level /\ lvl.orders \in Seq(RestingOrder) /\ lvl.total_qty \in Int
  <2>1. CASE p \in DOMAIN levels[side]
    <3>1. levels[side][p] \in Level
      BY <2>1, <1>0 DEF LevelsOK, MapOf
    <3> QED BY <2>1, <3>1 DEF LevelOrNew, Level
  <2>2. CASE p \notin DOMAIN levels[side]
    BY <2>2, EmptySeq DEF LevelOrNew, Level
  <2> QED BY <2>1, <2>2
<1>4. node \in RestingOrder
  BY <1>1, <1>2 DEF RestingOrder
<1>5. /\ new.orders \in Seq(RestingOrder)
      /\ new.orders # <<>>
      /\ Len(new.orders) = Len(lvl.orders) + 1
      /\ \A i \in 1..Len(lvl.orders) : new.orders[i] = lvl.orders[i]
      /\ new.orders[Len(lvl.orders) + 1] = node
  <2> HIDE DEF node, lvl
  <2> QED BY <1>3, <1>4, AppendProperties
<1>6. new \in Level
  BY <1>2, <1>3, <1>5 DEF Level
<1>7. /\ MapOf(f, Prices, Level)
      /\ DOMAIN f = DOMAIN levels[side] \cup {p}
      /\ f[p] = new
      /\ \A q \in DOMAIN levels[side] : q # p => f[q] = levels[side][q]
  <2>1. MapOf(levels[side], Prices, Level)
    BY <1>0 DEF LevelsOK
  <2> HIDE DEF new, side, p
  <2> QED BY <2>1, <1>1, <1>6 DEF MapOf, Put
<1>8. /\ LevelsOK(levels')
      /\ levels'[side] = f
      /\ \A other \in BookSide : other # side => levels'[other] = levels[other]
  <2> HIDE DEF f, side
  <2> QED BY <1>0, <1>7 DEF LevelsOK
<1>9. loc \in Locator
  BY <1>0, <1>1 DEF Locator
<1>10. MapOf(refMap', Refs, Locator)
  <2> HIDE DEF loc
  <2> QED BY <1>0, <1>1, <1>9 DEF MapOf, Put
<1>11. TypeOK'
  <2>1. orders_count' \in [BookSide -> Int]
    BY <1>0 DEF TypeOK
  <2> QED BY <2>1, <1>0, <1>2, <1>8, <1>10 DEF TypeOK
<1>12. NewRef'
  BY <1>0 DEF NewRef
<1>13. \A q \in DOMAIN levels[Opposite(side)] : ~Crosses(side, p, q)
  <2>1. req \in OrderRequest
    BY <1>0 DEF TypeOK
  <2> QED BY <2>1, <1>0, <1>2, UnmatchedBeyond
<1>14. NotCrossed'
  <2>0. p \in Int /\ \A s \in BookSide : \A q \in DOMAIN levels[s] : q \in Int
    BY <1>0, <1>1, PricesAssumption DEF LevelsOK, MapOf
  <2> HIDE DEF f, p
  <2>1. CASE side = Buy
    <3>1. DOMAIN levels'[Buy] = DOMAIN levels[Buy] \cup {p} /\ levels'[Sell] = levels[Sell]
      BY <2>1, <1>7, <1>8 DEF BookSide, Buy, Sell
    <3>2. \A q \in DOMAIN levels[Sell] : p < q
      BY <2>0, <2>1, <1>13 DEF Crosses, Opposite, BookSide, Buy, Sell
    <3> QED BY <3>1, <3>2 DEF IInv, NotCrossed
  <2>2. CASE side = Sell
    <3>1. DOMAIN levels'[Sell] = DOMAIN levels[Sell] \cup {p} /\ levels'[Buy] = levels[Buy]
      BY <2>2, <1>7, <1>8 DEF BookSide, Buy, Sell
    <3>2. \A q \in DOMAIN levels[Buy] : q < p
      BY <2>0, <2>2, <1>13 DEF Crosses, Opposite, BookSide, Buy, Sell
    <3> QED BY <3>1, <3>2 DEF IInv, NotCrossed
  <2> QED BY <2>1, <2>2, <1>0 DEF BookSide
<1>15. NoGhostLevel'
  <2> SUFFICES ASSUME NEW s \in BookSide, NEW q \in DOMAIN levels'[s],
                      levels'[s][q].orders = <<>>
               PROVE  FALSE
    BY DEF NoGhostLevel
  <2>1. ~(s = side /\ q = p)
    <3> HIDE DEF f, new
    <3> QED BY <1>5, <1>7, <1>8
  <2>2. q \in DOMAIN levels[s] /\ levels[s][q].orders = <<>>
    <3> HIDE DEF f, new, side, p
    <3> QED BY <2>1, <1>7, <1>8
  <2> QED BY <2>2, <1>0 DEF IInv, NoGhostLevel
<1>16. IndexAgrees'
  <2> DEFINE n == Len(lvl.orders) + 1
  <2>0. Len(lvl.orders) \in Nat
    BY <1>3, LenProperties
  <2>1. \A s \in BookSide : \A q, i, r :
          Holds(levels', s, q, i, r) <=>
            Holds(levels, s, q, i, r) \/ (s = side /\ q = p /\ i = n /\ r = req.ref)
    <3> TAKE s \in BookSide
    <3> TAKE q, i, r
    <3>1. CASE ~(s = side /\ q = p)
      <4> HIDE DEF f, side, p
      <4> QED BY <3>1, <1>7, <1>8 DEF Holds
    <3>2. CASE s = side /\ q = p
      <4>1. p \in DOMAIN levels'[side] /\ levels'[side][p] = new
        <5> HIDE DEF f, new
        <5> QED BY <1>7, <1>8
      <4>2. Holds(levels', side, p, i, r) <=> i \in 1..n /\ new.orders[i].resting = r
        <5> HIDE DEF new
        <5> QED BY <4>1, <1>5 DEF Holds
      <4>3. Holds(levels, side, p, i, r) <=>
              i \in 1..Len(lvl.orders) /\ lvl.orders[i].resting = r
        <5>1. CASE p \in DOMAIN levels[side]
          BY <5>1 DEF Holds, LevelOrNew
        <5>2. CASE p \notin DOMAIN levels[side]
          BY <5>2, EmptySeq DEF Holds, LevelOrNew
        <5> QED BY <5>1, <5>2
      <4>4. i \in 1..n <=> i \in 1..Len(lvl.orders) \/ i = n
        <5> HIDE DEF lvl
        <5> QED BY <2>0
      <4>5. new.orders[n].resting = req.ref
        <5>1. new.orders[n] = node
          BY <1>5
        <5> QED BY <5>1
      <4>6. n \notin 1..Len(lvl.orders)
        <5> HIDE DEF lvl
        <5> QED BY <2>0
      <4>7. \A k \in 1..Len(lvl.orders) : new.orders[k].resting = lvl.orders[k].resting
        <5> HIDE DEF new, lvl
        <5> QED BY <1>5
      <4> HIDE DEF n, lvl, new, side, p
      <4> QED BY <3>2, <4>2, <4>3, <4>4, <4>5, <4>6, <4>7
    <3> QED BY <3>1, <3>2
  <2>2. req.ref \notin DOMAIN refMap
    BY <1>0 DEF IInv, NewRef
  <2>3. IndexOK(levels, refMap)
    BY DEF IInv, IndexAgrees
  <2>4. IndexOK(levels', Put(refMap, req.ref, [side |-> side, price |-> p]))
    <3> DEFINE M  == levels'
               r0 == req.ref
    <3>1. side \in BookSide /\ p \in Prices /\ r0 \in Refs /\ MapOf(refMap, Refs, Locator)
      BY <1>0, <1>1
    <3>2. NodePutIn(levels, M, side, p, n, r0)
      BY <2>1 DEF NodePutIn
    <3>3. r0 \notin DOMAIN refMap
      BY <2>2
    <3> HIDE DEF n, side, p, M, r0
    <3>4. IndexOK(M, Put(refMap, r0, [side |-> side, price |-> p]))
      BY <3>1, <3>2, <3>3, <2>3, NodeAdded
    <3> QED BY <3>4 DEF M, r0
  <2> QED BY <2>4, <1>0 DEF IndexAgrees
<1> QED BY <1>11, <1>12, <1>14, <1>15, <1>16 DEF IInv

\* cancel of a resting order: its node, its entry and perhaps its level leave.
LEMMA CancelStep ==
    ASSUME IInv, NEW ref \in Refs, Cancel(ref)
    PROVE  IInv'
<1> DEFINE side == refMap[ref].side
           p    == refMap[ref].price
           s    == levels[side][p].orders
<1>0. /\ TypeOK /\ LevelsOK(levels) /\ MapOf(refMap, Refs, Locator)
      /\ IndexOK(levels, refMap)
      /\ pc = "idle" /\ ref \in DOMAIN refMap
      /\ refMap' = Erase(refMap, ref)
      /\ pc' = pc /\ req' = req /\ remaining' = remaining /\ fills' = fills
  BY DEF IInv, IndexAgrees, TypeOK, Cancel, locals
<1>1. side \in BookSide /\ p \in Prices
  BY <1>0 DEF MapOf, Locator
<1>2. p \in DOMAIN levels[side]
  BY <1>0 DEF IndexOK
<1>3. s \in Seq(RestingOrder) /\ Len(s) \in Nat
  <2>1. levels[side][p] \in Level
    BY <1>0, <1>1, <1>2 DEF LevelsOK, MapOf
  <2>2. s \in Seq(RestingOrder)
    BY <2>1 DEF Level
  <2> QED BY <2>2, LenProperties
<1>4. PICK i \in 1..Len(s) : RemoveNode(ref, i)
  BY DEF Cancel
<1> DEFINE rest == SubSeq(s, 1, i - 1) \o SubSeq(s, i + 1, Len(s))
           new  == [total_qty |-> levels[side][p].total_qty - s[i].remainQty, orders |-> rest]
           f    == IF rest = <<>> THEN Erase(levels[side], p) ELSE Put(levels[side], p, new)
<1>5. s[i].resting = ref /\ levels' = [levels EXCEPT ![side] = f]
  BY <1>4 DEF RemoveNode
<1>6. LevelsOK(levels') /\ orders_count' \in [BookSide -> Int] /\ returned' \in Nat
  BY <1>0, <1>2, <1>4, RemoveType
<1>7. /\ rest \in Seq(RestingOrder)
      /\ Len(rest) = Len(s) - 1
      /\ \A j \in 1..Len(rest) : rest[j] = IF j < i THEN s[j] ELSE s[j + 1]
  <2> HIDE DEF s
  <2> QED BY <1>3, NodeOut
<1>8. /\ DOMAIN f = IF rest = <<>> THEN DOMAIN levels[side] \ {p} ELSE DOMAIN levels[side]
      /\ rest # <<>> => f[p] = new
      /\ \A q \in DOMAIN levels[side] : q # p => f[q] = levels[side][q]
  <2> HIDE DEF rest, new, side, p
  <2> QED BY <1>2 DEF Erase, Put
<1>9. /\ levels'[side] = f
      /\ \A other \in BookSide : other # side => levels'[other] = levels[other]
  <2> HIDE DEF f, side
  <2> QED BY <1>0, <1>1, <1>5 DEF LevelsOK
<1>10. new.orders = rest
  OBVIOUS
<1>11. /\ \A q : q # p => (q \in DOMAIN levels'[side] <=> q \in DOMAIN levels[side])
       /\ \A q \in DOMAIN levels[side] : q # p => levels'[side][q] = levels[side][q]
       /\ p \in DOMAIN levels'[side] => rest # <<>> /\ levels'[side][p].orders = rest
       /\ p \notin DOMAIN levels'[side] => rest = <<>>
  <2> HIDE DEF f, rest, new, side, p
  <2> QED BY <1>2, <1>8, <1>9, <1>10
<1>12. TypeOK'
  <2>1. MapOf(refMap', Refs, Locator)
    BY <1>0 DEF MapOf, Erase
  <2> QED BY <2>1, <1>0, <1>6 DEF TypeOK
<1>13. NewRef'
  BY <1>0 DEF NewRef
<1>14. \A sd \in BookSide : DOMAIN levels'[sd] \subseteq DOMAIN levels[sd]
  <2> HIDE DEF f, rest, side, p, s
  <2> QED BY <1>2, <1>9, <1>11
<1>15. NotCrossed'
  BY <1>14 DEF IInv, NotCrossed, BookSide
<1>16. NoGhostLevel'
  <2> SUFFICES ASSUME NEW sd \in BookSide, NEW q \in DOMAIN levels'[sd],
                      levels'[sd][q].orders = <<>>
               PROVE  FALSE
    BY DEF NoGhostLevel
  <2>1. ~(sd = side /\ q = p)
    <3> HIDE DEF rest, side, p
    <3> QED BY <1>11
  <2>2. levels'[sd][q] = levels[sd][q]
    <3> HIDE DEF rest, side, p
    <3> QED BY <2>1, <1>9, <1>11, <1>14
  <2>3. q \in DOMAIN levels[sd] /\ levels[sd][q].orders = <<>>
    BY <2>2, <1>14
  <2> QED BY <2>3, <1>0 DEF IInv, NoGhostLevel
<1>17. IndexAgrees'
  <2>1. Len(rest) = 0 <=> rest = <<>>
    <3> HIDE DEF rest
    <3> QED BY <1>7, EmptySeq
  <2>2. \A j \in 1..(Len(s) - 1) :
          rest[j].resting = IF j < i THEN s[j].resting ELSE s[j + 1].resting
    <3> HIDE DEF rest, s
    <3> QED BY <1>3, <1>7
  <2>3. Len(s) - 1 = 0 => Len(s) = 1
    <3> HIDE DEF s
    <3> QED BY <1>3
  <2> DEFINE M == levels'
  <2>4. NodeTakenOut(levels, M, side, p, i)
    <3> HIDE DEF f, rest, side, p
    <3> QED BY <2>1, <2>2, <2>3, <1>7, <1>9, <1>11 DEF NodeTakenOut
  <2> HIDE DEF M, side, p
  <2>5. IndexOK(M, Erase(refMap, levels[side][p].orders[i].resting))
    BY <2>4, <1>0, <1>1, <1>2, NodeGone
  <2> QED BY <2>5, <1>0, <1>5 DEF IndexAgrees, M
<1> QED BY <1>12, <1>13, <1>15, <1>16, <1>17 DEF IInv

\* Every step keeps the invariant.
LEMMA Inductive == IInv /\ [Next]_vars => IInv'
<1> SUFFICES ASSUME IInv, [Next]_vars PROVE IInv'
  OBVIOUS
<1>1. CASE \E request \in OrderRequest : Submit(request)
  BY <1>1, SubmitStep
<1>2. CASE \E p \in Prices : EnterLevel(p)
  BY <1>2, EnterLevelStep
<1>3. CASE \E p \in Prices : FillFront(p)
  BY <1>3, FillFrontStep
<1>4. CASE \E p \in Prices : LeaveLevel(p)
  BY <1>4, LeaveLevelStep
<1>5. CASE SubmitFilled
  BY <1>5, SubmitFilledStep
<1>6. CASE SubmitRests
  BY <1>6, SubmitRestsStep
<1>7. CASE SubmitFallsThrough
  BY <1>7, SubmitFallsThroughStep
<1>8. CASE \E ref \in Refs : Cancel(ref)
  BY <1>8, CancelStep
<1>9. CASE \E ref \in Refs : CancelUnknown(ref)
  BY <1>9, CancelUnknownStep
<1>10. CASE UNCHANGED vars
  BY <1>10 DEF IInv, TypeOK, NewRef, NotCrossed, NoGhostLevel, IsBegin, IndexAgrees, vars
<1> QED BY <1>1, <1>2, <1>3, <1>4, <1>5, <1>6, <1>7, <1>8, <1>9, <1>10 DEF Next, Working
-----------------------------------------------------------------------------
(***************************************************************************)
(* The counters                                                            *)
(***************************************************************************)
\* The refs the index has on one side, and the counters that go with it.
RefsOn(index, side) == {r \in DOMAIN index : index[r].side = side}
CountOK(index, counts) ==
    \A side \in BookSide : /\ IsFiniteSet(RefsOn(index, side))
                           /\ counts[side] = Cardinality(RefsOn(index, side))
Counted == CountOK(refMap, orders_count)

\* One order less in the index, one less on its counter.
LEMMA CountLess ==
    ASSUME NEW index, MapOf(index, Refs, Locator), NEW counts \in [BookSide -> Int],
           CountOK(index, counts), NEW r \in DOMAIN index, NEW side, side = index[r].side
    PROVE  CountOK(Erase(index, r), [counts EXCEPT ![side] = @ - 1])
<1>1. side \in BookSide
  BY DEF MapOf, Locator
<1>2. /\ RefsOn(Erase(index, r), side) = RefsOn(index, side) \ {r}
      /\ r \in RefsOn(index, side)
  BY DEF RefsOn, Erase
<1>3. /\ IsFiniteSet(RefsOn(index, side) \ {r})
      /\ Cardinality(RefsOn(index, side) \ {r}) = counts[side] - 1
  BY <1>1, <1>2, FS_RemoveElement DEF CountOK
<1>4. ASSUME NEW other \in BookSide, other # side
      PROVE  RefsOn(Erase(index, r), other) = RefsOn(index, other)
  BY <1>4 DEF RefsOn, Erase
<1> QED BY <1>1, <1>2, <1>3, <1>4 DEF CountOK

\* One order more in the index, one more on its counter.
LEMMA CountMore ==
    ASSUME NEW index, NEW counts \in [BookSide -> Int], CountOK(index, counts),
           NEW r, r \notin DOMAIN index, NEW loc \in Locator
    PROVE  CountOK(Put(index, r, loc), [counts EXCEPT ![loc.side] = @ + 1])
<1> DEFINE side == loc.side
<1>1. side \in BookSide
  BY DEF Locator
<1>2. /\ RefsOn(Put(index, r, loc), side) = RefsOn(index, side) \cup {r}
      /\ r \notin RefsOn(index, side)
  BY DEF RefsOn, Put
<1>3. ASSUME NEW other \in BookSide, other # side
      PROVE  RefsOn(Put(index, r, loc), other) = RefsOn(index, other)
  BY <1>3 DEF RefsOn, Put
<1> HIDE DEF side
<1>4. /\ IsFiniteSet(RefsOn(index, side) \cup {r})
      /\ Cardinality(RefsOn(index, side) \cup {r}) = counts[side] + 1
  BY <1>1, <1>2, FS_AddElement DEF CountOK
<1>5. CountOK(Put(index, r, loc), [counts EXCEPT ![side] = @ + 1])
  BY <1>1, <1>2, <1>3, <1>4 DEF CountOK
<1> QED BY <1>5 DEF side

\* submit counts an order down when it takes its ref out of the index.
LEMMA FillFrontCounted == ASSUME IInv, Counted, NEW p \in Prices, FillFront(p) PROVE Counted'
<1> DEFINE side  == Opposite(req.side)
           lvl   == levels[side][p]
           front == Head(lvl.orders)
           spent == front.remainQty - Lesser(remaining, front.remainQty) <= 0
<1>1. /\ LevelsOK(levels) /\ MapOf(refMap, Refs, Locator) /\ orders_count \in [BookSide -> Int]
      /\ IndexOK(levels, refMap) /\ IsBegin(side, p) /\ lvl.orders # <<>>
      /\ refMap' = IF spent THEN Erase(refMap, front.resting) ELSE refMap
      /\ orders_count' = IF spent THEN [orders_count EXCEPT ![side] = @ - 1] ELSE orders_count
  BY DEF IInv, IndexAgrees, TypeOK, FillFront, TradeAt
<1>2. side \in BookSide
  BY DEF Opposite, BookSide
<1>3. p \in DOMAIN levels[side] /\ lvl.orders \in Seq(RestingOrder)
  BY <1>1, <1>2, BeginLevel
<1>4. 1 \in 1..Len(lvl.orders) /\ front = lvl.orders[1]
  <2> HIDE DEF lvl
  <2> QED BY <1>1, <1>3, HeadTailProperties
<1>5. front.resting \in DOMAIN refMap /\ side = refMap[front.resting].side
  <2>1. /\ lvl.orders[1].resting \in DOMAIN refMap
        /\ refMap[lvl.orders[1].resting] = [side |-> side, price |-> p]
    BY <1>1, <1>2, <1>3, <1>4 DEF IndexOK
  <2> QED BY <2>1, <1>4
<1> HIDE DEF side, front, spent
<1>6. CASE spent
  <2>1. CountOK(Erase(refMap, front.resting), [orders_count EXCEPT ![side] = @ - 1])
    BY <1>1, <1>5, CountLess DEF Counted
  <2> QED BY <2>1, <1>1, <1>6 DEF Counted
<1>7. CASE ~spent
  BY <1>1, <1>7 DEF Counted
<1> QED BY <1>6, <1>7

\* submit counts an order up as it enters it in the index, for the first time.
LEMMA SubmitRestsCounted == ASSUME IInv, Counted, SubmitRests PROVE Counted'
<1> DEFINE loc == [side |-> req.side, price |-> req.limit_price]
<1>1. /\ orders_count \in [BookSide -> Int] /\ req \in OrderRequest /\ req.side \in BookSide
      /\ req.ref \notin DOMAIN refMap
      /\ refMap' = Put(refMap, req.ref, loc)
      /\ orders_count' = [orders_count EXCEPT ![loc.side] = @ + 1]
  BY DEF IInv, TypeOK, NewRef, SubmitRests
<1>2. loc \in Locator
  BY <1>1 DEF Locator, OrderRequest
<1> HIDE DEF loc
<1>3. CountOK(Put(refMap, req.ref, loc), [orders_count EXCEPT ![loc.side] = @ + 1])
  BY <1>1, <1>2, CountMore DEF Counted
<1> QED BY <1>1, <1>3 DEF Counted

\* cancel counts down on the side its locator names.
LEMMA CancelCounted == ASSUME IInv, Counted, NEW ref \in Refs, Cancel(ref) PROVE Counted'
<1>1. /\ MapOf(refMap, Refs, Locator) /\ orders_count \in [BookSide -> Int]
      /\ ref \in DOMAIN refMap /\ refMap' = Erase(refMap, ref)
      /\ orders_count' = [orders_count EXCEPT ![refMap[ref].side] = @ - 1]
  BY DEF IInv, TypeOK, Cancel, RemoveNode
<1>2. CountOK(Erase(refMap, ref), [orders_count EXCEPT ![refMap[ref].side] = @ - 1])
  BY <1>1, CountLess DEF Counted
<1> QED BY <1>1, <1>2 DEF Counted

\* Every step keeps the counters.
LEMMA CountedStep == IInv /\ Counted /\ [Next]_vars => Counted'
<1> SUFFICES ASSUME IInv, Counted, [Next]_vars PROVE Counted'
  OBVIOUS
<1>1. CASE \E p \in Prices : FillFront(p)
  BY <1>1, FillFrontCounted
<1>2. CASE SubmitRests
  BY <1>2, SubmitRestsCounted
<1>3. CASE \E ref \in Refs : Cancel(ref)
  BY <1>3, CancelCounted
<1>4. ASSUME refMap' = refMap, orders_count' = orders_count PROVE Counted'
  BY <1>4 DEF Counted
<1>5. CASE \/ \E request \in OrderRequest : Submit(request)
           \/ \E p \in Prices : EnterLevel(p) \/ LeaveLevel(p)
           \/ SubmitFilled \/ SubmitFallsThrough
           \/ \E ref \in Refs : CancelUnknown(ref)
           \/ UNCHANGED vars
  BY <1>4, <1>5 DEF Submit, EnterLevel, LeaveLevel, SubmitFilled, SubmitFallsThrough,
                    CancelUnknown, book, vars
<1> QED BY <1>1, <1>2, <1>3, <1>5 DEF Next, Working

\* Between calls a side has levels exactly if it has orders to count.
LEMMA SideEmpty ==
    ASSUME IInv, Counted, pc = "idle", NEW side \in BookSide
    PROVE  orders_count[side] \in Nat /\ (DOMAIN levels[side] = {} <=> orders_count[side] = 0)
<1>1. /\ LevelsOK(levels) /\ IndexOK(levels, refMap)
      /\ \A p \in DOMAIN levels[side] : levels[side][p].orders # <<>>
  BY DEF IInv, TypeOK, IndexAgrees, NoGhostLevel
<1>2. orders_count[side] \in Nat /\ (orders_count[side] = 0 <=> RefsOn(refMap, side) = {})
  BY FS_CardinalityType, FS_EmptySet DEF Counted, CountOK
<1>3. ASSUME NEW r \in RefsOn(refMap, side) PROVE DOMAIN levels[side] # {}
  BY <1>1 DEF IndexOK, RefsOn
<1>4. ASSUME NEW p \in DOMAIN levels[side] PROVE RefsOn(refMap, side) # {}
  <2>1. levels[side][p].orders \in Seq(RestingOrder) /\ levels[side][p].orders # <<>>
    BY <1>1 DEF LevelsOK, MapOf, Level
  <2>2. 1 \in 1..Len(levels[side][p].orders)
    <3> DEFINE s == levels[side][p].orders
    <3> HIDE DEF s
    <3>1. s \in Seq(RestingOrder) /\ s # <<>> => 1 \in 1..Len(s)
      BY HeadTailProperties
    <3> QED BY <2>1, <3>1 DEF s
  <2>3. /\ levels[side][p].orders[1].resting \in DOMAIN refMap
        /\ refMap[levels[side][p].orders[1].resting] = [side |-> side, price |-> p]
    BY <2>2, <1>1 DEF IndexOK
  <2> QED BY <2>3 DEF RefsOn
<1> QED BY <1>2, <1>3, <1>4
-----------------------------------------------------------------------------
(***************************************************************************)
(* The totals                                                              *)
(***************************************************************************)
\* Each level's total is what its orders have left.
TotalsOK(L) == \A side \in BookSide : \A p \in DOMAIN L[side] :
                   L[side][p].total_qty = TotalLeft(L[side][p].orders)

\* It is what qty_at reports.
LEMMA TotalsMean == TotalsAgree <=> TotalsOK(levels)
  BY DEF TotalsAgree, TotalsOK, qty_at

\* Resting orders have something left.
LEMMA RestingOrders == Orders(RestingOrder)
  BY DEF Orders, RestingOrder

\* A trade takes as much off the total as off the front order.
LEMMA FillFrontTotals ==
    ASSUME IInv, TotalsOK(levels), NEW p \in Prices, FillFront(p)
    PROVE  TotalsOK(levels')
<1> DEFINE side    == Opposite(req.side)
           lvl     == levels[side][p]
           front   == Head(lvl.orders)
           fillQty == Lesser(remaining, front.remainQty)
           left    == front.remainQty - fillQty
           less    == [front EXCEPT !.remainQty = left]
           orders  == IF left <= 0 THEN Tail(lvl.orders) ELSE [lvl.orders EXCEPT ![1] = less]
           new     == [total_qty |-> lvl.total_qty - fillQty, orders |-> orders]
<1>1. /\ LevelsOK(levels) /\ remaining \in Nat /\ remaining > 0 /\ side \in BookSide
      /\ IsBegin(side, p) /\ lvl.orders # <<>>
      /\ levels' = [levels EXCEPT ![side][p] = new]
  BY OppositeSide DEF IInv, TypeOK, FillFront, TradeAt
<1>2. p \in DOMAIN levels[side] /\ lvl.orders \in Seq(RestingOrder) /\ lvl.total_qty \in Int
  BY <1>1, BeginLevel
<1>3. /\ front \in RestingOrder /\ front.remainQty \in Nat \ {0}
      /\ fillQty \in Nat \ {0} /\ left \in Nat
  BY <1>1, <1>2, FrontOrder
<1>4. lvl.total_qty = TotalLeft(lvl.orders)
  BY <1>1, <1>2 DEF TotalsOK
<1>5. TotalLeft(lvl.orders) \in Int
  BY <1>2, RestingOrders, LeftType
<1>6. TotalLeft(orders) = lvl.total_qty - fillQty
  <2>1. CASE left <= 0
    <3>1. fillQty = front.remainQty
      BY <2>1, <1>3
    <3>2. orders = Tail(lvl.orders)
      BY <2>1
    <3>3. TotalLeft(Tail(lvl.orders)) = TotalLeft(lvl.orders) - front.remainQty
      BY <1>1, <1>2, RestingOrders, LeftTail
    <3> HIDE DEF orders, lvl, fillQty, front
    <3> QED BY <3>1, <3>2, <3>3, <1>4
  <2>2. CASE ~(left <= 0)
    <3>1. less \in RestingOrder /\ less.remainQty = left
      <4>1. left \in Nat \ {0} /\ front \in RestingOrder
        BY <2>2, <1>3
      <4> HIDE DEF left, front
      <4> QED BY <4>1 DEF RestingOrder
    <3>2. orders = [lvl.orders EXCEPT ![1] = less]
      BY <2>2
    <3> HIDE DEF less
    <3>3. TotalLeft([lvl.orders EXCEPT ![1] = less]) =
              TotalLeft(lvl.orders) - front.remainQty + less.remainQty
      BY <3>1, <1>1, <1>2, RestingOrders, LeftFront
    <3>4. TotalLeft(orders) = TotalLeft(lvl.orders) - front.remainQty + left
      BY <3>1, <3>2, <3>3
    <3>5. left = front.remainQty - fillQty
      OBVIOUS
    <3> HIDE DEF orders, lvl, fillQty, front, left
    <3> QED BY <3>4, <3>5, <1>3, <1>4, <1>5
  <2> QED BY <2>1, <2>2
<1>7. /\ DOMAIN levels'[side] = DOMAIN levels[side]
      /\ levels'[side][p] = new
      /\ \A q \in DOMAIN levels[side] : q # p => levels'[side][q] = levels[side][q]
      /\ \A other \in BookSide : other # side => levels'[other] = levels[other]
  <2> HIDE DEF new, side
  <2> QED BY <1>1, <1>2 DEF LevelsOK, MapOf
<1>8. new.total_qty = TotalLeft(new.orders)
  BY <1>6
<1> HIDE DEF new, side
<1> QED BY <1>7, <1>8 DEF TotalsOK

\* The levels that stay when one is erased are what they were.
LEMMA LeaveLevelTotals ==
    ASSUME IInv, TotalsOK(levels), NEW p \in Prices, LeaveLevel(p)
    PROVE  TotalsOK(levels')
<1> DEFINE side == Opposite(req.side)
<1>1. LevelsOK(levels) /\ side \in BookSide
  BY OppositeSide DEF IInv, TypeOK
<1>2. levels' = levels \/ levels' = [levels EXCEPT ![side] = Erase(levels[side], p)]
  BY DEF LeaveLevel
<1> HIDE DEF side
<1>3. \A sd \in BookSide : \A q \in DOMAIN levels'[sd] :
        q \in DOMAIN levels[sd] /\ levels'[sd][q] = levels[sd][q]
  BY <1>1, <1>2 DEF LevelsOK, Erase
<1> QED BY <1>3 DEF TotalsOK

\* The level an order joins gains what is left of it.
LEMMA SubmitRestsTotals ==
    ASSUME IInv, TotalsOK(levels), SubmitRests
    PROVE  TotalsOK(levels')
<1> DEFINE side == req.side
           p    == req.limit_price
           lvl  == LevelOrNew(side, p)
           node == [resting |-> req.ref, remainQty |-> remaining]
           new  == [total_qty |-> lvl.total_qty + remaining, orders |-> Append(lvl.orders, node)]
<1>1. /\ LevelsOK(levels) /\ side \in BookSide /\ req \in OrderRequest
      /\ remaining \in Nat \ {0}
      /\ levels' = [levels EXCEPT ![side] = Put(levels[side], p, new)]
  BY DEF IInv, TypeOK, SubmitRests, Unmatched
<1>2. node \in RestingOrder /\ node.remainQty = remaining
  BY <1>1 DEF RestingOrder, OrderRequest
<1>3. lvl.orders \in Seq(RestingOrder) /\ lvl.total_qty = TotalLeft(lvl.orders)
  <2>1. CASE p \in DOMAIN levels[side]
    <3>1. levels[side][p] \in Level
      BY <2>1, <1>1 DEF LevelsOK, MapOf
    <3> QED BY <3>1, <2>1, <1>1 DEF LevelOrNew, Level, TotalsOK
  <2>2. CASE p \notin DOMAIN levels[side]
    <3>1. lvl.orders = <<>> /\ lvl.total_qty = 0
      BY <2>2 DEF LevelOrNew
    <3>2. <<>> \in Seq(RestingOrder)
      BY EmptySeq
    <3>3. TotalLeft(<<>>) = 0
      BY <3>2, RestingOrders, LeftType
    <3> QED BY <3>1, <3>2, <3>3
  <2> QED BY <2>1, <2>2
<1> HIDE DEF node
<1>4. TotalLeft(Append(lvl.orders, node)) = lvl.total_qty + remaining
  BY <1>2, <1>3, RestingOrders, LeftMore
<1>5. new.total_qty = TotalLeft(new.orders)
  BY <1>4
<1> HIDE DEF new, side, p, lvl
<1>6. \A sd \in BookSide : \A q \in DOMAIN levels'[sd] :
        \/ levels'[sd][q] = new
        \/ q \in DOMAIN levels[sd] /\ levels'[sd][q] = levels[sd][q]
  BY <1>1 DEF LevelsOK, Put
<1> QED BY <1>5, <1>6 DEF TotalsOK

\* The level an order is cancelled in loses what was left of it.
LEMMA CancelTotals ==
    ASSUME IInv, TotalsOK(levels), NEW ref \in Refs, Cancel(ref)
    PROVE  TotalsOK(levels')
<1> DEFINE side == refMap[ref].side
           p    == refMap[ref].price
           lvl  == levels[side][p]
<1>1. /\ LevelsOK(levels) /\ MapOf(refMap, Refs, Locator) /\ IndexOK(levels, refMap)
      /\ ref \in DOMAIN refMap
  BY DEF IInv, IndexAgrees, TypeOK, Cancel
<1>2. side \in BookSide /\ p \in DOMAIN levels[side]
  BY <1>1 DEF MapOf, Locator, IndexOK
<1>3. lvl.orders \in Seq(RestingOrder) /\ lvl.total_qty = TotalLeft(lvl.orders)
  <2>1. lvl \in Level
    BY <1>1, <1>2 DEF LevelsOK, MapOf
  <2> QED BY <2>1, <1>2 DEF Level, TotalsOK
<1>4. PICK i \in 1..Len(lvl.orders) : RemoveNode(ref, i)
  BY DEF Cancel
<1> DEFINE rest == SubSeq(lvl.orders, 1, i - 1) \o SubSeq(lvl.orders, i + 1, Len(lvl.orders))
           new  == [total_qty |-> lvl.total_qty - lvl.orders[i].remainQty, orders |-> rest]
<1>5. levels' = [levels EXCEPT ![side] =
          IF rest = <<>> THEN Erase(levels[side], p) ELSE Put(levels[side], p, new)]
  BY <1>4 DEF RemoveNode
<1>6. new.total_qty = TotalLeft(new.orders)
  <2> HIDE DEF lvl
  <2> QED BY <1>3, RestingOrders, LeftOut
<1> HIDE DEF new, side, p, rest
<1>7. \A sd \in BookSide : \A q \in DOMAIN levels'[sd] :
        \/ levels'[sd][q] = new
        \/ q \in DOMAIN levels[sd] /\ levels'[sd][q] = levels[sd][q]
  BY <1>1, <1>2, <1>5 DEF LevelsOK, Put, Erase
<1> QED BY <1>6, <1>7 DEF TotalsOK

\* Every step keeps the totals.
LEMMA TotalsStep == IInv /\ TotalsOK(levels) /\ [Next]_vars => TotalsOK(levels')
<1> SUFFICES ASSUME IInv, TotalsOK(levels), [Next]_vars PROVE TotalsOK(levels')
  OBVIOUS
<1>1. CASE \E p \in Prices : FillFront(p)
  BY <1>1, FillFrontTotals
<1>2. CASE \E p \in Prices : LeaveLevel(p)
  BY <1>2, LeaveLevelTotals
<1>3. CASE SubmitRests
  BY <1>3, SubmitRestsTotals
<1>4. CASE \E ref \in Refs : Cancel(ref)
  BY <1>4, CancelTotals
<1>5. CASE \/ \E request \in OrderRequest : Submit(request)
           \/ \E p \in Prices : EnterLevel(p)
           \/ SubmitFilled \/ SubmitFallsThrough
           \/ \E ref \in Refs : CancelUnknown(ref)
           \/ UNCHANGED vars
  BY <1>5 DEF Submit, EnterLevel, SubmitFilled, SubmitFallsThrough, CancelUnknown, book, vars
<1> QED BY <1>1, <1>2, <1>3, <1>4, <1>5 DEF Next, Working

-----------------------------------------------------------------------------
(***************************************************************************)
(* Theorems of the specification                                           *)
(***************************************************************************)
\* The inductive invariant holds in every state the book can reach.
THEOREM Invariance == Spec => []IInv
<1>1. Init => IInv
  BY InitInv
<1>2. IInv /\ [Next]_vars => IInv'
  BY Inductive
<1> QED BY <1>1, <1>2, PTL DEF Spec

\* submit and cancel keep every structure well typed.  In particular no order
\* with nothing left stays in a list, so that cancel's 0 means "not found".
THEOREM TypeCorrect == Spec => []TypeOK
<1>1. IInv => TypeOK
  BY DEF IInv
<1> QED BY <1>1, Invariance, PTL

\* OrderBook::submit never leaves the book crossed, not even between two
\* rounds of its matching loops, whatever is submitted and cancelled.
THEOREM BookNeverCrossed == Spec => []NotCrossed
<1>1. IInv => NotCrossed
  BY DEF IInv
<1> QED BY <1>1, Invariance, PTL

\* submit and cancel erase every level they empty, so best_bid and best_ask
\* never report a price at which nothing rests.
THEOREM NoGhostLevels == Spec => []NoGhostLevel
<1>1. IInv => NoGhostLevel
  BY DEF IInv
<1> QED BY <1>1, Invariance, PTL

\* No sequence of trades, rests and cancels makes the running total of a level
\* drift from its orders: qty_at is what can be traded at that price.
THEOREM TotalsCorrect == Spec => []TotalsAgree
<1>1. Init => TotalsOK(levels)
  BY DEF Init, TotalsOK
<1>2. IInv /\ TotalsOK(levels) /\ [Next]_vars => TotalsOK(levels)'
  BY TotalsStep DEF TotalsOK
<1>3. TotalsOK(levels) => TotalsAgree
  BY TotalsMean
<1> QED BY <1>1, <1>2, <1>3, Invariance, PTL DEF Spec

\* Every Locator leads to the node of its own order and every node is in the
\* index under its own ref: cancel never follows a stale iterator.
THEOREM IndexCorrect == Spec => []IndexAgrees
<1>1. IInv => IndexAgrees
  BY DEF IInv
<1> QED BY <1>1, Invariance, PTL

\* The running counters never drift from the index, and empty() and
\* order_count() agree whenever a call has returned.
THEOREM CountsCorrect == Spec => []CountsAgree
<1>1. Init => Counted
  BY FS_EmptySet DEF Init, Counted, CountOK, RefsOn
<1>2. IInv /\ Counted /\ [Next]_vars => Counted'
  BY CountedStep
<1>3. ASSUME IInv, Counted PROVE CountsAgree
  <2>1. \A side \in BookSide :
          orders_count[side] = Cardinality({r \in DOMAIN refMap : refMap[r].side = side})
    BY <1>3 DEF Counted, CountOK, RefsOn
  <2>2. ASSUME pc = "idle" PROVE empty <=> order_count = 0
    <3>1. \A side \in BookSide : /\ orders_count[side] \in Nat
                                 /\ DOMAIN levels[side] = {} <=> orders_count[side] = 0
      BY <1>3, <2>2, SideEmpty
    <3> QED BY <3>1 DEF empty, order_count, BookSide
  <2> QED BY <2>1, <2>2 DEF CountsAgree
<1>4. IInv /\ Counted => CountsAgree
  BY <1>3
<1> QED BY <1>1, <1>2, <1>4, Invariance, PTL DEF Spec

\* Both running sums together: the counters of order_book.hpp:108-109 and the
\* total_qty of every level say what the lists and the index say.
THEOREM RunningSumsCorrect == Spec => []RunningSumsAgree
<1>1. CountsAgree /\ TotalsAgree => RunningSumsAgree
  BY DEF RunningSumsAgree
<1> QED BY <1>1, CountsCorrect, TotalsCorrect, PTL
-----------------------------------------------------------------------------
(***************************************************************************)
(* What the inner loop relies on                                           *)
(***************************************************************************)
\* The level being drained is within the limit.  The outer loop has looked at
\* that, and the trades of the inner one do not move begin().
WithinLimit ==
    pc = "level" =>
        /\ req.side \in BookSide
        /\ \A p : IsBegin(Opposite(req.side), p) => Crosses(req.side, req.limit_price, p)

RInv == IInv /\ WithinLimit

\* A trade leaves the keys of both maps as they are.
LEMMA FillFrontKeys ==
    ASSUME IInv, NEW p \in Prices, FillFront(p)
    PROVE  \A side \in BookSide : DOMAIN levels'[side] = DOMAIN levels[side]
<1> DEFINE side == Opposite(req.side)
<1>1. side \in BookSide
  BY OppositeSide
<1>2. LevelsOK(levels)
  BY DEF IInv, TypeOK
<1>3. PICK new : levels' = [levels EXCEPT ![side][p] = new]
  BY DEF FillFront, TradeAt
<1> HIDE DEF side
<1> QED BY <1>1, <1>2, <1>3 DEF LevelsOK

\* Every step keeps the level being drained within the limit.
LEMMA WithinLimitStep ==
    ASSUME RInv, [Next]_vars
    PROVE  WithinLimit'
<1> USE DEF RInv
<1>1. ASSUME NEW p \in Prices, EnterLevel(p) PROVE WithinLimit'
  <2>1. /\ req.side \in BookSide /\ IsBegin(Opposite(req.side), p)
        /\ Crosses(req.side, req.limit_price, p)
        /\ req' = req /\ levels' = levels
    BY <1>1 DEF EnterLevel, book
  <2>2. LevelsOK(levels)
    BY DEF IInv, TypeOK
  <2>3. \A q : IsBegin(Opposite(req.side), q) => q = p
    BY <2>1, <2>2, BeginUnique, OppositeSide
  <2> QED BY <2>1, <2>3 DEF WithinLimit, IsBegin
<1>2. ASSUME NEW p \in Prices, FillFront(p) PROVE WithinLimit'
  <2>1. \A side \in BookSide : DOMAIN levels'[side] = DOMAIN levels[side]
    BY <1>2, FillFrontKeys
  <2>2. pc = "level" /\ req' = req
    BY <1>2 DEF FillFront
  <2>3. \A q : IsBegin(Opposite(req.side), q)' <=> IsBegin(Opposite(req.side), q)
    BY <2>1, <2>2, OppositeSide DEF IsBegin
  <2> QED BY <2>2, <2>3 DEF WithinLimit
<1>3. CASE \E request \in OrderRequest : Submit(request)
  BY <1>3 DEF Submit, WithinLimit
<1>4. CASE \E p \in Prices : LeaveLevel(p)
  BY <1>4 DEF LeaveLevel, WithinLimit
<1>5. CASE SubmitFilled \/ SubmitRests \/ SubmitFallsThrough
  BY <1>5 DEF SubmitFilled, SubmitRests, SubmitFallsThrough, Return, WithinLimit
<1>6. CASE \E ref \in Refs : Cancel(ref) \/ CancelUnknown(ref)
  BY <1>6 DEF Cancel, CancelUnknown, locals, book, WithinLimit
<1>7. CASE UNCHANGED vars
  BY <1>7 DEF vars, WithinLimit, IsBegin
<1> QED BY <1>1, <1>2, <1>3, <1>4, <1>5, <1>6, <1>7 DEF Next, Working

\* The invariant that the refinement needs holds throughout.
LEMMA RInvariance == Spec => []RInv
<1>1. Init => RInv
  BY InitInv DEF RInv, WithinLimit, Init
<1>2. RInv /\ [Next]_vars => RInv'
  BY Inductive, WithinLimitStep DEF RInv
<1> QED BY <1>1, <1>2, PTL DEF Spec
-----------------------------------------------------------------------------
(***************************************************************************)
(* The vocabulary of the promise is that of the book                       *)
(***************************************************************************)
\* An instance has its own names for what both extend.
LEMMA SameVocabulary ==
    /\ PriceTime!BookSide = BookSide
    /\ \A side : PriceTime!Opposite(side) = Opposite(side)
    /\ \A side, p, q : PriceTime!Better(side, p, q) <=> Better(side, p, q)
    /\ \A side, p, q : PriceTime!Crosses(side, p, q) <=> Crosses(side, p, q)
    /\ \A m, n : PriceTime!Lesser(m, n) = Lesser(m, n)
<1>1. PriceTime!BookSide = BookSide
  BY DEF PriceTime!BookSide, PriceTime!Buy, PriceTime!Sell, BookSide, Buy, Sell
<1>2. \A side : PriceTime!Opposite(side) = Opposite(side)
  BY DEF PriceTime!Opposite, PriceTime!Buy, PriceTime!Sell, Opposite, Buy, Sell
<1>3. \A side, p, q : PriceTime!Better(side, p, q) <=> Better(side, p, q)
  BY DEF PriceTime!Better, PriceTime!Buy, Better, Buy
<1>4. \A side, p, q : PriceTime!Crosses(side, p, q) <=> Crosses(side, p, q)
  BY DEF PriceTime!Crosses, PriceTime!Buy, Crosses, Buy
<1>5. \A m, n : PriceTime!Lesser(m, n) = Lesser(m, n)
  BY DEF PriceTime!Lesser, Lesser
<1> QED BY <1>1, <1>2, <1>3, <1>4, <1>5
-----------------------------------------------------------------------------
(***************************************************************************)
(* The queues of the promise, as lists of the levels                       *)
(***************************************************************************)
ListOf(L, side, p) == IF p \in DOMAIN L[side] THEN L[side][p].orders ELSE <<>>
ListsOf(L) == [side \in BookSide |-> [p \in Prices |-> ListOf(L, side, p)]]
WithList(L, side, p, s) == [ListsOf(L) EXCEPT ![side][p] = s]

\* Before a step and after it, the queues are the lists.
LEMMA QueuesAreLists == Queues = ListsOf(levels) /\ Queues' = ListsOf(levels')
<1>1. \A side, p : LevelOrNew(side, p).orders = ListOf(levels, side, p)
  BY DEF LevelOrNew, ListOf
<1>2. \A side, p : LevelOrNew(side, p)'.orders = ListOf(levels', side, p)
  BY DEF LevelOrNew, ListOf
<1>3. Queues = ListsOf(levels)
  BY <1>1 DEF Queues, ListsOf
<1>4. Queues' = ListsOf(levels')
  BY <1>2 DEF Queues, ListsOf
<1> QED BY <1>3, <1>4

\* One list changes.
LEMMA OneList ==
    ASSUME NEW L, NEW M, NEW side \in BookSide, NEW p \in Prices, NEW s,
           ListOf(M, side, p) = s,
           \A q \in Prices : q # p => ListOf(M, side, q) = ListOf(L, side, q),
           \A other \in BookSide : other # side => M[other] = L[other]
    PROVE  ListsOf(M) = WithList(L, side, p, s)
<1>1. ASSUME NEW sd \in BookSide, NEW q \in Prices
      PROVE  ListOf(M, sd, q) = [ListsOf(L) EXCEPT ![side][p] = s][sd][q]
  <2>1. CASE sd = side
    BY <2>1 DEF ListsOf
  <2>2. CASE sd # side
    BY <2>2 DEF ListsOf, ListOf
  <2> QED BY <2>1, <2>2
<1> DEFINE R == [ListsOf(L) EXCEPT ![side][p] = s]
<1>2. \A sd \in BookSide : R[sd] = [q \in Prices |-> R[sd][q]]
  BY DEF ListsOf
<1>3. R = [sd \in BookSide |-> R[sd]]
  BY DEF ListsOf
<1> HIDE DEF R
<1>4. ListsOf(M) = [sd \in BookSide |-> [q \in Prices |-> R[sd][q]]]
  BY <1>1 DEF R, ListsOf
<1>5. R = [sd \in BookSide |-> [q \in Prices |-> R[sd][q]]]
  BY <1>2, <1>3
<1> QED BY <1>4, <1>5 DEF R, WithList

\* A ref that the index does not have is in no queue.
LEMMA NotInBook ==
    ASSUME IInv, NEW ref, ref \notin DOMAIN refMap
    PROVE  ~PriceTime!InBook(ref)
<1> SUFFICES ASSUME NEW side \in BookSide, NEW p \in Prices,
                    NEW i \in 1..Len(Queues[side][p]), PriceTime!Rests(ref, side, p, i)
             PROVE  FALSE
  BY SameVocabulary DEF PriceTime!InBook
<1>1. Queues[side][p] = ListOf(levels, side, p)
  BY QueuesAreLists DEF ListsOf
<1>2. Queues[side][p][i].resting = ref
  BY DEF PriceTime!Rests
<1>3. CASE p \in DOMAIN levels[side]
  <2>1. i \in 1..Len(levels[side][p].orders) /\ levels[side][p].orders[i].resting = ref
    BY <1>1, <1>2, <1>3 DEF ListOf
  <2> QED BY <2>1, <1>3 DEF IInv, IndexAgrees, IndexOK
<1>4. CASE p \notin DOMAIN levels[side]
  BY <1>1, <1>4, EmptySeq DEF ListOf
<1> QED BY <1>3, <1>4

\* A request at work is a taker.
LEMMA AtWork ==
    ASSUME TwoSides, NoWorker, TypeOK, pc # "idle"
    PROVE  /\ req \in OrderRequest
           /\ req.ref \in Refs /\ req.side \in BookSide /\ req.limit_price \in Prices
           /\ req.limit_price \in Int
           /\ remaining \in Nat
           /\ Worker = [ref |-> req.ref, side |-> req.side, limit_price |-> req.limit_price,
                        remaining |-> remaining]
           /\ Worker # None
<1>1. req \in OrderRequest /\ req # None /\ remaining \in Nat
  BY DEF TypeOK
<1>2. req.ref \in Refs /\ req.side \in BookSide /\ req.limit_price \in Prices
  BY <1>1 DEF OrderRequest, TwoSides
<1>3. Worker = [ref |-> req.ref, side |-> req.side, limit_price |-> req.limit_price,
                remaining |-> remaining]
  BY <1>1 DEF Worker
<1>4. Worker \in PriceTime!Taker
  BY <1>1, <1>2, <1>3, SameVocabulary DEF PriceTime!Taker
<1> QED BY <1>1, <1>2, <1>3, <1>4, PricesAssumption DEF NoWorker

\* And back, when there is none.
LEMMA NotAtWork == ASSUME TypeOK, pc = "idle" PROVE Worker = None
  BY DEF TypeOK, Worker
-----------------------------------------------------------------------------
(***************************************************************************)
(* Each step of the book                                                   *)
(***************************************************************************)
\* An empty book is an empty promise.
LEMMA InitMaps == Init => PriceTime!Init
<1> SUFFICES ASSUME Init PROVE PriceTime!Init
  OBVIOUS
<1>1. Queues = [side \in BookSide |-> [p \in Prices |-> <<>>]]
  BY DEF Init, Queues, LevelOrNew
<1>2. Worker = None
  BY DEF Init, Worker
<1> QED BY <1>1, <1>2, SameVocabulary DEF Init, PriceTime!Init

\* submit begins.
LEMMA SubmitMaps ==
    ASSUME IInv, NEW request \in OrderRequest, Submit(request)
    PROVE  PriceTime!Arrive(request.ref, request.side, request.qty, request.limit_price)
<1>1. Worker = None
  BY NotAtWork DEF IInv, Submit
<1>2. Worker' = [ref |-> request.ref, side |-> request.side,
                 limit_price |-> request.limit_price, remaining |-> request.qty]
  BY NoneAssumption DEF Submit, Worker
<1>3. ~PriceTime!InBook(request.ref)
  BY NotInBook DEF Submit
<1>4. Queues' = Queues
  BY QueuesAreLists DEF Submit
<1> QED BY <1>1, <1>2, <1>3, <1>4 DEF Submit, OrderRequest, PriceTime!Arrive

\* The outer loop goes round: nothing the promise speaks of.
LEMMA EnterLevelMaps ==
    ASSUME NEW p \in Prices, EnterLevel(p)
    PROVE  UNCHANGED PriceTime!vars
<1>1. Queues' = Queues
  BY QueuesAreLists DEF EnterLevel, book
<1> QED BY <1>1 DEF EnterLevel, Worker, PriceTime!vars

\* The inner loop ends: a level that goes had no orders.
LEMMA LeaveLevelMaps ==
    ASSUME IInv, NEW p \in Prices, LeaveLevel(p)
    PROVE  UNCHANGED PriceTime!vars
<1> DEFINE side == Opposite(req.side)
<1>0. side \in BookSide /\ LevelsOK(levels)
  BY OppositeSide DEF IInv, TypeOK
<1>1. ListsOf(levels') = ListsOf(levels)
  <2>1. CASE levels' = levels
    BY <2>1
  <2>2. CASE /\ levels[side][p].orders = <<>>
             /\ levels' = [levels EXCEPT ![side] = Erase(levels[side], p)]
    <3>1. /\ levels'[side] = Erase(levels[side], p)
          /\ \A other \in BookSide : other # side => levels'[other] = levels[other]
      BY <2>2, <1>0 DEF LevelsOK
    <3>2. /\ DOMAIN levels'[side] = DOMAIN levels[side] \ {p}
          /\ \A q \in DOMAIN levels'[side] : levels'[side][q] = levels[side][q]
      BY <3>1 DEF Erase
    <3>3. \A sd \in BookSide, q \in Prices : ListOf(levels', sd, q) = ListOf(levels, sd, q)
      <4> HIDE DEF side
      <4> QED BY <3>1, <3>2, <2>2 DEF ListOf
    <3> QED BY <3>3 DEF ListsOf
  <2> QED BY <2>1, <2>2 DEF LeaveLevel
<1>2. Queues' = Queues
  BY <1>1, QueuesAreLists
<1> QED BY <1>2 DEF LeaveLevel, Worker, PriceTime!vars

\* A submit that is filled.
LEMMA SubmitFilledMaps ==
    ASSUME TwoSides, NoWorker, IInv, SubmitFilled
    PROVE  PriceTime!Done
<1>1. Worker # None /\ Worker.remaining = 0
  BY AtWork DEF IInv, SubmitFilled
<1>2. Worker' = None /\ Queues' = Queues
  BY QueuesAreLists DEF SubmitFilled, Return, book, Worker
<1> QED BY <1>1, <1>2 DEF SubmitFilled, Return, book, PriceTime!Done

\* A cancel that finds nothing.
LEMMA CancelUnknownMaps ==
    ASSUME IInv, NEW ref, CancelUnknown(ref)
    PROVE  PriceTime!CancelUnknown(ref)
<1>1. Worker = None
  BY NotAtWork DEF IInv, CancelUnknown
<1>2. Worker' = Worker /\ Queues' = Queues
  BY QueuesAreLists DEF CancelUnknown, book, locals, Worker
<1>3. ~PriceTime!InBook(ref)
  BY NotInBook DEF CancelUnknown
<1> QED BY <1>1, <1>2, <1>3 DEF CancelUnknown, PriceTime!CancelUnknown

\* The rest of an order joins its queue: there is no touch within its limit.
LEMMA SubmitRestsMaps ==
    ASSUME TwoSides, NoWorker, IInv, SubmitRests
    PROVE  PriceTime!Rest
<1> DEFINE side == req.side
           p    == req.limit_price
           node == [resting |-> req.ref, remainQty |-> remaining]
           lvl  == LevelOrNew(side, p)
<1>0. /\ TypeOK /\ LevelsOK(levels) /\ pc # "idle" /\ side \in BookSide /\ Unmatched
      /\ req' = None /\ returned' = remaining /\ fills' = fills
      /\ remaining # 0
  BY DEF IInv, TypeOK, SubmitRests, Return, Unmatched
<1>1. /\ req \in OrderRequest /\ p \in Prices /\ remaining \in Nat
      /\ Worker = [ref |-> req.ref, side |-> side, limit_price |-> p, remaining |-> remaining]
      /\ Worker # None
  BY <1>0, AtWork
<1>2. Worker' = None
  BY <1>0 DEF Worker
<1>3. ~PriceTime!CanTrade
  <2>1. \A q \in DOMAIN levels[Opposite(side)] : ~Crosses(side, p, q)
    BY <1>0, <1>1, UnmatchedBeyond
  <2>2. ASSUME NEW q \in Prices, PriceTime!IsTouch(q) PROVE FALSE
    <3>1. Queues[Opposite(side)][q] # <<>> /\ Crosses(side, p, q)
      BY <2>2, <1>1, SameVocabulary DEF PriceTime!IsTouch
    <3>2. ListOf(levels, Opposite(side), q) # <<>>
      BY <3>1, QueuesAreLists, OppositeSide DEF ListsOf
    <3>3. q \in DOMAIN levels[Opposite(side)]
      BY <3>2 DEF ListOf
    <3> QED BY <3>1, <3>3, <2>1
  <2> QED BY <2>2 DEF PriceTime!CanTrade
<1>4. ~PriceTime!Full
  BY DEF PriceTime!Full, PriceTime!Unlimited
<1>5. Queues' = [Queues EXCEPT ![side][p] = Append(Queues[side][p], node)]
  <2>1. PICK new : /\ new.orders = Append(lvl.orders, node)
                   /\ levels' = [levels EXCEPT ![side] = Put(levels[side], p, new)]
    BY DEF SubmitRests
  <2>2. /\ levels'[side] = Put(levels[side], p, new)
        /\ \A other \in BookSide : other # side => levels'[other] = levels[other]
    BY <2>1, <1>0 DEF LevelsOK
  <2>3. ListOf(levels', side, p) = Append(lvl.orders, node)
    BY <2>1, <2>2 DEF ListOf, Put
  <2>4. \A q \in Prices : q # p => ListOf(levels', side, q) = ListOf(levels, side, q)
    BY <2>2 DEF ListOf, Put
  <2>5. Queues[side][p] = lvl.orders
    BY <1>0, <1>1 DEF Queues
  <2> DEFINE s == Append(lvl.orders, node)
  <2> HIDE DEF side, p, node, lvl
  <2>6. ListsOf(levels') = WithList(levels, side, p, s)
    <3>1. side \in BookSide /\ p \in Prices /\ ListOf(levels', side, p) = s
      BY <1>0, <1>1, <2>3
    <3> HIDE DEF s
    <3> QED BY <3>1, <2>2, <2>4, OneList
  <2> QED BY <2>5, <2>6, QueuesAreLists DEF WithList
<1> QED BY <1>0, <1>1, <1>2, <1>3, <1>4, <1>5 DEF PriceTime!Rest

\* A trade: with the front order of the level that the promise calls the touch.
LEMMA FillFrontMaps ==
    ASSUME TwoSides, NoWorker, RInv, NEW p \in Prices, FillFront(p)
    PROVE  PriceTime!Trade
<1> DEFINE side    == Opposite(req.side)
           lvl     == levels[side][p]
           front   == Head(lvl.orders)
           fillQty == Lesser(remaining, front.remainQty)
           left    == front.remainQty - fillQty
           kept    == [lvl.orders EXCEPT ![1] = [front EXCEPT !.remainQty = left]]
           orders  == IF left <= 0 THEN Tail(lvl.orders) ELSE kept
<1>0. /\ TypeOK /\ LevelsOK(levels) /\ pc = "level" /\ IsBegin(side, p)
      /\ remaining > 0 /\ lvl.orders # <<>> /\ TradeAt(p)
      /\ req' = req /\ returned' = returned
      /\ req.side \in BookSide /\ side \in BookSide
      /\ Crosses(req.side, req.limit_price, p)
  BY OppositeSide DEF RInv, IInv, TypeOK, FillFront, WithinLimit
<1>1. /\ remaining \in Nat
      /\ Worker = [ref |-> req.ref, side |-> req.side, limit_price |-> req.limit_price,
                   remaining |-> remaining]
      /\ Worker # None
  BY <1>0, AtWork
<1>2. p \in DOMAIN levels[side] /\ lvl.orders \in Seq(RestingOrder)
  BY <1>0, BeginLevel
<1>3. /\ front.remainQty \in Nat \ {0} /\ fillQty \in Nat \ {0} /\ left \in Nat
  BY <1>0, <1>1, <1>2, FrontOrder
<1>4. Queues[side][p] = lvl.orders
  BY <1>0, <1>2, QueuesAreLists DEF ListsOf, ListOf
<1>5. PriceTime!IsTouch(p)
  <2>1. ASSUME NEW q \in Prices, Better(side, q, p) PROVE Queues[side][q] = <<>>
    <3>1. q \notin DOMAIN levels[side]
      BY <2>1, <1>0 DEF IsBegin
    <3> QED BY <3>1, <1>0, QueuesAreLists DEF ListsOf, ListOf
  <2>2. Worker.side = req.side /\ Worker.limit_price = req.limit_price
    BY <1>1
  <2> HIDE DEF lvl
  <2> QED BY <2>1, <2>2, <1>0, <1>4, SameVocabulary DEF PriceTime!IsTouch
<1>6. Worker' = [Worker EXCEPT !.remaining = remaining - fillQty]
  <2>1. remaining' = remaining - fillQty
    BY <1>0 DEF TradeAt
  <2>2. req # None
    BY <1>0 DEF TypeOK
  <2> HIDE DEF fillQty
  <2> QED BY <2>1, <2>2, <1>0, <1>1 DEF Worker
<1>7. Queues' = [Queues EXCEPT ![side][p] = orders]
  <2>1. PICK new : /\ new.orders = orders
                   /\ levels' = [levels EXCEPT ![side][p] = new]
    BY <1>0 DEF TradeAt
  <2> HIDE DEF side, orders
  <2>2. /\ DOMAIN levels'[side] = DOMAIN levels[side]
        /\ levels'[side][p] = new
        /\ \A q \in DOMAIN levels[side] : q # p => levels'[side][q] = levels[side][q]
        /\ \A other \in BookSide : other # side => levels'[other] = levels[other]
    BY <2>1, <1>0, <1>2 DEF LevelsOK, MapOf
  <2>3. /\ ListOf(levels', side, p) = orders
        /\ \A q \in Prices : q # p => ListOf(levels', side, q) = ListOf(levels, side, q)
    BY <2>1, <2>2, <1>2 DEF ListOf
  <2>4. ListsOf(levels') = WithList(levels, side, p, orders)
    BY <2>2, <2>3, <1>0, OneList
  <2> QED BY <2>4, QueuesAreLists DEF WithList
<1>8. orders = IF front.remainQty = fillQty THEN Tail(Queues[side][p])
               ELSE [Queues[side][p] EXCEPT ![1] = [front EXCEPT !.remainQty = @ - fillQty]]
  <2>1. left <= 0 <=> front.remainQty = fillQty
    BY <1>3
  <2> HIDE DEF front, fillQty
  <2> QED BY <2>1, <1>4
<1>9. fills' = Append(fills, [aggressor |-> Worker.ref, resting |-> front.resting,
                              price |-> p, qty |-> fillQty])
  BY <1>0, <1>1 DEF TradeAt
<1>10. Head(Queues[side][p]) = front /\ Worker.remaining = remaining
  BY <1>1, <1>4
<1> HIDE DEF orders, front, fillQty
<1>11. \E q \in Prices :
         LET f   == Head(Queues[side][q])
             qty == Lesser(Worker.remaining, f.remainQty)
         IN  /\ PriceTime!IsTouch(q)
             /\ Worker' = [Worker EXCEPT !.remaining = Worker.remaining - qty]
             /\ Queues' = [Queues EXCEPT ![side][q] =
                    IF f.remainQty = qty THEN Tail(Queues[side][q])
                    ELSE [Queues[side][q] EXCEPT ![1] = [f EXCEPT !.remainQty = @ - qty]]]
             /\ fills' = Append(fills, [aggressor |-> Worker.ref, resting |-> f.resting,
                                        price |-> q, qty |-> qty])
  <2>1. fillQty = Lesser(Worker.remaining, Head(Queues[side][p]).remainQty)
    BY <1>10 DEF fillQty
  <2>2. WITNESS p \in Prices
  <2> HIDE DEF side
  <2> QED BY <2>1, <1>5, <1>6, <1>7, <1>8, <1>9, <1>10
<1>12. Opposite(Worker.side) = side
  BY <1>1
<1> QED BY <1>0, <1>1, <1>11, <1>12, SameVocabulary DEF PriceTime!Trade

\* cancel takes the node out of its queue and returns what was left of it.
LEMMA CancelMaps ==
    ASSUME IInv, NEW ref \in Refs, Cancel(ref)
    PROVE  PriceTime!Cancel(ref)
<1> DEFINE side == refMap[ref].side
           p    == refMap[ref].price
           s    == levels[side][p].orders
<1>0. /\ TypeOK /\ LevelsOK(levels) /\ MapOf(refMap, Refs, Locator)
      /\ IndexOK(levels, refMap)
      /\ pc = "idle" /\ ref \in DOMAIN refMap
      /\ req' = req /\ remaining' = remaining /\ fills' = fills
  BY DEF IInv, IndexAgrees, TypeOK, Cancel, locals
<1>1. side \in BookSide /\ p \in Prices
  BY <1>0 DEF MapOf, Locator
<1>2. p \in DOMAIN levels[side]
  BY <1>0 DEF IndexOK
<1>3. PICK i \in 1..Len(s) : RemoveNode(ref, i)
  BY DEF Cancel
<1> DEFINE rest == SubSeq(s, 1, i - 1) \o SubSeq(s, i + 1, Len(s))
<1>4. /\ s[i].resting = ref /\ returned' = s[i].remainQty
  BY <1>3 DEF RemoveNode
<1>5. Queues[side][p] = s
  BY <1>1, <1>2, QueuesAreLists DEF ListsOf, ListOf
<1>6. Queues' = [Queues EXCEPT ![side][p] = rest]
  <2>1. PICK new : /\ new.orders = rest
                   /\ levels' = [levels EXCEPT ![side] =
                        IF rest = <<>> THEN Erase(levels[side], p) ELSE Put(levels[side], p, new)]
    BY <1>3 DEF RemoveNode
  <2> DEFINE f == IF rest = <<>> THEN Erase(levels[side], p) ELSE Put(levels[side], p, new)
  <2> HIDE DEF side, p, rest
  <2>2. /\ p \in DOMAIN f => f[p].orders = rest
        /\ p \notin DOMAIN f => rest = <<>>
        /\ \A q : q # p => /\ q \in DOMAIN f <=> q \in DOMAIN levels[side]
                           /\ q \in DOMAIN f => f[q] = levels[side][q]
    BY <2>1, <1>2 DEF Erase, Put
  <2> HIDE DEF f
  <2>3. /\ levels'[side] = f
        /\ \A other \in BookSide : other # side => levels'[other] = levels[other]
    BY <2>1, <1>0, <1>1 DEF LevelsOK, f
  <2>4. /\ ListOf(levels', side, p) = rest
        /\ \A q \in Prices : q # p => ListOf(levels', side, q) = ListOf(levels, side, q)
    BY <2>2, <2>3 DEF ListOf
  <2>5. ListsOf(levels') = WithList(levels, side, p, rest)
    BY <2>3, <2>4, <1>1, OneList
  <2> QED BY <2>5, QueuesAreLists DEF WithList
<1>7. Worker = None /\ Worker' = Worker
  BY <1>0, NotAtWork DEF Worker
<1> HIDE DEF side, p, s
<1>8. \E sd \in BookSide, q \in Prices : \E k \in 1..Len(Queues[sd][q]) :
        /\ PriceTime!Rests(ref, sd, q, k)
        /\ Queues' = [Queues EXCEPT ![sd][q] = SubSeq(@, 1, k - 1) \o SubSeq(@, k + 1, Len(@))]
        /\ returned' = Queues[sd][q][k].remainQty
  <2>1. i \in DOMAIN Queues[side][p] /\ i \in 1..Len(Queues[side][p])
    <3>1. s \in Seq(RestingOrder)
      BY <1>0, <1>1, <1>2 DEF LevelsOK, MapOf, Level, s
    <3> QED BY <3>1, <1>3, <1>5, LenProperties
  <2>2. PriceTime!Rests(ref, side, p, i)
    BY <2>1, <1>4, <1>5 DEF PriceTime!Rests
  <2> QED BY <2>1, <2>2, <1>1, <1>4, <1>5, <1>6
<1> QED BY <1>0, <1>7, <1>8, SameVocabulary DEF PriceTime!Cancel
-----------------------------------------------------------------------------
(***************************************************************************)
(* The refinement                                                          *)
(***************************************************************************)
\* Every step is a step of the promised book, or changes nothing it has.
LEMMA StepMaps ==
    ASSUME TwoSides, NoWorker
    PROVE  RInv /\ [Next]_vars => [PriceTime!Next]_(PriceTime!vars)
<1> SUFFICES ASSUME RInv, [Next]_vars
             PROVE  PriceTime!Next \/ UNCHANGED PriceTime!vars
  OBVIOUS
<1>0. IInv
  BY DEF RInv
<1>1. ASSUME NEW request \in OrderRequest, Submit(request) PROVE PriceTime!Next
  <2>1. /\ request.ref \in Refs /\ request.side \in BookSide
        /\ request.qty \in Qtys /\ request.limit_price \in Prices
    BY DEF OrderRequest, TwoSides
  <2> QED BY <2>1, <1>0, <1>1, SubmitMaps, SameVocabulary DEF PriceTime!Next
<1>2. CASE \E p \in Prices : EnterLevel(p)
  BY <1>2, EnterLevelMaps
<1>3. CASE \E p \in Prices : FillFront(p)
  BY <1>3, FillFrontMaps DEF PriceTime!Next, PriceTime!Working
<1>4. CASE \E p \in Prices : LeaveLevel(p)
  BY <1>4, <1>0, LeaveLevelMaps
<1>5. CASE SubmitFilled
  BY <1>5, <1>0, SubmitFilledMaps DEF PriceTime!Next, PriceTime!Working
<1>6. CASE SubmitRests
  BY <1>6, <1>0, SubmitRestsMaps DEF PriceTime!Next, PriceTime!Working
<1>7. CASE SubmitFallsThrough
  <2>1. req.side \in BookSide
    BY <1>7, <1>0, AtWork DEF IInv, SubmitFallsThrough
  <2> QED BY <1>7, <2>1 DEF SubmitFallsThrough
<1>8. CASE \E ref \in Refs : Cancel(ref)
  BY <1>8, <1>0, CancelMaps DEF PriceTime!Next
<1>9. CASE \E ref \in Refs : CancelUnknown(ref)
  BY <1>9, <1>0, CancelUnknownMaps DEF PriceTime!Next
<1>10. CASE UNCHANGED vars
  <2>1. Queues' = Queues
    BY <1>10, QueuesAreLists DEF vars
  <2> QED BY <1>10, <2>1 DEF vars, Worker, PriceTime!vars
<1> QED BY <1>1, <1>2, <1>3, <1>4, <1>5, <1>6, <1>7, <1>8, <1>9, <1>10 DEF Next, Working

\* OrderBook::submit and cancel, whatever is asked of them within the contract,
\* trade and rest as price-time priority demands and return what is promised.
THEOREM Refinement == ASSUME TwoSides, NoWorker PROVE Spec => PriceTime!Spec
<1>1. Init => PriceTime!Init
  BY InitMaps
<1>2. RInv /\ [Next]_vars => [PriceTime!Next]_(PriceTime!vars)
  BY StepMaps
<1> QED BY <1>1, <1>2, RInvariance, PTL DEF Spec, PriceTime!Spec
=============================================================================
