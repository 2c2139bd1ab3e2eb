------------------------- MODULE PoolOrderBook_proofs -------------------------
(***************************************************************************)
(* Theorems about PoolOrderBook, for every size of the pool, window and    *)
(* word, every set of references, prices and sides, and quantities above   *)
(* 0: the index leads to every order and to no other, the intrusive lists  *)
(* stay whole, and the bitmap and the hint follow them.                    *)
(***************************************************************************)
EXTENDS PoolOrderBookRefines, PooledBook_proofs

IndexTypeOK == DOMAIN refMap \subseteq Refs /\ refMap \in [DOMAIN refMap -> Slot]

\* The index is right only because a ref is submitted while it is not resting,
\* which BInv keeps of the request at work.
IInv == BInv /\ IndexTypeOK /\ IndexAgrees
-----------------------------------------------------------------------------
\* The empty book satisfies it.
LEMMA InitInv == Init => IInv
<1> SUFFICES ASSUME Init PROVE IInv
  OBVIOUS
<1>1. BInv
  BY BookInitInv DEF Init
<1>2. DOMAIN refMap = {} /\ DOMAIN orders = {}
  BY DEF Init, BookInit, PoolInit
<1>3. IndexTypeOK /\ IndexAgrees
  BY <1>2 DEF IndexTypeOK, IndexAgrees, Init
<1> QED BY <1>1, <1>3 DEF IInv

\* A slot freed and its ref erased.
LEMMA ErasedAgrees ==
    ASSUME IInv, NEW slot \in DOMAIN orders, orders' = WithoutSlot(orders, slot),
           refMap' = Erase(refMap, orders[slot].ref)
    PROVE  IndexTypeOK' /\ IndexAgrees'
<1>1. /\ DOMAIN orders' = DOMAIN orders \ {slot}
      /\ \A s \in DOMAIN orders' : orders'[s] = orders[s]
  BY DEF WithoutSlot
<1>2. /\ DOMAIN refMap' = DOMAIN refMap \ {orders[slot].ref}
      /\ \A r \in DOMAIN refMap' : refMap'[r] = refMap[r]
  BY DEF Erase
<1>3. IndexTypeOK'
  <2>1. \A r \in DOMAIN refMap : refMap[r] \in Slot
    BY DEF IInv, IndexTypeOK
  <2> QED BY <2>1, <1>2 DEF IInv, IndexTypeOK, Erase
<1>4. IndexAgrees'
  <2>1. /\ \A r \in DOMAIN refMap : refMap[r] \in DOMAIN orders /\ orders[refMap[r]].ref = r
        /\ \A s \in DOMAIN orders : orders[s].ref \in DOMAIN refMap /\ refMap[orders[s].ref] = s
    BY DEF IInv, IndexAgrees
  <2>2. ASSUME NEW r \in DOMAIN refMap'
        PROVE  refMap'[r] \in DOMAIN orders' /\ orders'[refMap'[r]].ref = r
    BY <2>1, <1>1, <1>2
  <2>3. ASSUME NEW s \in DOMAIN orders'
        PROVE  orders'[s].ref \in DOMAIN refMap' /\ refMap'[orders'[s].ref] = s
    BY <2>1, <1>1, <1>2
  <2> QED BY <2>2, <2>3 DEF IndexAgrees
<1> QED BY <1>3, <1>4

\* The orders keep their slots and refs, and the index stays.
LEMMA IndexUntouched ==
    ASSUME IInv, refMap' = refMap, DOMAIN orders' = DOMAIN orders,
           \A s \in DOMAIN orders : orders'[s].ref = orders[s].ref
    PROVE  IndexTypeOK' /\ IndexAgrees'
  BY DEF IInv, IndexTypeOK, IndexAgrees

\* A trade erases the ref of the order it empties.
LEMMA FillFrontStep == ASSUME IInv, FillFront PROVE IInv'
<1>1. TradeWithFront /\ BInv
  BY DEF FillFront, IInv
<1>2. /\ top \in DOMAIN orders
      /\ Spent => orders' = WithoutSlot(orders, top)
      /\ ~Spent => /\ DOMAIN orders' = DOMAIN orders
                   /\ \A s \in DOMAIN orders : orders'[s].ref = orders[s].ref
  BY <1>1, OrdersAfterTrade
<1>3. /\ Spent => refMap' = Erase(refMap, orders[top].ref)
      /\ ~Spent => refMap' = refMap
  BY DEF FillFront
<1>4. IndexTypeOK' /\ IndexAgrees'
  BY <1>2, <1>3, ErasedAgrees, IndexUntouched
<1> QED BY <1>1, <1>4, TradeStep DEF IInv

\* An order that rests is entered under its ref, which no order had.
LEMMA SubmitRestsStep == ASSUME IInv, SubmitRests PROVE IInv'
<1> DEFINE o == [ref |-> req.ref, remainQty |-> remaining,
                 level |-> index(req.limit_price), side |-> req.side]
<1>1. RestInSlot /\ BInv /\ refMap' = Put(refMap, req.ref, free_head)
  BY DEF SubmitRests, IInv
<1>2. /\ free_head \in Slot \ DOMAIN orders
      /\ orders' = WithSlot(orders, free_head, o)
  BY <1>1, SlotTaken
<1>3. req.ref \in Refs /\ \A s \in DOMAIN orders : orders[s].ref # req.ref
  <2>1. pc # "idle" /\ req \in OrderRequest
    BY <1>1 DEF RestInSlot, Unmatched, BInv, BookTypeOK
  <2> QED BY <2>1, <1>1 DEF BInv, AtWork, IsLive, OrderRequest
<1>4. /\ DOMAIN orders' = DOMAIN orders \cup {free_head}
      /\ orders'[free_head].ref = req.ref
      /\ \A s \in DOMAIN orders : orders'[s] = orders[s]
  BY <1>2 DEF WithSlot
<1>5. /\ DOMAIN refMap' = DOMAIN refMap \cup {req.ref}
      /\ refMap'[req.ref] = free_head
      /\ \A r \in DOMAIN refMap : r # req.ref => refMap'[r] = refMap[r]
  BY <1>1 DEF Put
<1>6. IndexTypeOK'
  <2>1. DOMAIN refMap \subseteq Refs /\ \A r \in DOMAIN refMap : refMap[r] \in Slot
    BY DEF IInv, IndexTypeOK
  <2> QED BY <2>1, <1>1, <1>2, <1>3, <1>5 DEF IndexTypeOK, Put
<1>7. IndexAgrees'
  <2>1. /\ \A r \in DOMAIN refMap : refMap[r] \in DOMAIN orders /\ orders[refMap[r]].ref = r
        /\ \A s \in DOMAIN orders : orders[s].ref \in DOMAIN refMap /\ refMap[orders[s].ref] = s
    BY DEF IInv, IndexAgrees
  <2>2. req.ref \notin DOMAIN refMap
    BY <2>1, <1>3
  <2>3. ASSUME NEW r \in DOMAIN refMap'
        PROVE  refMap'[r] \in DOMAIN orders' /\ orders'[refMap'[r]].ref = r
    BY <2>1, <2>2, <1>4, <1>5
  <2>4. ASSUME NEW s \in DOMAIN orders'
        PROVE  orders'[s].ref \in DOMAIN refMap' /\ refMap'[orders'[s].ref] = s
    BY <2>1, <2>2, <1>3, <1>4, <1>5
  <2> QED BY <2>3, <2>4 DEF IndexAgrees
<1> QED BY <1>1, <1>6, <1>7, RestStep DEF IInv

\* cancel erases the ref of the order it removes.
LEMMA CancelStep == ASSUME IInv, NEW ref, Cancel(ref) PROVE IInv'
<1> DEFINE slot == refMap[ref]
<1>1. RemoveOrder(slot) /\ ref \in DOMAIN refMap /\ refMap' = Erase(refMap, ref) /\ BInv
  BY DEF Cancel, IInv
<1>2. slot \in DOMAIN orders /\ orders[slot].ref = ref
  BY <1>1 DEF IInv, IndexAgrees
<1>3. orders' = WithoutSlot(orders, slot)
  BY <1>1 DEF RemoveOrder, release, WithoutSlot
<1> HIDE DEF slot
<1>4. IndexTypeOK' /\ IndexAgrees'
  BY <1>1, <1>2, <1>3, ErasedAgrees
<1> QED BY <1>1, <1>2, <1>4, RemoveStep DEF IInv

\* The steps that leave pool and index alone.
LEMMA IndexKept ==
    ASSUME IInv, BInv', refMap' = refMap, orders' = orders PROVE IInv'
<1>1. IndexTypeOK' /\ IndexAgrees'
  BY IndexUntouched
<1> QED BY <1>1 DEF IInv
-----------------------------------------------------------------------------
(***************************************************************************)
(* Theorems                                                                *)
(***************************************************************************)
\* Every step keeps the invariant.
LEMMA Inductive == ASSUME PositiveQtys PROVE IInv /\ [Next]_vars => IInv'
<1> SUFFICES ASSUME IInv, [Next]_vars PROVE IInv'
  OBVIOUS
<1>0. BInv
  BY DEF IInv
<1>1. ASSUME NEW request \in OrderRequest,
             Submit(request) \/ SubmitRefused(request), UNCHANGED refMap
      PROVE  IInv'
  <2>1. BInv'
    BY <1>0, <1>1, SubmitStep, SubmitRefusedStep
  <2>2. orders' = orders
    BY <1>1 DEF Submit, SubmitRefused, pool
  <2> QED BY <2>1, <2>2, <1>1, IndexKept
<1>2. CASE EnterLevel /\ UNCHANGED refMap
  <2>1. orders' = orders
    BY <1>2 DEF EnterLevel, pool
  <2> QED BY <2>1, <1>0, <1>2, EnterLevelStep, IndexKept
<1>3. CASE FillFront
  BY <1>3, FillFrontStep
<1>4. CASE LeaveLevel /\ UNCHANGED refMap
  <2>1. orders' = orders
    BY <1>4 DEF LeaveLevel, pool
  <2> QED BY <2>1, <1>0, <1>4, LeaveLevelStep, IndexKept
<1>5. CASE (SubmitFilled \/ SubmitNoSlot) /\ UNCHANGED refMap
  <2>1. orders' = orders
    BY <1>5 DEF SubmitFilled, SubmitNoSlot, pool
  <2> QED BY <2>1, <1>0, <1>5, ReturnStep, IndexKept
<1>6. CASE SubmitRests
  BY <1>6, SubmitRestsStep
<1>7. ASSUME NEW ref \in Refs, Cancel(ref) PROVE IInv'
  BY <1>7, CancelStep
<1>8. ASSUME NEW ref \in Refs, CancelUnknown(ref) PROVE IInv'
  <2>1. orders' = orders /\ RemoveNothing /\ refMap' = refMap
    BY <1>8 DEF CancelUnknown, RemoveNothing, pool
  <2> QED BY <2>1, <1>0, RemoveNothingStep, IndexKept
<1>9. CASE UNCHANGED vars
  <2>1. orders' = orders /\ refMap' = refMap /\ UNCHANGED bookVars
    BY <1>9 DEF vars, bookVars, pool
  <2> QED BY <2>1, <1>0, BookStutter, IndexKept
<1> QED BY <1>1, <1>2, <1>3, <1>4, <1>5, <1>6, <1>7, <1>8, <1>9 DEF Next, Working

\* Everything below holds throughout.
THEOREM Invariance == ASSUME PositiveQtys PROVE Spec => []IInv
<1>1. Init => IInv
  BY InitInv
<1>2. IInv /\ [Next]_vars => IInv'
  BY Inductive
<1> QED BY <1>1, <1>2, PTL DEF Spec

\* Every structure keeps its type: no link leads outside the pool and no
\* resting order is left with nothing.
THEOREM TypeCorrect == ASSUME PositiveQtys PROVE Spec => []TypeOK
<1>1. IInv => TypeOK
  BY DEF IInv, BInv, IndexTypeOK, TypeOK
<1> QED BY <1>1, Invariance, PTL

\* refMap and the pool agree, however often slots are reused: cancel removes
\* the order of the ref it is given, or finds that there is none.
THEOREM IndexCorrect == ASSUME PositiveQtys PROVE Spec => []IndexAgrees
<1>1. IInv => IndexAgrees
  BY DEF IInv
<1> QED BY <1>1, Invariance, PTL

\* The occupancy bitmap follows the queues' heads.
THEOREM BitmapCorrect == ASSUME PositiveQtys PROVE Spec => []BitmapAgrees
<1>1. IInv => BitmapAgrees
  BY DEF IInv, BInv
<1> QED BY <1>1, Invariance, PTL

\* The hint is the best occupied level of its side.
THEOREM TouchCorrect == ASSUME PositiveQtys PROVE Spec => []TouchIsBest
<1>1. IInv => TouchIsBest
  BY DEF IInv, BInv
<1> QED BY <1>1, Invariance, PTL

\* Sharing `next` between the queues and the free list breaks neither: however
\* unlink, release, alloc and push_back alternate, every slot is on the queue of
\* its order's own level or on the free list, on one of them, and once.
THEOREM SlotsCorrect == ASSUME PositiveQtys PROVE Spec => []SlotsPartitioned
<1>1. IInv => SlotsPartitioned
  BY Partitioned DEF IInv
<1> QED BY <1>1, Invariance, PTL

\* Read forwards from head or backwards from tail a queue is the same, it ends
\* at tail, and it is empty by both or by neither.
THEOREM QueuesCorrect == ASSUME PositiveQtys PROVE Spec => []QueuesWellLinked
<1>1. IInv => QueuesWellLinked
  BY WellLinked DEF IInv
<1> QED BY <1>1, Invariance, PTL

\* What the counters hold changes with the orders, step by step.
LEMMA SumsInductive == IInv /\ Sums /\ [Next]_vars => Sums'
<1> SUFFICES ASSUME IInv, Sums, [Next]_vars PROVE Sums'
  OBVIOUS
<1>0. BInv
  BY DEF IInv
<1>1. CASE \E request \in OrderRequest : Submit(request) \/ SubmitRefused(request)
  <2>1. UNCHANGED <<pool, book>>
    BY <1>1 DEF Submit, SubmitRefused
  <2> QED BY <2>1, SumsKept
<1>2. CASE EnterLevel \/ SubmitFilled \/ SubmitNoSlot
  <2>1. UNCHANGED <<pool, book>>
    BY <1>2 DEF EnterLevel, SubmitFilled, SubmitNoSlot
  <2> QED BY <2>1, SumsKept
<1>3. CASE LeaveLevel
  <2>1. UNCHANGED <<pool, book>>
    BY <1>3 DEF LeaveLevel
  <2> QED BY <2>1, SumsKept
<1>4. CASE FillFront
  BY <1>0, <1>4, SumsTrade DEF FillFront
<1>5. CASE SubmitRests
  BY <1>0, <1>5, SumsRest DEF SubmitRests
<1>6. ASSUME NEW ref \in Refs, Cancel(ref) PROVE Sums'
  <2>1. refMap[ref] \in DOMAIN orders /\ RemoveOrder(refMap[ref])
    BY <1>6 DEF Cancel, IInv, IndexAgrees
  <2> QED BY <1>0, <2>1, SumsRemove
<1>7. ASSUME NEW ref \in Refs, CancelUnknown(ref) PROVE Sums'
  <2>1. UNCHANGED <<pool, book>>
    BY <1>7 DEF CancelUnknown, RemoveNothing
  <2> QED BY <2>1, SumsKept
<1>8. CASE UNCHANGED vars
  <2>1. UNCHANGED <<pool, book>>
    BY <1>8 DEF vars, bookVars
  <2> QED BY <2>1, SumsKept
<1> QED BY <1>1, <1>2, <1>3, <1>4, <1>5, <1>6, <1>7, <1>8 DEF Next, Working

\* The counters tell what rests: a level's total is what is left of its orders,
\* and a side's count is the number of its orders, after every trade, rest and
\* cancel, though neither is ever computed afresh.
THEOREM TotalsCorrect == ASSUME PositiveQtys PROVE Spec => []TotalsAgree
<1>1. Init => Sums
  BY SumsAtFirst DEF Init
<1>2. IInv /\ Sums /\ [Next]_vars => Sums'
  BY SumsInductive
<1>3. IInv /\ Sums => TotalsAgree
  BY SumsAgree DEF IInv
<1> QED BY <1>1, <1>2, <1>3, Invariance, PTL DEF Spec

\* The bid hint stays below the ask hint, during a submit and between calls.
THEOREM BookNeverCrossed == ASSUME PositiveQtys PROVE Spec => []NotCrossed
<1>1. IInv => NotCrossed
  BY DEF IInv, BInv
<1> QED BY <1>1, Invariance, PTL
-----------------------------------------------------------------------------
(***************************************************************************)
(* What the refinement rests on                                            *)
(***************************************************************************)
\* The level being drained is within the limit, as the outer loop found it.
WithinLimit == pc = "level" => Crosses(ownSide, index(req.limit_price), cur)

\* An order that has traded and has something left has taken a whole order out
\* of the pool, whose slot heads the free list until the order takes it.
Roomy == pc # "idle" /\ fills # <<>> /\ remaining > 0 => free_head # kNil

RInv == IInv /\ WithinLimit /\ Roomy

\* Every step keeps the level being drained within the limit.
LEMMA WithinLimitStep == ASSUME WithinLimit, [Next]_vars PROVE WithinLimit'
<1>1. CASE EnterLevel
  BY <1>1 DEF EnterLevel, Reaches, WithinLimit, cur, ownSide, touch
<1>2. CASE FillFront
  BY <1>2 DEF FillFront, TradeWithFront, WithinLimit, cur, ownSide, touch
<1>3. CASE \E request \in OrderRequest : Submit(request) \/ SubmitRefused(request)
  BY <1>3 DEF Submit, SubmitRefused, locals, WithinLimit
<1>4. CASE LeaveLevel
  BY <1>4 DEF LeaveLevel, WithinLimit
<1>5. CASE SubmitFilled \/ SubmitRests \/ SubmitNoSlot
  BY <1>5 DEF SubmitFilled, SubmitRests, RestInSlot, SubmitNoSlot, Return, WithinLimit
<1>6. CASE \E ref \in Refs : Cancel(ref) \/ CancelUnknown(ref)
  BY <1>6 DEF Cancel, CancelUnknown, RemoveOrder, RemoveNothing, locals, WithinLimit
<1>7. CASE UNCHANGED vars
  BY <1>7 DEF vars, bookVars, touch, locals, WithinLimit, cur, ownSide
<1> QED BY <1>1, <1>2, <1>3, <1>4, <1>5, <1>6, <1>7 DEF Next, Working

\* Every step leaves room for what is left of an order that has traded.
LEMMA RoomyStep == ASSUME IInv, Roomy, [Next]_vars PROVE Roomy'
<1>1. CASE EnterLevel
  BY <1>1 DEF EnterLevel, Roomy, pool
<1>2. CASE FillFront
  <2>1. /\ TradeWithFront /\ pc = "level" /\ remaining > 0 /\ top # kNil /\ BInv
        /\ remaining' = remaining - fillQty
    BY <1>2 DEF FillFront, TradeWithFront, IInv
  <2>2. CASE Spent
    <3>1. release(UnlinkLinks(links, top), top)
      BY <2>1, <2>2 DEF TradeWithFront
    <3> QED BY <3>1, <2>1 DEF release, Roomy
  <2>3. CASE ~Spent
    <3>1. top \in DOMAIN orders /\ orders[top] \in PooledOrder /\ remaining \in Nat
      BY <2>1, FrontOfLevel DEF BInv, BookTypeOK
    <3>2. orders[top].remainQty \in Nat
      BY <3>1 DEF PooledOrder
    <3>3. fillQty = remaining
      BY <2>3, <3>1, <3>2 DEF Spent, left, fillQty, Lesser
    <3>4. remaining' = 0
      BY <2>1, <3>1, <3>3
    <3> QED BY <3>4 DEF Roomy
  <2> QED BY <2>2, <2>3
<1>3. CASE \E request \in OrderRequest : Submit(request) \/ SubmitRefused(request)
  BY <1>3 DEF Submit, SubmitRefused, locals, Roomy
<1>4. CASE LeaveLevel
  BY <1>4 DEF LeaveLevel, Roomy, pool
<1>5. CASE SubmitFilled \/ SubmitRests \/ SubmitNoSlot
  BY <1>5 DEF SubmitFilled, SubmitRests, RestInSlot, SubmitNoSlot, Return, Roomy
<1>6. CASE \E ref \in Refs : Cancel(ref) \/ CancelUnknown(ref)
  BY <1>6 DEF Cancel, CancelUnknown, RemoveOrder, RemoveNothing, locals, Roomy
<1>7. CASE UNCHANGED vars
  BY <1>7 DEF vars, bookVars, pool, locals, Roomy
<1> QED BY <1>1, <1>2, <1>3, <1>4, <1>5, <1>6, <1>7 DEF Next, Working
-----------------------------------------------------------------------------
(***************************************************************************)
(* The vocabulary of the promise is that of the book                       *)
(***************************************************************************)
\* An instance has its own names for what both extend.
LEMMA SameVocabulary ==
    /\ PriceTime!BookSide = BookSide
    /\ \A side : PriceTime!Opposite(side) = Opposite(side)
    /\ \A side, p, q : PriceTime!Better(side, p, q) <=> Better(side, p, q)
    /\ \A side, p, q : PriceTime!Crosses(side, p, q) <=> Crosses(side, p, q)
    /\ \A m, n : PriceTime!Lesser(m, n) = Lesser(m, n)
<1>1. PriceTime!BookSide = BookSide
  BY DEF PriceTime!BookSide, PriceTime!Buy, PriceTime!Sell, BookSide, Buy, Sell
<1>2. \A side : PriceTime!Opposite(side) = Opposite(side)
  BY DEF PriceTime!Opposite, PriceTime!Buy, PriceTime!Sell, Opposite, Buy, Sell
<1>3. \A side, p, q : PriceTime!Better(side, p, q) <=> Better(side, p, q)
  BY DEF PriceTime!Better, PriceTime!Buy, Better, Buy
<1>4. \A side, p, q : PriceTime!Crosses(side, p, q) <=> Crosses(side, p, q)
  BY DEF PriceTime!Crosses, PriceTime!Buy, Crosses, Buy
<1>5. \A m, n : PriceTime!Lesser(m, n) = Lesser(m, n)
  BY DEF PriceTime!Lesser, Lesser
<1> QED BY <1>1, <1>2, <1>3, <1>4, <1>5

\* A request at work is a taker.
LEMMA WorkerIs ==
    ASSUME NoWorker, BookTypeOK, pc # "idle"
    PROVE  /\ req \in OrderRequest
           /\ req.ref \in Refs /\ req.limit_price \in Prices
           /\ remaining \in Nat /\ ownSide \in BookSide
           /\ Worker = [ref |-> req.ref, side |-> ownSide, limit_price |-> req.limit_price,
                        remaining |-> remaining]
           /\ Worker # None
<1>1. req \in OrderRequest /\ req # None /\ remaining \in Nat /\ ownSide \in BookSide
  BY OwnSide DEF BookTypeOK
<1>2. req.ref \in Refs /\ req.limit_price \in Prices
  BY <1>1 DEF OrderRequest
<1>3. Worker = [ref |-> req.ref, side |-> ownSide, limit_price |-> req.limit_price,
                remaining |-> remaining]
  BY <1>1 DEF Worker
<1>4. Worker \in PriceTime!Taker
  BY <1>1, <1>2, <1>3, SameVocabulary DEF PriceTime!Taker
<1> QED BY <1>1, <1>2, <1>3, <1>4 DEF NoWorker

\* And back, when there is none.
LEMMA NoneAtWork == ASSUME BookTypeOK, pc = "idle" PROVE Worker = None
  BY DEF BookTypeOK, Worker
-----------------------------------------------------------------------------
(***************************************************************************)
(* The queues of the promise, as lists of slots                            *)
(***************************************************************************)
\* What the promise keeps of an order, and of a list of slots.
Entry(o)          == [resting |-> o.ref, remainQty |-> o.remainQty]
EntriesOf(ord, c) == [k \in DOMAIN c |-> Entry(ord[c[k]])]
EntriesAt(side, i) == Entries(Held(side, i))

\* A level's queue, read before a step and after it.
LEMMA EntriesRead ==
    ASSUME OrdersType(orders), NEW side, NEW i, NEW c,
           QueueIs(c, links, orders, levels, side, i)
    PROVE  EntriesAt(side, i) = EntriesOf(orders, c)
<1>1. Queue(side, i) = c
  BY QueueRead
<1>2. Held(side, i) = HeldOf(orders, c)
  BY <1>1 DEF Held, HeldOf
<1>3. DOMAIN HeldOf(orders, c) = DOMAIN c /\ \A k \in DOMAIN c : HeldOf(orders, c)[k] = orders[c[k]]
  BY DEF HeldOf
<1> QED BY <1>2, <1>3 DEF EntriesAt, Entries, EntriesOf, Entry

LEMMA EntriesReadAfter ==
    ASSUME OrdersType(orders'), NEW side, NEW i, NEW c,
           QueueIs(c, links', orders', levels', side, i)
    PROVE  EntriesAt(side, i)' = EntriesOf(orders', c)
<1>1. Queue(side, i)' = c
  BY QueueReadAfter
<1>2. Held(side, i)' = HeldOf(orders', c)
  BY <1>1 DEF Held, HeldOf
<1>3. /\ DOMAIN HeldOf(orders', c) = DOMAIN c
      /\ \A k \in DOMAIN c : HeldOf(orders', c)[k] = orders'[c[k]]
  BY DEF HeldOf
<1> QED BY <1>2, <1>3 DEF EntriesAt, Entries, EntriesOf, Entry

EntryType == [resting : Refs, remainQty : Nat \ {0}]

\* The slots of a queue are those of the orders kept there.
LEMMA SlotParts ==
    ASSUME NEW lk, NEW ord, OrdersType(ord), NEW lev, NEW side, NEW i, NEW c,
           QueueIs(c, lk, ord, lev, side, i)
    PROVE  /\ Len(c) \in Nat /\ DOMAIN c = 1..Len(c)
           /\ \A k \in 1..Len(c) : c[k] \in DOMAIN ord /\ IsAt(ord, c[k], side, i)
           /\ Len(c) = 0 => lev[side][i].head = kNil
           /\ Len(c) # 0 => /\ 1 \in 1..Len(c) /\ c[1] = lev[side][i].head
                           /\ lev[side][i].head # kNil
<1>1. /\ Len(c) \in Nat /\ DOMAIN c = 1..Len(c) /\ \A k \in 1..Len(c) : c[k] \in At(ord, side, i)
      /\ Len(c) # 0 => 1 \in 1..Len(c)
  BY ListParts DEF QueueIs
<1>2. \A k \in 1..Len(c) : c[k] \in DOMAIN ord /\ IsAt(ord, c[k], side, i)
  BY <1>1 DEF At
<1>3. /\ Len(c) = 0 => lev[side][i].head = kNil
      /\ Len(c) # 0 => lev[side][i].head = c[1]
  BY DEF QueueIs, IsList
<1>4. Len(c) # 0 => c[1] # kNil
  BY <1>1, <1>2, NilIsNoSlot DEF OrdersType
<1> QED BY <1>1, <1>2, <1>3, <1>4

\* Its entries are what the promise keeps of them.
LEMMA EntryParts ==
    ASSUME NEW lk, NEW ord, OrdersType(ord), NEW lev, NEW side, NEW i, NEW c,
           QueueIs(c, lk, ord, lev, side, i)
    PROVE  /\ EntriesOf(ord, c) \in Seq(EntryType) /\ Len(EntriesOf(ord, c)) = Len(c)
           /\ DOMAIN EntriesOf(ord, c) = 1..Len(c)
           /\ \A k \in 1..Len(c) : EntriesOf(ord, c)[k] = Entry(ord[c[k]])
           /\ EntriesOf(ord, c) = <<>> <=> lev[side][i].head = kNil
<1>1. /\ Len(c) \in Nat /\ DOMAIN c = 1..Len(c)
      /\ \A k \in 1..Len(c) : c[k] \in DOMAIN ord
      /\ Len(c) = 0 <=> lev[side][i].head = kNil
  <2>1. Len(c) \in Nat /\ DOMAIN c = 1..Len(c)
    BY SlotParts
  <2>2. \A k \in 1..Len(c) : c[k] \in DOMAIN ord /\ IsAt(ord, c[k], side, i)
    BY SlotParts
  <2>3. Len(c) = 0 => lev[side][i].head = kNil
    BY DEF QueueIs, IsList
  <2>4. Len(c) # 0 => lev[side][i].head # kNil
    BY SlotParts
  <2> QED BY <2>1, <2>2, <2>3, <2>4
<1>2. \A k \in 1..Len(c) : Entry(ord[c[k]]) \in EntryType
  BY <1>1, PlaceOfOrder DEF Entry, EntryType
<1> DEFINE e == EntriesOf(ord, c)
<1>3. e = [k \in 1..Len(c) |-> Entry(ord[c[k]])]
  BY <1>1 DEF EntriesOf
<1>4. e \in [1..Len(c) -> EntryType]
  BY <1>2, <1>3
<1>5. /\ e \in Seq(EntryType) /\ Len(e) = Len(c) /\ DOMAIN e = 1..Len(c)
      /\ \A k \in 1..Len(c) : e[k] = Entry(ord[c[k]])
  BY <1>1, <1>3, <1>4
<1> HIDE DEF e
<1>6. e = <<>> <=> Len(c) = 0
  BY <1>5, EmptySeq
<1> QED BY <1>1, <1>5, <1>6 DEF e

\* A level with no head has no entries.
LEMMA NoEntries ==
    ASSUME NEW lk, NEW ord, OrdersType(ord), NEW lev, NEW side, NEW i, NEW c,
           QueueIs(c, lk, ord, lev, side, i), lev[side][i].head = kNil
    PROVE  EntriesOf(ord, c) = <<>>
<1>1. Len(c) = 0
  <2>1. Len(c) # 0 => lev[side][i].head # kNil
    BY SlotParts
  <2> QED BY <2>1
<1>2. EntriesOf(ord, c) \in Seq(EntryType) /\ Len(EntriesOf(ord, c)) = Len(c)
  BY EntryParts
<1> QED BY <1>1, <1>2, EmptySeq

\* One with a head has some.
LEMMA SomeEntries ==
    ASSUME NEW lk, NEW ord, OrdersType(ord), NEW lev, NEW side, NEW i, NEW c,
           QueueIs(c, lk, ord, lev, side, i), lev[side][i].head # kNil
    PROVE  EntriesOf(ord, c) # <<>>
<1>1. Len(c) = 0 => lev[side][i].head = kNil
  BY DEF QueueIs, IsList
<1>2. EntriesOf(ord, c) \in Seq(EntryType) /\ Len(EntriesOf(ord, c)) = Len(c)
  BY EntryParts
<1> QED BY <1>1, <1>2, EmptySeq

\* The queues of all levels, by level and by price.
Levels     == [side \in BookSide |-> [i \in LevelIdx |-> EntriesAt(side, i)]]
ByPrice(L) == [side \in BookSide |-> [p \in Prices |->
                 IF HasIndex(p) THEN L[side][index(p)] ELSE <<>>]]

\* The prices of the levels are those index() accepts.
LEMMA WindowIs == InWindow = {p \in Prices : HasIndex(p)}
  BY PricesOfLevels DEF InWindow

LEMMA QueuesByPrice ==
    /\ Queues = ByPrice(Levels) /\ Queues' = ByPrice(Levels')
    /\ \A side \in BookSide, i \in LevelIdx : /\ Levels[side][i] = EntriesAt(side, i)
                                              /\ Levels'[side][i] = EntriesAt(side, i)'
<1>1. Queues = ByPrice(Levels)
  BY WindowIs, LevelOfPrice DEF Queues, ByPrice, Levels, EntriesAt
<1>2. Queues' = ByPrice(Levels')
  BY WindowIs, LevelOfPrice DEF Queues, ByPrice, Levels, EntriesAt
<1> QED BY <1>1, <1>2 DEF Levels

\* The queue of one price.
LEMMA QueueAt ==
    ASSUME NEW side \in BookSide, NEW i \in LevelIdx, NEW p \in Prices, p = priceAt(i)
    PROVE  HasIndex(p) /\ index(p) = i /\ Queues[side][p] = EntriesAt(side, i)
<1>1. HasIndex(p) /\ index(p) = i
  BY PriceOfLevel
<1> HIDE DEF priceAt
<1> QED BY <1>1, WindowIs DEF Queues, EntriesAt

\* One level's queue becomes this one.
Becomes(side, i, new) ==
    \A other \in BookSide, j \in LevelIdx :
       EntriesAt(other, j)' = IF other = side /\ j = i THEN new ELSE EntriesAt(other, j)
WithQueue(Q, side, p, new) == [Q EXCEPT ![side][p] = new]

\* One level changes, and one queue.
LEMMA OneQueue ==
    ASSUME NEW side \in BookSide, NEW i \in LevelIdx, NEW p \in Prices, p = priceAt(i), NEW new,
           Becomes(side, i, new)
    PROVE  Queues' = WithQueue(Queues, side, p, new)
<1> DEFINE R == [Queues EXCEPT ![side][p] = new]
<1>1. HasIndex(p) /\ index(p) = i
  BY PriceOfLevel
<1>2. ASSUME NEW sd \in BookSide, NEW q \in Prices
      PROVE  Queues'[sd][q] = R[sd][q]
  <2>1. R[sd][q] = IF sd = side /\ q = p THEN new ELSE Queues[sd][q]
    BY DEF Queues
  <2> HIDE DEF R
  <2>2. CASE HasIndex(q)
    <3>1. index(q) \in LevelIdx /\ (index(q) = i => q = p)
      BY <2>2, LevelOfPrice
    <3>2. Queues'[sd][q] = EntriesAt(sd, index(q))' /\ Queues[sd][q] = EntriesAt(sd, index(q))
      BY <2>2, <3>1, QueuesByPrice DEF ByPrice
    <3> QED BY <3>1, <3>2, <2>1, <1>1 DEF Becomes
  <2>3. CASE ~HasIndex(q)
    <3>1. Queues'[sd][q] = <<>> /\ Queues[sd][q] = <<>>
      BY <2>3, QueuesByPrice DEF ByPrice
    <3> QED BY <3>1, <2>1, <2>3, <1>1
  <2> QED BY <2>2, <2>3
<1>3. R = [sd \in BookSide |-> [q \in Prices |-> R[sd][q]]]
  <2>1. \A sd \in BookSide : R[sd] = [q \in Prices |-> R[sd][q]]
    BY DEF Queues
  <2>2. R = [sd \in BookSide |-> R[sd]]
    BY DEF Queues
  <2> HIDE DEF R
  <2> QED BY <2>1, <2>2
<1> HIDE DEF R
<1>4. Queues' = [sd \in BookSide |-> [q \in Prices |-> Queues'[sd][q]]]
  BY QueuesByPrice DEF ByPrice
<1> QED BY <1>2, <1>3, <1>4 DEF R, WithQueue

\* A step that leaves the book alone leaves the queues.
LEMMA QueuesKept == ASSUME BInv, UNCHANGED <<pool, book>> PROVE Queues' = Queues
<1>1. OrdersType(orders) /\ links' = links /\ orders' = orders /\ levels' = levels
  BY TypeParts DEF BInv, pool, book
<1>2. ASSUME NEW side \in BookSide, NEW i \in LevelIdx
      PROVE  EntriesAt(side, i)' = EntriesAt(side, i)
  <2>1. PICK c : QueueIs(c, links, orders, levels, side, i)
    BY DEF BInv, QueuesListed
  <2>2. QueueIs(c, links', orders', levels', side, i) /\ OrdersType(orders')
    BY <1>1, <2>1
  <2> QED BY <1>1, <2>1, <2>2, EntriesRead, EntriesReadAfter
<1>3. Levels' = Levels
  BY <1>2 DEF Levels
<1> QED BY <1>3, QueuesByPrice

\* What rests in a queue is what rests in the pool.
LEMMA InBookIs == ASSUME BInv, NEW r PROVE PriceTime!InBook(r) <=> IsLive(r)
<1>0. OrdersType(orders) /\ Linked(links, orders, levels)
  BY TypeParts DEF BInv
<1>1. ASSUME PriceTime!InBook(r) PROVE IsLive(r)
  <2>0. PICK side \in BookSide, p \in Prices :
           \E n \in 1..Len(Queues[side][p]) : PriceTime!Rests(r, side, p, n)
    BY <1>1, SameVocabulary DEF PriceTime!InBook
  <2>1. PICK n \in 1..Len(Queues[side][p]) :
           n \in DOMAIN Queues[side][p] /\ Queues[side][p][n].resting = r
    BY <2>0 DEF PriceTime!Rests
  <2>2. HasIndex(p)
    <3> SUFFICES ASSUME ~HasIndex(p) PROVE FALSE
      OBVIOUS
    <3>1. Queues[side][p] = <<>>
      BY WindowIs DEF Queues
    <3> QED BY <3>1, <2>1
  <2>3. index(p) \in LevelIdx
    BY <2>2, LevelOfPrice
  <2>4. PICK c : QueueIs(c, links, orders, levels, side, index(p))
    BY <2>3 DEF BInv, QueuesListed
  <2>5. Queues[side][p] = EntriesOf(orders, c)
    BY <1>0, <2>2, <2>4, EntriesRead, WindowIs DEF Queues, EntriesAt
  <2>6. n \in 1..Len(c) /\ EntriesOf(orders, c)[n] = Entry(orders[c[n]])
    BY <1>0, <2>1, <2>4, <2>5, EntryParts
  <2>7. c[n] \in DOMAIN orders
    BY <1>0, <2>4, <2>6, SlotParts
  <2> QED BY <2>1, <2>5, <2>6, <2>7 DEF Entry, IsLive
<1>2. ASSUME IsLive(r) PROVE PriceTime!InBook(r)
  <2>1. PICK s \in DOMAIN orders : orders[s].ref = r
    BY <1>2 DEF IsLive
  <2> DEFINE side == BookSideOf(orders[s].side)
             i    == orders[s].level
             p    == priceAt(i)
  <2>2. side \in BookSide /\ i \in LevelIdx /\ IsAt(orders, s, side, i)
    BY <1>0, PlaceOfOrder DEF IsAt
  <2> HIDE DEF side, i
  <2>3. PICK c : QueueIs(c, links, orders, levels, side, i)
    BY <2>2 DEF BInv, QueuesListed
  <2>4. PICK n \in 1..Len(c) : c[n] = s
    BY <2>2, <2>3 DEF QueueIs, IsList, At
  <2>5. Len(EntriesOf(orders, c)) = Len(c) /\ EntriesOf(orders, c) \in Seq(EntryType)
        /\ EntriesOf(orders, c)[n] = Entry(orders[s])
    BY <1>0, <2>3, <2>4, EntryParts
  <2>6. levels[side][i].head # kNil
    <3>1. EntriesOf(orders, c) # <<>>
      BY <2>4, <2>5, EmptySeq
    <3> QED BY <3>1, <1>0, <2>3, EntryParts
  <2>7. p \in Prices
    BY <2>2, <2>6 DEF BInv, Priced
  <2>8. Queues[side][p] = EntriesOf(orders, c)
    BY <1>0, <2>2, <2>3, <2>7, QueueAt, EntriesRead
  <2>9. n \in 1..Len(Queues[side][p]) /\ n \in DOMAIN Queues[side][p]
        /\ Queues[side][p][n].resting = r
    BY <2>1, <2>5, <2>8, LenProperties DEF Entry
  <2> QED BY <2>2, <2>7, <2>9, SameVocabulary DEF PriceTime!InBook, PriceTime!Rests
<1> QED BY <1>1, <1>2

\* The promise's book is full when the free list is empty.
LEMMA FullIs == ASSUME IInv PROVE PriceTime!Full <=> free_head = kNil
<1> DEFINE R == {r \in Refs : PriceTime!InBook(r)}
           f == [s \in DOMAIN orders |-> orders[s].ref]
<1>1. /\ OrdersType(orders) /\ BInv /\ FreeListed(links, orders, free_head)
      /\ DOMAIN orders \subseteq Slot
  BY TypeParts DEF IInv, BInv, OrdersType
<1>2. /\ IsFiniteSet(Slot) /\ Cardinality(Slot) = kMaxOrders /\ kMaxOrders \in Nat \ {0}
      /\ IsFiniteSet(DOMAIN orders) /\ Cardinality(DOMAIN orders) \in Nat
  BY <1>1, SlotsFinite, PoolAssumption, FS_Subset, FS_CardinalityType
<1>3. f \in Bijection(DOMAIN orders, R)
  <2>1. \A s \in DOMAIN orders : orders[s].ref \in Refs /\ IsLive(orders[s].ref)
    BY <1>1, PlaceOfOrder DEF IsLive
  <2>2. \A s \in DOMAIN orders : f[s] \in R
    BY <1>1, <2>1, InBookIs
  <2>3. \A s, t \in DOMAIN orders : f[s] = f[t] => s = t
    BY DEF IInv, IndexAgrees
  <2>4. \A r \in R : \E s \in DOMAIN orders : f[s] = r
    BY <1>1, InBookIs DEF IsLive
  <2>5. f \in [DOMAIN orders -> R]
    BY <2>2
  <2> HIDE DEF f, R
  <2> QED BY <2>3, <2>4, <2>5 DEF Bijection, Injection, Surjection, IsInjective
<1>4. Cardinality(R) = Cardinality(DOMAIN orders)
  <2> HIDE DEF R, f
  <2> QED BY <1>2, <1>3, FS_Bijection DEF ExistsBijection
<1>5. free_head = kNil => DOMAIN orders = Slot
  <2>1. PICK c : IsList(c, links, free_head, Slot \ DOMAIN orders)
    BY <1>1 DEF FreeListed, Listed
  <2>2. kNil \notin Slot \ DOMAIN orders
    BY NilIsNoSlot
  <2> QED BY <2>1, <2>2, <1>1, ListOfNone
<1>6. free_head # kNil => DOMAIN orders # Slot
  <2>1. PICK c : IsList(c, links, free_head, Slot \ DOMAIN orders)
    BY <1>1 DEF FreeListed, Listed
  <2>2. DOMAIN orders = Slot => IsList(c, links, free_head, {})
    BY <2>1
  <2> QED BY <2>2, ListOfNone
<1>7. Cardinality(DOMAIN orders) >= kMaxOrders <=> DOMAIN orders = Slot
  <2>1. DOMAIN orders # Slot => Cardinality(DOMAIN orders) < Cardinality(Slot)
    BY <1>1, <1>2, FS_Subset
  <2> QED BY <2>1, <1>2
<1>8. PriceTime!Cardinality(R) = Cardinality(R)
  <2> HIDE DEF R
  <2> QED BY DEF PriceTime!Cardinality, Cardinality, PriceTime!IsFiniteSet, IsFiniteSet
<1>9. PriceTime!Full <=> kMaxOrders # -1 /\ Cardinality(R) >= kMaxOrders
  BY <1>8 DEF PriceTime!Full, PriceTime!Unlimited
<1> HIDE DEF R
<1> QED BY <1>2, <1>4, <1>5, <1>6, <1>7, <1>9
-----------------------------------------------------------------------------
(***************************************************************************)
(* What each step does to the queues                                       *)
(***************************************************************************)
\* A queue whose orders stay as they are.
LEMMA EntriesKept ==
    ASSUME OrdersType(orders), OrdersType(orders'), NEW side, NEW i, NEW c,
           QueueIs(c, links, orders, levels, side, i),
           QueueIs(c, links', orders', levels', side, i),
           \A s \in DOMAIN orders : s \in DOMAIN orders' => orders'[s] = orders[s]
    PROVE  EntriesAt(side, i)' = EntriesAt(side, i)
<1>1. \A k \in 1..Len(c) : c[k] \in DOMAIN orders
  BY SlotParts
<1>2. \A k \in 1..Len(c) : c[k] \in DOMAIN orders'
  BY SlotParts
<1>3. DOMAIN c = 1..Len(c)
  BY SlotParts
<1>4. \A k \in 1..Len(c) : orders'[c[k]] = orders[c[k]]
  BY <1>1, <1>2
<1>5. EntriesOf(orders', c) = EntriesOf(orders, c)
  BY <1>3, <1>4 DEF EntriesOf
<1>6. EntriesAt(side, i)' = EntriesOf(orders', c)
  BY EntriesReadAfter
<1>7. EntriesAt(side, i) = EntriesOf(orders, c)
  BY EntriesRead
<1> QED BY <1>5, <1>6, <1>7

\* A queue that loses a slot.
LEMMA EntriesOut ==
    ASSUME OrdersType(orders), OrdersType(orders'), NEW side, NEW i, NEW c,
           QueueIs(c, links, orders, levels, side, i),
           NEW k \in 1..Len(c), NEW d, Without(d, c, k),
           QueueIs(d, links', orders', levels', side, i),
           \A s \in DOMAIN orders : s \in DOMAIN orders' => orders'[s] = orders[s]
    PROVE  /\ EntriesAt(side, i) \in Seq(EntryType) /\ EntriesAt(side, i)' \in Seq(EntryType)
           /\ k \in 1..Len(EntriesAt(side, i))
           /\ EntriesAt(side, i)[k] = Entry(orders[c[k]])
           /\ Without(EntriesAt(side, i)', EntriesAt(side, i), k)
<1> DEFINE e == EntriesOf(orders, c)
           f == EntriesOf(orders', d)
<1>1. e \in Seq(EntryType) /\ Len(e) = Len(c) /\ \A m \in 1..Len(c) : e[m] = Entry(orders[c[m]])
  BY EntryParts
<1>2. f \in Seq(EntryType) /\ Len(f) = Len(d) /\ \A m \in 1..Len(d) : f[m] = Entry(orders'[d[m]])
  BY EntryParts
<1>3. Len(c) \in Nat /\ \A m \in 1..Len(c) : c[m] \in DOMAIN orders
  BY SlotParts
<1>4. \A m \in 1..Len(d) : d[m] \in DOMAIN orders'
  BY SlotParts
<1>5. Len(d) = Len(c) - 1 /\ \A m \in 1..Len(d) : d[m] = IF m < k THEN c[m] ELSE c[m + 1]
  BY DEF Without
<1> HIDE DEF e, f
<1>6. ASSUME NEW m \in 1..Len(d) PROVE f[m] = IF m < k THEN e[m] ELSE e[m + 1]
  <2>1. m \in 1..Len(c) /\ m + 1 \in 1..Len(c)
    BY <1>3, <1>5
  <2>2. d[m] \in DOMAIN orders
    BY <2>1, <1>3, <1>5
  <2>3. f[m] = Entry(orders[d[m]])
    BY <2>2, <1>2, <1>4
  <2> QED BY <2>1, <2>3, <1>1, <1>5
<1>7. Without(f, e, k)
  BY <1>1, <1>2, <1>5, <1>6 DEF Without
<1>8. EntriesAt(side, i)' = f
  BY EntriesReadAfter DEF f
<1>9. EntriesAt(side, i) = e
  BY EntriesRead DEF e
<1> QED BY <1>1, <1>2, <1>7, <1>8, <1>9

Omitted(s, k) == SubSeq(s, 1, k - 1) \o SubSeq(s, k + 1, Len(s))

\* A slot leaves its queue, and the queue its entry.
LEMMA QueuesOut ==
    ASSUME BInv, OrdersType(orders'), NEW slot \in DOMAIN orders,
           NEW side \in BookSide, NEW i \in LevelIdx, IsAt(orders, slot, side, i),
           QueueOut(slot, side, i), orders' = WithoutSlot(orders, slot),
           NEW p \in Prices, p = priceAt(i)
    PROVE  \E k \in 1..Len(Queues[side][p]) :
              /\ k \in DOMAIN Queues[side][p]
              /\ Queues[side][p][k] = Entry(orders[slot])
              /\ Queues' = WithQueue(Queues, side, p, Omitted(Queues[side][p], k))
              /\ levels[side][i].head = slot =>
                   k = 1 /\ Queues' = WithQueue(Queues, side, p, Tail(Queues[side][p]))
<1>1. OrdersType(orders)
  BY TypeParts DEF BInv
<1>2. \A s \in DOMAIN orders : s \in DOMAIN orders' => orders'[s] = orders[s]
  BY DEF WithoutSlot
<1>3. PICK c : QueueIs(c, links, orders, levels, side, i)
  BY DEF BInv, QueuesListed
<1>4. PICK k \in 1..Len(c) : /\ c[k] = slot
                             /\ \E d : /\ Without(d, c, k)
                                       /\ QueueIs(d, links', orders', levels', side, i)
  BY <1>3 DEF QueueOut
<1>5. PICK d : Without(d, c, k) /\ QueueIs(d, links', orders', levels', side, i)
  BY <1>4
<1> DEFINE q == EntriesAt(side, i)
           r == EntriesAt(side, i)'
<1>6. /\ q \in Seq(EntryType) /\ r \in Seq(EntryType) /\ k \in 1..Len(q)
      /\ q[k] = Entry(orders[slot]) /\ Without(r, q, k)
  BY <1>1, <1>2, <1>3, <1>4, <1>5, EntriesOut
<1>7. ASSUME NEW other \in BookSide, NEW j \in LevelIdx, other # side \/ j # i
      PROVE  EntriesAt(other, j)' = EntriesAt(other, j)
  <2>1. PICK b : QueueIs(b, links, orders, levels, other, j)
    BY DEF BInv, QueuesListed
  <2>2. QueueIs(b, links', orders', levels', other, j)
    BY <2>1, <1>7 DEF QueueOut
  <2> QED BY <2>1, <2>2, <1>1, <1>2, EntriesKept
<1>8. levels[side][i].head = slot => k = 1
  <2>1. 1 \in 1..Len(c) => c[1] = levels[side][i].head
    BY <1>3 DEF QueueIs, IsList
  <2>2. \A m, n \in 1..Len(c) : c[m] = c[n] => m = n
    BY <1>3 DEF QueueIs, IsList
  <2>3. 1 \in 1..Len(c)
    BY <1>4
  <2> QED BY <2>1, <2>2, <2>3, <1>4
<1> HIDE DEF q, r
<1>9. r = Omitted(q, k) /\ (k = 1 => q # <<>> /\ r = Tail(q))
  BY <1>6, WithoutIs DEF Omitted
<1>10. Becomes(side, i, r)
  BY <1>7 DEF r, Becomes
<1>11. Queues' = WithQueue(Queues, side, p, r)
  BY <1>10, OneQueue
<1>12. Queues[side][p] = q
  BY QueueAt DEF q
<1>13. k \in DOMAIN q
  BY <1>6, LenProperties
<1> QED BY <1>6, <1>8, <1>9, <1>11, <1>12, <1>13

\* The front of a queue is lowered in place.
LEMMA QueuesLowered ==
    ASSUME BInv, OrdersType(orders'), NEW slot \in DOMAIN orders,
           NEW side \in BookSide, NEW i \in LevelIdx, IsAt(orders, slot, side, i),
           levels[side][i].head = slot, DOMAIN orders' = DOMAIN orders, links' = links,
           \A s \in DOMAIN orders :
              /\ orders'[s].side = orders[s].side /\ orders'[s].level = orders[s].level
              /\ s # slot => orders'[s] = orders[s],
           \A other \in BookSide, j \in LevelIdx : levels'[other][j].head = levels[other][j].head,
           NEW p \in Prices, p = priceAt(i)
    PROVE  /\ Queues[side][p] # <<>> /\ Queues[side][p][1] = Entry(orders[slot])
           /\ Queues' = WithQueue(Queues, side, p,
                          [Queues[side][p] EXCEPT ![1] = Entry(orders'[slot])])
<1>1. OrdersType(orders)
  BY TypeParts DEF BInv
<1>2. ASSUME NEW other \in BookSide, NEW j \in LevelIdx, NEW c,
             QueueIs(c, links, orders, levels, other, j)
      PROVE  QueueIs(c, links', orders', levels', other, j)
  <2>1. QueueIs(c, links, orders', levels', other, j)
    BY <1>2, QueuesByPlace
  <2> QED BY <2>1
<1>3. ASSUME NEW other \in BookSide, NEW j \in LevelIdx, other # side \/ j # i
      PROVE  EntriesAt(other, j)' = EntriesAt(other, j)
  <2>1. PICK c : QueueIs(c, links, orders, levels, other, j)
    BY DEF BInv, QueuesListed
  <2>2. QueueIs(c, links', orders', levels', other, j)
    BY <2>1, <1>2
  <2>3. DOMAIN c = 1..Len(c) /\ \A k \in 1..Len(c) : c[k] \in DOMAIN orders /\ IsAt(orders, c[k], other, j)
    BY <2>1, <1>1, SlotParts
  <2>4. \A k \in 1..Len(c) : orders'[c[k]] = orders[c[k]]
    BY <2>3, <1>3 DEF IsAt
  <2>5. EntriesOf(orders', c) = EntriesOf(orders, c)
    BY <2>3, <2>4 DEF EntriesOf
  <2>6. EntriesAt(other, j)' = EntriesOf(orders', c)
    BY <2>2, EntriesReadAfter
  <2>7. EntriesAt(other, j) = EntriesOf(orders, c)
    BY <2>1, <1>1, EntriesRead
  <2> QED BY <2>5, <2>6, <2>7
<1>4. PICK c : QueueIs(c, links, orders, levels, side, i)
  BY DEF BInv, QueuesListed
<1>5. QueueIs(c, links', orders', levels', side, i)
  BY <1>2, <1>4
<1>6. /\ Len(c) \in Nat /\ DOMAIN c = 1..Len(c)
      /\ \A k \in 1..Len(c) : c[k] \in DOMAIN orders
  BY <1>1, <1>4, SlotParts
<1>7. Len(c) # 0 /\ 1 \in 1..Len(c) /\ c[1] = slot
  <2>1. slot # kNil
    BY <1>1, NilIsNoSlot DEF OrdersType
  <2>2. Len(c) = 0 => levels[side][i].head = kNil
    BY <1>4 DEF QueueIs, IsList
  <2>3. Len(c) # 0 => 1 \in 1..Len(c) /\ c[1] = levels[side][i].head
    BY <1>1, <1>4, SlotParts
  <2> QED BY <2>1, <2>2, <2>3
<1>8. \A k \in 1..Len(c) : k # 1 => c[k] # slot
  BY <1>4, <1>7 DEF QueueIs, IsList
<1> DEFINE e == EntriesOf(orders, c)
           f == EntriesOf(orders', c)
           g == [e EXCEPT ![1] = Entry(orders'[slot])]
<1>9. /\ DOMAIN e = 1..Len(c) /\ e \in Seq(EntryType) /\ Len(e) = Len(c)
      /\ \A k \in 1..Len(c) : e[k] = Entry(orders[c[k]])
  BY <1>1, <1>4, EntryParts
<1>10. f = [k \in 1..Len(c) |-> Entry(orders'[c[k]])]
  BY <1>6 DEF EntriesOf
<1>11. e = [k \in 1..Len(c) |-> Entry(orders[c[k]])]
  BY <1>6 DEF EntriesOf
<1>12. \A k \in 1..Len(c) : f[k] = IF k = 1 THEN Entry(orders'[slot]) ELSE e[k]
  BY <1>6, <1>7, <1>8, <1>10, <1>11
<1> HIDE DEF e, f
<1>13. g = f
  BY <1>10, <1>11, <1>12
<1> HIDE DEF g
<1>14. EntriesAt(side, i)' = f /\ EntriesAt(side, i) = e
  BY <1>1, <1>4, <1>5, EntriesRead, EntriesReadAfter DEF e, f
<1>15. Becomes(side, i, g)
  BY <1>3, <1>13, <1>14 DEF Becomes
<1>16. Queues' = WithQueue(Queues, side, p, g)
  BY <1>15, OneQueue
<1>17. Queues[side][p] = e
  BY <1>14, QueueAt
<1>18. e # <<>> /\ e[1] = Entry(orders[slot])
  BY <1>7, <1>9, EmptySeq
<1> QED BY <1>16, <1>17, <1>18 DEF g

\* An order joins the back of its queue.
LEMMA QueuesPushed ==
    ASSUME BInv, OrdersType(orders'), NEW slot \in Slot \ DOMAIN orders, NEW o,
           NEW side \in BookSide, NEW i \in LevelIdx,
           QueuePushed(slot, side, i), orders' = WithSlot(orders, slot, o),
           NEW p \in Prices, p = priceAt(i)
    PROVE  Queues' = WithQueue(Queues, side, p, Append(Queues[side][p], Entry(o)))
<1>1. OrdersType(orders)
  BY TypeParts DEF BInv
<1>2. /\ \A s \in DOMAIN orders : s \in DOMAIN orders' => orders'[s] = orders[s]
      /\ \A s \in DOMAIN orders : orders'[s] = orders[s]
      /\ orders'[slot] = o
  BY DEF WithSlot
<1>3. ASSUME NEW other \in BookSide, NEW j \in LevelIdx, other # side \/ j # i
      PROVE  EntriesAt(other, j)' = EntriesAt(other, j)
  <2>1. PICK c : QueueIs(c, links, orders, levels, other, j)
    BY DEF BInv, QueuesListed
  <2>2. QueueIs(c, links', orders', levels', other, j)
    BY <2>1, <1>3 DEF QueuePushed
  <2> QED BY <2>1, <2>2, <1>1, <1>2, EntriesKept
<1>4. PICK c : QueueIs(c, links, orders, levels, side, i)
  BY DEF BInv, QueuesListed
<1> DEFINE d == Append(c, slot)
<1>5. QueueIs(d, links', orders', levels', side, i)
  BY <1>4 DEF QueuePushed
<1>6. Len(c) \in Nat /\ \A k \in 1..Len(c) : c[k] \in DOMAIN orders
  BY <1>1, <1>4, SlotParts
<1>7. Len(d) = Len(c) + 1 /\ \A k \in 1..Len(d) : d[k] = IF k = Len(c) + 1 THEN slot ELSE c[k]
  <2>1. c \in Seq(At(orders, side, i))
    BY <1>4 DEF QueueIs, IsList
  <2>2. c \in Seq(Slot)
    BY <2>1, <1>1 DEF At, OrdersType
  <2> QED BY <2>2, AppendProperties
<1> DEFINE e == EntriesOf(orders, c)
           f == EntriesOf(orders', d)
           g == Append(e, Entry(o))
<1>8. e \in Seq(EntryType) /\ Len(e) = Len(c) /\ \A k \in 1..Len(c) : e[k] = Entry(orders[c[k]])
  BY <1>1, <1>4, EntryParts
<1> HIDE DEF d
<1>9. f \in Seq(EntryType) /\ Len(f) = Len(d) /\ \A k \in 1..Len(d) : f[k] = Entry(orders'[d[k]])
  <2> HIDE DEF g, e
  <2>1. f \in Seq(EntryType)
    BY <1>5, EntryParts
  <2>2. Len(f) = Len(d)
    BY <1>5, EntryParts
  <2>3. \A k \in 1..Len(d) : f[k] = Entry(orders'[d[k]])
    <3>1. DOMAIN d = 1..Len(d)
      BY <1>5, SlotParts
    <3> QED BY <3>1 DEF EntriesOf
  <2> QED BY <2>1, <2>2, <2>3
<1> HIDE DEF e, f
<1>10. Entry(o) \in EntryType
  <2>1. slot \in DOMAIN orders'
    BY DEF WithSlot
  <2> QED BY <2>1, <1>2, PlaceOfOrder DEF Entry, EntryType
<1>11. /\ g \in Seq(EntryType) /\ Len(g) = Len(e) + 1
       /\ \A k \in 1..Len(e) : g[k] = e[k]
       /\ g[Len(e) + 1] = Entry(o)
  BY <1>8, <1>10, AppendProperties
<1> HIDE DEF g
<1>12. ASSUME NEW k \in 1..Len(f) PROVE f[k] = g[k]
  <2>1. CASE k = Len(c) + 1
    BY <2>1, <1>2, <1>6, <1>7, <1>8, <1>9, <1>11
  <2>2. CASE k # Len(c) + 1
    <3>1. k \in 1..Len(c) /\ k \in 1..Len(d) /\ k \in 1..Len(e)
      BY <2>2, <1>6, <1>7, <1>8, <1>9
    <3> QED BY <3>1, <2>2, <1>2, <1>6, <1>7, <1>8, <1>9, <1>11
  <2> QED BY <2>1, <2>2
<1>13. f = g
  BY <1>7, <1>8, <1>9, <1>11, <1>12, SeqEqual
<1>14. EntriesAt(side, i)' = f
  BY <1>5, EntriesReadAfter DEF f
<1>15. EntriesAt(side, i) = e
  BY <1>1, <1>4, EntriesRead DEF e
<1>16. Becomes(side, i, g)
  BY <1>3, <1>13, <1>14 DEF Becomes
<1>17. Queues' = WithQueue(Queues, side, p, g)
  BY <1>16, OneQueue
<1>18. Queues[side][p] = e
  BY <1>15, QueueAt
<1> QED BY <1>17, <1>18 DEF g
-----------------------------------------------------------------------------
(***************************************************************************)
(* Each step of the book                                                   *)
(***************************************************************************)
\* An empty book is an empty promise.
LEMMA InitMaps == Init => PriceTime!Init
<1> SUFFICES ASSUME Init PROVE PriceTime!Init
  OBVIOUS
<1>1. BInv /\ DOMAIN orders = {} /\ OrdersType(orders)
  BY BookInitInv, TypeParts DEF Init, BookInit, PoolInit, BInv
<1>2. ASSUME NEW side \in BookSide, NEW i \in LevelIdx PROVE EntriesAt(side, i) = <<>>
  <2>1. PICK c : QueueIs(c, links, orders, levels, side, i)
    BY <1>1 DEF BInv, QueuesListed
  <2>2. levels[side][i].head = kNil
    BY DEF Init, BookInit, EmptyLevel
  <2>3. EntriesOf(orders, c) = <<>>
    BY <1>1, <2>1, <2>2, NoEntries
  <2>4. EntriesAt(side, i) = EntriesOf(orders, c)
    BY <1>1, <2>1, EntriesRead
  <2> QED BY <2>3, <2>4
<1>3. Queues = [side \in BookSide |-> [p \in Prices |-> <<>>]]
  BY <1>2, LevelOfPrice, WindowIs DEF Queues, EntriesAt
<1>4. Worker = None
  BY DEF Init, BookInit, Worker
<1> QED BY <1>3, <1>4, SameVocabulary DEF Init, BookInit, PriceTime!Init

\* submit begins.
LEMMA SubmitMaps ==
    ASSUME RInv, NEW request \in OrderRequest, Submit(request)
    PROVE  PriceTime!Arrive(request.ref, BookSideOf(request.side), request.qty, request.limit_price)
<1>0. BInv /\ BookTypeOK
  BY DEF RInv, IInv, BInv
<1>1. Worker = None
  BY <1>0, NoneAtWork DEF Submit
<1>2. Worker' = [ref |-> request.ref, side |-> BookSideOf(request.side),
                 limit_price |-> request.limit_price, remaining |-> request.qty]
  BY NoneAssumption DEF Submit, Worker, ownSide
<1>3. ~PriceTime!InBook(request.ref)
  BY <1>0, InBookIs DEF Submit
<1>4. Queues' = Queues
  BY <1>0, QueuesKept DEF Submit
<1>5. request.limit_price \in InWindow
  BY WindowIs DEF Submit, OrderRequest
<1> QED BY <1>1, <1>2, <1>3, <1>4, <1>5 DEF Submit, PriceTime!Arrive

\* A price off the window is turned away.
LEMMA SubmitRefusedMaps ==
    ASSUME RInv, NEW request \in OrderRequest, SubmitRefused(request)
    PROVE  PriceTime!Refuse(request.ref, request.limit_price)
<1>0. BInv /\ BookTypeOK
  BY DEF RInv, IInv, BInv
<1>1. Worker = None
  BY <1>0, NoneAtWork DEF SubmitRefused
<1>2. Worker' = Worker /\ Queues' = Queues
  BY <1>0, QueuesKept DEF SubmitRefused, locals, Worker, ownSide
<1>3. ~PriceTime!InBook(request.ref)
  BY <1>0, InBookIs DEF SubmitRefused
<1>4. request.limit_price \notin InWindow
  BY WindowIs DEF SubmitRefused
<1> QED BY <1>1, <1>2, <1>3, <1>4 DEF SubmitRefused, PriceTime!Refuse

\* The loops go round and end: nothing the promise speaks of.
LEMMA LoopMaps ==
    ASSUME RInv, EnterLevel \/ LeaveLevel
    PROVE  UNCHANGED PriceTime!vars
<1>1. UNCHANGED <<pool, book, req, remaining, fills, returned>>
  BY DEF EnterLevel, LeaveLevel
<1>2. Queues' = Queues
  BY <1>1, QueuesKept DEF RInv, IInv
<1> QED BY <1>1, <1>2 DEF Worker, ownSide, PriceTime!vars

\* A submit that is filled.
LEMMA SubmitFilledMaps ==
    ASSUME NoWorker, RInv, SubmitFilled
    PROVE  PriceTime!Done
<1>0. BInv /\ BookTypeOK
  BY DEF RInv, IInv, BInv
<1>1. Worker # None /\ Worker.remaining = 0
  BY <1>0, WorkerIs DEF SubmitFilled
<1>2. Worker' = None /\ Queues' = Queues
  BY <1>0, QueuesKept DEF SubmitFilled, Return, Worker
<1> QED BY <1>1, <1>2 DEF SubmitFilled, Return, PriceTime!Done

\* A cancel that finds nothing.
LEMMA CancelUnknownMaps ==
    ASSUME RInv, NEW ref \in Refs, CancelUnknown(ref)
    PROVE  PriceTime!CancelUnknown(ref)
<1>0. BInv /\ BookTypeOK
  BY DEF RInv, IInv, BInv
<1>1. pc = "idle" /\ returned' = 0 /\ fills' = fills /\ UNCHANGED <<pool, book, locals>>
  BY DEF CancelUnknown, RemoveNothing
<1>2. Worker = None
  BY <1>0, <1>1, NoneAtWork
<1>3. Worker' = Worker /\ Queues' = Queues
  BY <1>0, <1>1, QueuesKept DEF locals, Worker, ownSide
<1>4. ~IsLive(ref)
  BY DEF CancelUnknown, IsLive, RInv, IInv, IndexAgrees
<1>5. ~PriceTime!InBook(ref)
  BY <1>0, <1>4, InBookIs
<1> QED BY <1>1, <1>2, <1>3, <1>5 DEF PriceTime!CancelUnknown

\* Outside the inner loop a queue that is not empty has its bit set, so it is
\* no better than the hint.
LEMMA TouchMeansBest ==
    ASSUME BInv, NEW side \in BookSide, NEW q \in Prices, Queues[side][q] # <<>>,
           pc = "level" /\ side = Opposite(ownSide) => index(q) # cur
    PROVE  /\ HasIndex(q) /\ index(q) \in LevelIdx
           /\ best_idx[side] \in LevelIdx
           /\ ~Better(side, index(q), best_idx[side])
<1>0. OrdersType(orders)
  BY TypeParts DEF BInv
<1>1. HasIndex(q)
  BY WindowIs DEF Queues
<1>2. index(q) \in LevelIdx
  BY <1>1, LevelOfPrice
<1>3. levels[side][index(q)].head # kNil
  <2>1. PICK c : QueueIs(c, links, orders, levels, side, index(q))
    BY <1>2 DEF BInv, QueuesListed
  <2>2. Queues[side][q] = EntriesOf(orders, c)
    BY <1>0, <1>1, <2>1, EntriesRead, WindowIs DEF Queues, EntriesAt
  <2>3. levels[side][index(q)].head = kNil => EntriesOf(orders, c) = <<>>
    BY <2>1, <1>0, NoEntries
  <2> QED BY <2>2, <2>3
<1>4. IsSet(occupied[side], index(q))
  BY <1>2, <1>3 DEF BInv, BitmapAgrees
<1>5. BestBit(side, occupied[side], best_idx[side])
  BY TouchBySide DEF BInv
<1> QED BY <1>1, <1>2, <1>4, <1>5 DEF BestBit

\* When submit has done with its loops there is no touch within its limit.
LEMMA NothingToTrade ==
    ASSUME NoWorker, BInv, Unmatched
    PROVE  ~PriceTime!CanTrade
<1> DEFINE i == index(req.limit_price)
<1>0. /\ BookTypeOK /\ pc = "match" /\ HasIndex(req.limit_price)
      /\ remaining < 0 \/ ~Reaches(cur)
  BY DEF BInv, AtWork, Unmatched
<1>1. /\ req.limit_price \in Prices /\ remaining \in Nat /\ ownSide \in BookSide
      /\ Worker = [ref |-> req.ref, side |-> ownSide, limit_price |-> req.limit_price,
                   remaining |-> remaining]
  BY <1>0, WorkerIs
<1>2. i \in LevelIdx
  BY <1>0, <1>1, LevelOfPrice
<1>3. ASSUME NEW q \in Prices, PriceTime!IsTouch(q) PROVE FALSE
  <2>1. /\ Opposite(ownSide) \in BookSide /\ Queues[Opposite(ownSide)][q] # <<>>
        /\ Crosses(ownSide, req.limit_price, q)
    BY <1>3, <1>1, OppositeSide, SameVocabulary DEF PriceTime!IsTouch
  <2>2. /\ HasIndex(q) /\ index(q) \in LevelIdx /\ cur \in LevelIdx
        /\ ~Better(Opposite(ownSide), index(q), cur)
    BY <2>1, <1>0, TouchMeansBest DEF cur
  <2>3. Crosses(ownSide, i, index(q))
    <3>1. priceAt(index(q)) = q
      BY <2>2, LevelOfPrice
    <3> QED BY <3>1, <2>1, <2>2, <1>0, <1>1, PricesAsLevels
  <2>4. ~Crosses(ownSide, i, cur)
    <3>1. cur # kNone
      BY <2>2, BitmapAssumption DEF kNone, LevelIdx
    <3> QED BY <3>1, <1>0, <1>1 DEF Reaches
  <2>5. cur \in Int /\ i \in Int /\ index(q) \in Int
    BY <2>2, <1>2, BitmapAssumption DEF LevelIdx
  <2> HIDE DEF i
  <2> QED BY <2>2, <2>3, <2>4, <2>5, <1>1 DEF Crosses, Better, Opposite, BookSide, Buy, Sell
<1> QED BY <1>3 DEF PriceTime!CanTrade

\* What is left of an order joins its queue, and the promise has room for it.
LEMMA SubmitRestsMaps ==
    ASSUME NoWorker, RInv, SubmitRests
    PROVE  PriceTime!Rest
<1> DEFINE p == req.limit_price
           i == index(p)
           o == [ref |-> req.ref, remainQty |-> remaining, level |-> i, side |-> req.side]
<1>0. /\ IInv /\ BInv /\ BookTypeOK /\ RestInSlot /\ Unmatched /\ free_head # kNil
      /\ pc = "match" /\ remaining # 0 /\ HasIndex(p)
      /\ req' = None /\ returned' = remaining /\ fills' = fills
  BY DEF RInv, IInv, BInv, AtWork, SubmitRests, RestInSlot, Unmatched, Return
<1>1. /\ p \in Prices /\ remaining \in Nat /\ ownSide \in BookSide
      /\ Worker = [ref |-> req.ref, side |-> ownSide, limit_price |-> p, remaining |-> remaining]
      /\ Worker # None
  BY <1>0, WorkerIs
<1>2. Worker' = None
  BY <1>0 DEF Worker
<1>3. ~PriceTime!CanTrade
  BY <1>0, NothingToTrade
<1>4. ~PriceTime!Full
  BY <1>0, FullIs
<1>5. i \in LevelIdx /\ p = priceAt(i)
  BY <1>0, <1>1, LevelOfPrice
<1>6. /\ free_head \in Slot \ DOMAIN orders /\ orders' = WithSlot(orders, free_head, o)
      /\ OrdersType(orders') /\ QueuePushed(free_head, ownSide, i)
  BY <1>0, SlotTaken
<1> HIDE DEF i
<1>7. Queues' = WithQueue(Queues, ownSide, p, Append(Queues[ownSide][p], Entry(o)))
  <2>1. BInv /\ OrdersType(orders') /\ p \in Prices /\ ownSide \in BookSide
    BY <1>0, <1>1, <1>6
  <2> HIDE DEF o, p
  <2> QED BY ONLY <2>1, <1>5, <1>6, QueuesPushed
<1>8. Entry(o) = [resting |-> Worker.ref, remainQty |-> Worker.remaining]
  BY <1>1 DEF Entry
<1> HIDE DEF o
<1> QED BY <1>0, <1>1, <1>2, <1>3, <1>4, <1>7, <1>8 DEF WithQueue, PriceTime!Rest

\* The pool is used up: the order has traded with nothing, and goes.
LEMMA SubmitNoSlotMaps ==
    ASSUME NoWorker, RInv, SubmitNoSlot
    PROVE  PriceTime!Drop
<1>0. /\ IInv /\ BInv /\ BookTypeOK /\ Unmatched /\ free_head = kNil
      /\ pc = "match" /\ remaining # 0 /\ req' = None /\ returned' = 0 /\ fills' = fills
      /\ UNCHANGED <<pool, book>>
  BY DEF RInv, IInv, BInv, SubmitNoSlot, Unmatched, Return
<1>1. Worker # None /\ Worker.remaining = remaining /\ remaining \in Nat
  BY <1>0, WorkerIs
<1>2. Worker' = None
  BY <1>0 DEF Worker
<1>3. ~PriceTime!CanTrade /\ PriceTime!Full
  BY <1>0, NothingToTrade, FullIs
<1>4. fills = <<>>
  BY <1>0, <1>1 DEF RInv, Roomy
<1>5. Queues' = Queues
  BY <1>0, QueuesKept
<1> QED BY <1>0, <1>1, <1>2, <1>3, <1>4, <1>5 DEF PriceTime!Drop

\* The level being drained is the touch, and within the limit.
LEMMA CurIsTouch ==
    ASSUME NoWorker, RInv, pc = "level", top # kNil
    PROVE  priceAt(cur) \in Prices /\ PriceTime!IsTouch(priceAt(cur))
<1> DEFINE side == Opposite(ownSide)
           p    == priceAt(cur)
           i    == index(req.limit_price)
<1>0. /\ BInv /\ BookTypeOK /\ OrdersType(orders) /\ HasIndex(req.limit_price)
      /\ Crosses(ownSide, i, cur)
  BY TypeParts DEF RInv, IInv, BInv, AtWork, WithinLimit
<1>1. /\ req.limit_price \in Prices /\ ownSide \in BookSide /\ side \in BookSide
      /\ Worker = [ref |-> req.ref, side |-> ownSide, limit_price |-> req.limit_price,
                   remaining |-> remaining]
  BY <1>0, WorkerIs, OwnSide
<1>2. cur \in LevelIdx
  BY <1>0 DEF BInv, AtWork
<1>3. p \in Prices
  BY <1>1, <1>2 DEF RInv, IInv, BInv, Priced, top
<1>4. Queues[side][p] # <<>>
  <2>1. PICK c : QueueIs(c, links, orders, levels, side, cur)
    BY <1>0, <1>1, <1>2 DEF BInv, QueuesListed
  <2>4. EntriesOf(orders, c) # <<>>
    BY <1>0, <2>1, SomeEntries DEF top
  <2>5. EntriesAt(side, cur) = EntriesOf(orders, c)
    BY <1>0, <2>1, EntriesRead
  <2>6. Queues[side][p] = EntriesAt(side, cur)
    <3> HIDE DEF p, side
    <3>1. p = priceAt(cur)
      BY DEF p
    <3> QED BY <3>1, <1>1, <1>2, <1>3, QueueAt
  <2> QED BY <2>4, <2>5, <2>6
<1>5. ASSUME NEW q \in Prices, Better(side, q, p) PROVE Queues[side][q] = <<>>
  <2> SUFFICES ASSUME Queues[side][q] # <<>> PROVE FALSE
    OBVIOUS
  <2>1. HasIndex(q)
    BY <1>1, WindowIs DEF Queues
  <2>2. Better(side, index(q), cur)
    BY <1>5, <2>1, <1>1, <1>2, <1>3, PricesAsLevels
  <2>3. index(q) # cur
    BY <2>2, <1>2, BitmapAssumption DEF Better, LevelIdx
  <2>4. ~Better(side, index(q), best_idx[side])
    <3> HIDE DEF side
    <3> QED BY <2>3, <1>0, <1>1, TouchMeansBest
  <2> QED BY <2>2, <2>4 DEF cur
<1>6. Crosses(ownSide, req.limit_price, p)
  BY <1>0, <1>1, <1>2, <1>3, PricesAsLevels
<1>7. Worker.side = ownSide /\ Worker.limit_price = req.limit_price
  BY <1>1
<1> HIDE DEF p, i
<1>8. PriceTime!IsTouch(p)
  BY <1>4, <1>5, <1>6, <1>7, <1>1, SameVocabulary DEF PriceTime!IsTouch
<1> QED BY <1>3, <1>8 DEF p

\* The oldest entry of a queue is that of the slot at its head.
LEMMA HeadEntry ==
    ASSUME BInv, NEW side \in BookSide, NEW i \in LevelIdx, levels[side][i].head # kNil,
           NEW p \in Prices, p = priceAt(i)
    PROVE  Head(Queues[side][p]) = Entry(orders[levels[side][i].head])
<1>0. OrdersType(orders)
  BY TypeParts DEF BInv
<1>1. PICK c : QueueIs(c, links, orders, levels, side, i)
  BY DEF BInv, QueuesListed
<1> DEFINE e == EntriesOf(orders, c)
<1>2. e \in Seq(EntryType)
  BY <1>0, <1>1, EntryParts
<1>3. e # <<>>
  BY <1>0, <1>1, SomeEntries
<1>4. \A k \in 1..Len(c) : e[k] = Entry(orders[c[k]])
  BY <1>0, <1>1, EntryParts
<1>5. Len(c) # 0 => 1 \in 1..Len(c) /\ c[1] = levels[side][i].head
  BY <1>0, <1>1, SlotParts
<1>6. Len(c) = 0 => levels[side][i].head = kNil
  BY <1>1 DEF QueueIs, IsList
<1>7. e[1] = Entry(orders[levels[side][i].head])
  BY <1>4, <1>5, <1>6
<1>8. EntriesAt(side, i) = e
  BY <1>0, <1>1, EntriesRead
<1> HIDE DEF e
<1>9. Head(e) = e[1]
  BY <1>2, <1>3, HeadTailProperties
<1> QED BY <1>7, <1>8, <1>9, QueueAt

\* A trade: with the front order of the level that the promise calls the touch.
LEMMA FillFrontMaps ==
    ASSUME NoWorker, RInv, FillFront
    PROVE  PriceTime!Trade
<1> DEFINE side  == Opposite(ownSide)
           p     == priceAt(cur)
           front == Entry(orders[top])
           q     == Queues[side][p]
           new   == IF Spent THEN Tail(q)
                    ELSE [q EXCEPT ![1] = [front EXCEPT !.remainQty = left]]
<1>0. /\ IInv /\ BInv /\ BookTypeOK /\ TradeWithFront
      /\ pc = "level" /\ remaining > 0 /\ top # kNil
      /\ fills' = Append(fills, [aggressor |-> req.ref, resting |-> orders[top].ref,
                                 price |-> p, qty |-> fillQty])
      /\ remaining' = remaining - fillQty
      /\ req' = req /\ returned' = returned
  BY DEF RInv, IInv, BInv, FillFront, TradeWithFront
<1>1. /\ remaining \in Nat
      /\ Worker = [ref |-> req.ref, side |-> ownSide, limit_price |-> req.limit_price,
                   remaining |-> remaining]
      /\ Worker # None /\ req # None
  BY <1>0, WorkerIs DEF BookTypeOK
<1>2. p \in Prices /\ PriceTime!IsTouch(p)
  BY <1>0, CurIsTouch
<1>3. /\ side \in BookSide /\ cur \in LevelIdx
      /\ top \in DOMAIN orders /\ IsAt(orders, top, side, cur)
      /\ Spent => orders' = WithoutSlot(orders, top) /\ QueueOut(top, side, cur)
      /\ ~Spent => /\ DOMAIN orders' = DOMAIN orders /\ links' = links
                   /\ \A s \in DOMAIN orders : s # top => orders'[s] = orders[s]
                   /\ orders'[top] = [orders[top] EXCEPT !.remainQty = left]
                   /\ \A other \in BookSide, j \in LevelIdx :
                        levels'[other][j].head = levels[other][j].head
  BY <1>0, QueuesAfterTrade
<1>4. /\ orders[top] \in PooledOrder /\ orders[top].remainQty \in Nat \ {0}
      /\ fillQty \in Nat /\ fillQty <= orders[top].remainQty
  <2>1. orders[top] \in PooledOrder
    BY <1>0, <1>3 DEF BookTypeOK
  <2>2. orders[top].remainQty \in Nat \ {0}
    BY <2>1 DEF PooledOrder
  <2> QED BY <2>1, <2>2, <1>0, <1>1 DEF fillQty, Lesser
<1>5. Spent <=> orders[top].remainQty = fillQty
  BY <1>4 DEF Spent, left
<1>6. levels[side][cur].head = top
  BY DEF top
<1>7. Head(q) = front
  <2> HIDE DEF side, p
  <2>1. p = priceAt(cur)
    BY DEF p
  <2>2. levels[side][cur].head # kNil
    BY <1>0, <1>6
  <2> QED BY <2>1, <2>2, <1>0, <1>2, <1>3, <1>6, HeadEntry
<1>8. OrdersType(orders')
  BY <1>0, TradeStep DEF BInv, BookTypeOK, PoolTypeOK, OrdersType
<1>9. Queues' = WithQueue(Queues, side, p, new)
  <2>0. p = priceAt(cur)
    OBVIOUS
  <2>1. CASE Spent
    <3>1. new = Tail(q)
      BY <2>1
    <3>2. QueueOut(top, side, cur) /\ orders' = WithoutSlot(orders, top)
      BY <2>1, <1>3
    <3>3. top \in DOMAIN orders /\ IsAt(orders, top, side, cur) /\ BInv
          /\ side \in BookSide /\ cur \in LevelIdx /\ p \in Prices
      BY <1>0, <1>2, <1>3
    <3> HIDE DEF side, p, new
    <3>4. levels[side][cur].head = top => Queues' = WithQueue(Queues, side, p, Tail(Queues[side][p]))
      BY ONLY <2>0, <3>2, <3>3, <1>8, QueuesOut
    <3> QED BY <3>1, <3>4, <1>6
  <2>2. CASE ~Spent
    <3>1. Entry(orders'[top]) = [front EXCEPT !.remainQty = left]
      BY <2>2, <1>3, <1>4 DEF Entry, PooledOrder
    <3>2. new = [q EXCEPT ![1] = Entry(orders'[top])]
      BY <2>2, <3>1
    <3>3. \A s \in DOMAIN orders :
             /\ orders'[s].side = orders[s].side /\ orders'[s].level = orders[s].level
             /\ s # top => orders'[s] = orders[s]
      <4>1. orders'[top].side = orders[top].side /\ orders'[top].level = orders[top].level
        BY <2>2, <1>3, <1>4 DEF PooledOrder
      <4> QED BY <4>1, <2>2, <1>3
    <3>4. /\ DOMAIN orders' = DOMAIN orders /\ links' = links
          /\ \A other \in BookSide, j \in LevelIdx :
               levels'[other][j].head = levels[other][j].head
          /\ top \in DOMAIN orders /\ IsAt(orders, top, side, cur) /\ BInv
          /\ side \in BookSide /\ cur \in LevelIdx /\ p \in Prices
      BY <2>2, <1>0, <1>2, <1>3
    <3> HIDE DEF side, p, new
    <3>5. Queues' = WithQueue(Queues, side, p, [Queues[side][p] EXCEPT ![1] = Entry(orders'[top])])
      BY ONLY <2>0, <3>3, <3>4, <1>6, <1>8, QueuesLowered
    <3> QED BY <3>2, <3>5
  <2> QED BY <2>1, <2>2
<1>10. Worker' = [Worker EXCEPT !.remaining = remaining - fillQty]
  <2>1. ownSide' = ownSide
    BY <1>0 DEF ownSide
  <2> QED BY <2>1, <1>0, <1>1 DEF Worker
<1>11. front.remainQty = orders[top].remainQty /\ front.resting = orders[top].ref
  BY DEF Entry
<1>12. Worker.remaining = remaining /\ Worker.ref = req.ref /\ Worker.side = ownSide
  BY <1>1
<1>13. fillQty = Lesser(Worker.remaining, front.remainQty) /\ left = front.remainQty - fillQty
  BY <1>11, <1>12 DEF fillQty, left
<1>14. new = IF front.remainQty = fillQty THEN Tail(q)
             ELSE [q EXCEPT ![1] = [front EXCEPT !.remainQty = @ - fillQty]]
  <2> HIDE DEF front, q
  <2> QED BY <1>5, <1>11, <1>13
<1> HIDE DEF new, front, p, side
<1>15. \E pr \in Prices :
         LET f   == Head(Queues[side][pr])
             qty == Lesser(Worker.remaining, f.remainQty)
         IN  /\ PriceTime!IsTouch(pr)
             /\ Worker' = [Worker EXCEPT !.remaining = Worker.remaining - qty]
             /\ Queues' = [Queues EXCEPT ![side][pr] =
                    IF f.remainQty = qty THEN Tail(Queues[side][pr])
                    ELSE [Queues[side][pr] EXCEPT ![1] = [f EXCEPT !.remainQty = @ - qty]]]
             /\ fills' = Append(fills, [aggressor |-> Worker.ref, resting |-> f.resting,
                                        price |-> pr, qty |-> qty])
  <2>1. p \in Prices
    BY <1>2 DEF p
  <2>2. WITNESS p \in Prices
  <2> QED BY <1>0, <1>2, <1>7, <1>9, <1>10, <1>11, <1>12, <1>13, <1>14 DEF WithQueue
<1>16. Opposite(Worker.side) = side
  BY <1>12 DEF side
<1> QED BY <1>0, <1>1, <1>12, <1>15, <1>16, SameVocabulary DEF PriceTime!Trade

\* cancel takes the entry out of its queue and returns what was left of it.
LEMMA CancelMaps ==
    ASSUME RInv, NEW ref, Cancel(ref)
    PROVE  PriceTime!Cancel(ref)
<1> DEFINE slot == refMap[ref]
           side == BookSideOf(orders[slot].side)
           i    == orders[slot].level
           p    == priceAt(i)
<1>0. /\ BInv /\ BookTypeOK /\ RemoveOrder(slot) /\ slot \in DOMAIN orders
      /\ orders[slot].ref = ref
      /\ pc = "idle" /\ req' = req /\ remaining' = remaining /\ fills' = fills
      /\ returned' = orders[slot].remainQty
  BY DEF RInv, IInv, BInv, IndexAgrees, Cancel, RemoveOrder, locals
<1>1. /\ side \in BookSide /\ i \in LevelIdx /\ IsAt(orders, slot, side, i)
      /\ orders' = WithoutSlot(orders, slot) /\ QueueOut(slot, side, i)
  <2> HIDE DEF slot
  <2> QED BY <1>0, QueuesAfterRemove
<1>2. OrdersType(orders')
  <2> HIDE DEF slot
  <2> QED BY <1>0, RemoveStep DEF BInv, BookTypeOK, PoolTypeOK, OrdersType
<1> HIDE DEF slot, side, i
<1>3. p \in Prices
  <2>1. PICK c : QueueIs(c, links, orders, levels, side, i)
    BY <1>0, <1>1 DEF BInv, QueuesListed
  <2>2. PICK n \in 1..Len(c) : c[n] = slot
    BY <1>0, <1>1, <2>1 DEF QueueIs, IsList, At
  <2>3. Len(c) # 0
    BY <2>2
  <2>4. OrdersType(orders)
    BY <1>0, TypeParts
  <2>5. Len(c) # 0 => levels[side][i].head # kNil
    BY <2>1, <2>4, SlotParts
  <2> QED BY <2>3, <2>5, <1>0, <1>1 DEF BInv, Priced
<1>4. p = priceAt(i)
  OBVIOUS
<1> HIDE DEF p
<1>5. PICK k \in 1..Len(Queues[side][p]) :
         /\ k \in DOMAIN Queues[side][p]
         /\ Queues[side][p][k] = Entry(orders[slot])
         /\ Queues' = WithQueue(Queues, side, p, Omitted(Queues[side][p], k))
  BY ONLY <1>0, <1>1, <1>2, <1>3, <1>4, QueuesOut
<1>6. Queues' = [Queues EXCEPT ![side][p] = SubSeq(@, 1, k - 1) \o SubSeq(@, k + 1, Len(@))]
  BY <1>5 DEF WithQueue, Omitted
<1>7. PriceTime!Rests(ref, side, p, k) /\ returned' = Queues[side][p][k].remainQty
  BY <1>0, <1>5 DEF Entry, PriceTime!Rests
<1>8. Worker = None /\ Worker' = Worker
  BY <1>0, NoneAtWork DEF Worker, ownSide
<1>9. \E sd \in BookSide, q \in Prices : \E n \in 1..Len(Queues[sd][q]) :
        /\ PriceTime!Rests(ref, sd, q, n)
        /\ Queues' = [Queues EXCEPT ![sd][q] = SubSeq(@, 1, n - 1) \o SubSeq(@, n + 1, Len(@))]
        /\ returned' = Queues[sd][q][n].remainQty
  BY <1>1, <1>3, <1>5, <1>6, <1>7
<1> QED BY <1>0, <1>8, <1>9, SameVocabulary DEF PriceTime!Cancel
-----------------------------------------------------------------------------
(***************************************************************************)
(* The refinement                                                          *)
(***************************************************************************)
\* Every step is a step of the promised book, or changes nothing it has.
LEMMA StepMaps ==
    ASSUME NoWorker
    PROVE  RInv /\ [Next]_vars => [PriceTime!Next]_(PriceTime!vars)
<1> SUFFICES ASSUME RInv, [Next]_vars
             PROVE  PriceTime!Next \/ UNCHANGED PriceTime!vars
  OBVIOUS
<1>1. ASSUME NEW request \in OrderRequest PROVE
        /\ request.ref \in Refs /\ BookSideOf(request.side) \in BookSide
        /\ request.qty \in Qtys /\ request.limit_price \in Prices
  BY DEF OrderRequest, BookSideOf, BookSide
<1>2. ASSUME NEW request \in OrderRequest, Submit(request) PROVE PriceTime!Next
  BY <1>1, <1>2, SubmitMaps, SameVocabulary DEF PriceTime!Next
<1>3. ASSUME NEW request \in OrderRequest, SubmitRefused(request) PROVE PriceTime!Next
  BY <1>1, <1>3, SubmitRefusedMaps DEF PriceTime!Next
<1>4. CASE EnterLevel \/ LeaveLevel
  BY <1>4, LoopMaps
<1>5. CASE FillFront
  BY <1>5, FillFrontMaps DEF PriceTime!Next, PriceTime!Working
<1>6. CASE SubmitFilled
  BY <1>6, SubmitFilledMaps DEF PriceTime!Next, PriceTime!Working
<1>7. CASE SubmitRests
  BY <1>7, SubmitRestsMaps DEF PriceTime!Next, PriceTime!Working
<1>8. CASE SubmitNoSlot
  BY <1>8, SubmitNoSlotMaps DEF PriceTime!Next, PriceTime!Working
<1>9. CASE \E ref \in Refs : Cancel(ref)
  BY <1>9, CancelMaps DEF PriceTime!Next
<1>10. CASE \E ref \in Refs : CancelUnknown(ref)
  BY <1>10, CancelUnknownMaps DEF PriceTime!Next
<1>11. CASE UNCHANGED vars
  <2>1. UNCHANGED <<pool, book>> /\ req' = req /\ remaining' = remaining
        /\ fills' = fills /\ returned' = returned
    BY <1>11 DEF vars, bookVars, locals
  <2>2. Queues' = Queues
    BY <2>1, QueuesKept DEF RInv, IInv
  <2> QED BY <2>1, <2>2 DEF Worker, ownSide, PriceTime!vars
<1> QED BY <1>2, <1>3, <1>4, <1>5, <1>6, <1>7, <1>8, <1>9, <1>10, <1>11 DEF Next, Working

\* PoolOrderBook::submit and cancel trade and rest as price-time priority
\* demands, in a book of kMaxOrders orders: a queue is what its links spell, and
\* alloc() fails an order only when the book is full and the order has traded
\* with nothing, so that no refusal is half applied.
THEOREM Refinement ==
    ASSUME PositiveQtys, NoWorker PROVE Spec => ImplementsPriceTimeBook
<1>1. Init => PriceTime!Init
  BY InitMaps
<1>2. Init => WithinLimit /\ Roomy
  BY DEF Init, BookInit, WithinLimit, Roomy
<1>3. IInv /\ WithinLimit /\ Roomy /\ [Next]_vars => (WithinLimit /\ Roomy)'
  BY WithinLimitStep, RoomyStep
<1>4. IInv /\ WithinLimit /\ Roomy /\ [Next]_vars => [PriceTime!Next]_(PriceTime!vars)
  BY StepMaps DEF RInv
<1> QED BY <1>1, <1>2, <1>3, <1>4, Invariance, PTL DEF Spec, ImplementsPriceTimeBook, PriceTime!Spec
=============================================================================
