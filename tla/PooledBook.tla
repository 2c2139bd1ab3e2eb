------------------------------ MODULE PooledBook ------------------------------
(***************************************************************************)
(* What PoolOrderBook and FlatOrderBook have in common: ArrayOrderBook's   *)
(* window and touch, with the orders of each level linked through a fixed  *)
(* pool, and the submit and cancel that work on them.  The pool can run    *)
(* out.  The index from references to slots is left to the two books: an   *)
(* action here says all that the operation changes but the index.          *)
(***************************************************************************)
EXTENDS Window, OrderPool

CONSTANTS Refs,         \* OrderRefNum values, unique among live orders
          Qtys,         \* quantities: nothing checks that they are above 0
          SubmitSides,  \* the sides callers use
          None          \* no request is being worked

ASSUME QtysAssumption  == Qtys \subseteq Int
ASSUME SidesAssumption == SubmitSides \subseteq Side

VARIABLES levels,        \* levels[side]: buy_levels_, sell_levels_
          orders_count,  \* buy_orders_count, sell_orders_count
          pc,            \* where submit is: "idle", "match", "level"
          req,           \* the request being worked, or None
          remaining,     \* submit's local: quantity not yet filled
          fills,         \* the caller's vector of fills
          returned       \* what the last submit or cancel returned

book   == <<levels, orders_count>>
locals == <<pc, req, remaining>>
bookVars == <<touch, pool, book, locals, fills, returned>>

OrderRequest == [ref : Refs, side : SubmitSides, qty : Qtys, limit_price : Prices]
PoolLevel    == [total_qty : Int, head : Link, tail : Link]
PooledOrder  == [ref : Refs, remainQty : Nat \ {0}, level : LevelIdx, side : SubmitSides]
Fill         == [aggressor : Refs, resting : Refs, price : Prices, qty : Nat \ {0}]

ASSUME NoneAssumption == None \notin OrderRequest

BookInit ==
    /\ TouchInit
    /\ PoolInit
    /\ levels = [side \in BookSide |-> [i \in LevelIdx |-> EmptyLevel]]
    /\ orders_count = [side \in BookSide |-> 0]
    /\ pc = "idle"
    /\ req = None
    /\ remaining = 0
    /\ fills = <<>>
    /\ returned = 0
-----------------------------------------------------------------------------
\* Every side but Buy takes the `else` of each test of the side, and so a
\* short sale is worked and kept as a sale.
BookSideOf(side) == IF side = Buy THEN Buy ELSE Sell

\* submit returns.
Return(qty) == pc' = "idle" /\ req' = None /\ remaining' = 0 /\ returned' = qty

\* An order with this ref is resting.
IsLive(ref) == \E s \in DOMAIN orders : orders[s].ref = ref

Submit(request) ==
    /\ pc = "idle"
    /\ ~IsLive(request.ref)
    /\ HasIndex(request.limit_price)
    /\ pc' = "match"
    /\ req' = request
    /\ remaining' = request.qty
    /\ fills' = <<>>
    /\ UNCHANGED <<touch, pool, book, returned>>

\* Off the grid or outside the window: return 0, rest nothing, fill nothing.
SubmitRefused(request) ==
    /\ pc = "idle"
    /\ ~IsLive(request.ref)
    /\ ~HasIndex(request.limit_price)
    /\ fills' = <<>>
    /\ returned' = 0
    /\ UNCHANGED <<touch, pool, book, locals>>

\* The level the outer loop looks at, read from the hint as each round begins.
ownSide == BookSideOf(req.side)
cur     == best_idx[Opposite(ownSide)]

\* The condition of the outer loop, `remaining > 0` aside.
Reaches(i) == i # kNone /\ Crosses(ownSide, index(req.limit_price), i)

EnterLevel ==
    /\ pc = "match"
    /\ remaining > 0
    /\ Reaches(cur)
    /\ pc' = "level"
    /\ UNCHANGED <<touch, pool, book, req, remaining, fills, returned>>

\* The front of that level, and what is left of it after the trade.
top     == levels[Opposite(ownSide)][cur].head
fillQty == Lesser(remaining, orders[top].remainQty)
left    == orders[top].remainQty - fillQty
Spent   == left <= 0

\* One round of the inner loop: trade with the head of the level, and unlink
\* and release its slot when nothing of it is left.
TradeWithFront ==
    /\ pc = "level"
    /\ remaining > 0
    /\ top # kNil
    /\ fills' = Append(fills, [aggressor |-> req.ref, resting |-> orders[top].ref,
                               price |-> priceAt(cur), qty |-> fillQty])
    /\ remaining' = remaining - fillQty
    /\ LET side   == Opposite(ownSide)
           traded == [levels[side][cur] EXCEPT !.total_qty = @ - fillQty]
       IN  IF Spent
           THEN /\ orders_count' = [orders_count EXCEPT ![side] = @ - 1]
                /\ levels' = [levels EXCEPT ![side][cur] = UnlinkLevel(links, traded, top, left)]
                /\ release(UnlinkLinks(links, top), top)
           ELSE /\ orders' = [orders EXCEPT ![top].remainQty = left]
                /\ levels' = [levels EXCEPT ![side][cur] = traded]
                /\ UNCHANGED <<orders_count, links, free_head>>
    /\ UNCHANGED <<touch, pc, req, returned>>

\* The inner loop ends; the bit of a drained level is cleared.
LeaveLevel ==
    /\ pc = "level"
    /\ remaining = 0 \/ top = kNil
    /\ IF top = kNil THEN on_level_emptied(Opposite(ownSide), cur) ELSE UNCHANGED touch
    /\ pc' = "match"
    /\ UNCHANGED <<pool, book, req, remaining, fills, returned>>

SubmitFilled ==
    /\ pc = "match"
    /\ remaining = 0
    /\ Return(0)
    /\ UNCHANGED <<touch, pool, book, fills>>

\* The outer loop ends with quantity left over, or there was less than none.
Unmatched ==
    /\ pc = "match"
    /\ remaining # 0
    /\ remaining < 0 \/ ~Reaches(cur)

\* The rest of the order takes a slot and joins its level's queue.
RestInSlot ==
    /\ Unmatched
    /\ free_head # kNil
    /\ LET i   == index(req.limit_price)
           lvl == levels[ownSide][i]
       IN  /\ alloc([ref |-> req.ref, remainQty |-> remaining, level |-> i, side |-> req.side])
           /\ links' = PushBackLinks(links, lvl, free_head)
           /\ levels' = [levels EXCEPT ![ownSide][i] = PushBackLevel(lvl, free_head, remaining)]
           /\ on_level_occupied(ownSide, i)
    /\ orders_count' = [orders_count EXCEPT ![ownSide] = @ + 1]
    /\ Return(remaining)
    /\ UNCHANGED fills

\* alloc() finds the free list empty: return 0.
SubmitNoSlot ==
    /\ Unmatched
    /\ free_head = kNil
    /\ Return(0)
    /\ UNCHANGED <<touch, pool, book, fills>>

\* cancel of the order in this slot.
RemoveOrder(slot) ==
    LET o    == orders[slot]
        side == BookSideOf(o.side)
        lvl  == UnlinkLevel(links, levels[side][o.level], slot, o.remainQty)
    IN  /\ pc = "idle"
        /\ levels' = [levels EXCEPT ![side][o.level] = lvl]
        /\ orders_count' = [orders_count EXCEPT ![side] = @ - 1]
        /\ release(UnlinkLinks(links, slot), slot)
        /\ IF lvl.head = kNil THEN on_level_emptied(side, o.level) ELSE UNCHANGED touch
        /\ returned' = o.remainQty
        /\ UNCHANGED <<locals, fills>>

\* cancel of a ref the index does not know.
RemoveNothing ==
    /\ pc = "idle"
    /\ returned' = 0
    /\ UNCHANGED <<touch, pool, book, locals, fills>>
-----------------------------------------------------------------------------
(***************************************************************************)
(* Properties of the pool and the queues, whatever the index               *)
(***************************************************************************)
\* The slots of a level, oldest order first, and their orders.
Queue(side, i) == Chain(levels[side][i].head)
Held(side, i)  == [k \in DOMAIN Queue(side, i) |-> orders[Queue(side, i)[k]]]
OnQueue(s, side, i) == \E k \in DOMAIN Queue(side, i) : Queue(side, i)[k] = s
OnFreeList(s) == \E k \in DOMAIN Chain(free_head) : Chain(free_head)[k] = s

BookTypeOK ==
    /\ TouchTypeOK
    /\ PoolTypeOK
    /\ orders \in [DOMAIN orders -> PooledOrder]
    /\ levels \in [BookSide -> [LevelIdx -> PoolLevel]]
    /\ orders_count \in [BookSide -> Int]
    /\ pc \in {"idle", "match", "level"}
    /\ req \in OrderRequest \cup {None}
    /\ (pc = "idle") <=> (req = None)
    /\ remaining \in Nat
    /\ fills \in Seq(Fill)
    /\ returned \in Nat

\* "An order is only ever on one of the two lists": no slot is lost, none is
\* free and queued at once, none is on two queues, and no list runs in a ring.
SlotsPartitioned ==
    /\ \A s \in Slot :
         /\ OnFreeList(s) <=> s \notin DOMAIN orders
         /\ s \in DOMAIN orders =>
              {place \in BookSide \X LevelIdx : OnQueue(s, place[1], place[2])} =
                  {<<BookSideOf(orders[s].side), orders[s].level>>}
    /\ Len(Chain(free_head)) = kMaxOrders - Cardinality(DOMAIN orders)
    /\ \A side \in BookSide, i \in LevelIdx :
         Len(Queue(side, i)) = Cardinality({s \in Slot : OnQueue(s, side, i)})

\* The four cases of unlink leave each queue doubly linked: prev undoes next,
\* the head has no prev, the tail is the last, and head and tail are nil together.
QueuesWellLinked ==
    \A side \in BookSide, i \in LevelIdx :
        LET q   == Queue(side, i)
            lvl == levels[side][i]
        IN  /\ \A k \in DOMAIN q : links[q[k]].prev = IF k = 1 THEN kNil ELSE q[k - 1]
            /\ lvl.tail = IF q = <<>> THEN kNil ELSE q[Len(q)]

\* The bitmap says which levels hold orders, except of the level the inner
\* loop has drained and not yet left.
BitmapAgrees ==
    \A side \in BookSide, i \in LevelIdx :
        \/ IsSet(occupied[side], i) <=> levels[side][i].head # kNil
        \/ pc = "level" /\ side = Opposite(ownSide) /\ i = cur

\* The counters count the orders of each side, and the total of a level,
\* which is what qty_at reports, is the sum over its queue.
TotalsAgree ==
    \A side \in BookSide :
      /\ orders_count[side] =
             Cardinality({s \in DOMAIN orders : BookSideOf(orders[s].side) = side})
      /\ \A i \in LevelIdx : levels[side][i].total_qty = TotalLeft(Held(side, i))

\* A submit returns: its loops always make headway.
SubmitReturns == pc # "idle" ~> pc = "idle"
=============================================================================
