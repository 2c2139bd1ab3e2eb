------------------------------ MODULE OrderPool ------------------------------
(***************************************************************************)
(* The fixed pool of orders of PoolOrderBook and FlatOrderBook: slots that *)
(* carry their own prev and next, a free list threaded through next, and   *)
(* level queues threaded through both.                                     *)
(*                                                                         *)
(* A slot's links outlive its order, and here too a free slot keeps its    *)
(* stale prev.  Its payload (ref, remainQty, level, side) is kept in       *)
(* `orders`, defined only while the slot is taken: no step can read the    *)
(* payload of a free slot without TLC reporting it.                        *)
(***************************************************************************)
EXTENDS Integers, Sequences, FiniteSets

CONSTANT kMaxOrders  \* slots in the pool

ASSUME PoolAssumption == kMaxOrders \in Nat \ {0}

kNil == -1                    \* "there is no order here"; no slot (static_assert)
Slot == 0..(kMaxOrders - 1)
Link == Slot \cup {kNil}

VARIABLES links,      \* links[slot]: prev and next of pool_[slot]
          orders,     \* slot -> payload of pool_[slot], for the slots taken
          free_head   \* first slot of the free list, or kNil

pool == <<links, orders, free_head>>

EmptyLevel == [total_qty |-> 0, head |-> kNil, tail |-> kNil]

\* The constructor: slot 0 to the last, in that order, on the free list.
PoolInit ==
    /\ links = [s \in Slot |->
           [prev |-> kNil, next |-> IF s + 1 < kMaxOrders THEN s + 1 ELSE kNil]]
    /\ orders = [s \in {} |-> [remainQty |-> 0]]
    /\ free_head = 0

\* alloc() of the first slot of a free list that is not empty, for an order.
alloc(order) ==
    /\ free_head' = links[free_head].next
    /\ orders' = [s \in DOMAIN orders \cup {free_head} |->
                    IF s = free_head THEN order ELSE orders[s]]

\* Mutant of release: next is not pointed at the rest of the free list.
release_alone(lk, slot) ==
    /\ links' = lk
    /\ orders' = [s \in DOMAIN orders \ {slot} |-> orders[s]]
    /\ free_head' = slot

\* release(slot), after the links have become lk: onto the front of the free list.
release(lk, slot) ==
    /\ links' = [lk EXCEPT ![slot].next = free_head]
    /\ orders' = [s \in DOMAIN orders \ {slot} |-> orders[s]]
    /\ free_head' = slot

\* Mutant of PushBackLinks: the old tail points forward, nothing points back.
PushBackNextOnly(lk, lvl, slot) ==
    IF lvl.head = kNil THEN [lk EXCEPT ![slot].next = kNil]
    ELSE [lk EXCEPT ![slot].next = kNil, ![lvl.tail].next = slot]

\* push_back: the links after slot has joined at the tail.
PushBackLinks(lk, lvl, slot) ==
    IF lvl.head = kNil THEN [lk EXCEPT ![slot] = [prev |-> kNil, next |-> kNil]]
    ELSE [lk EXCEPT ![slot] = [prev |-> lvl.tail, next |-> kNil], ![lvl.tail].next = slot]

\* Mutant of PushBackLevel: the total is left as it was.
PushBackTotalKept(lvl, slot, qty) ==
    [total_qty |-> lvl.total_qty,
     head |-> IF lvl.head = kNil THEN slot ELSE lvl.head,
     tail |-> slot]

\* push_back: head, tail and total of the level.
PushBackLevel(lvl, slot, qty) ==
    [total_qty |-> lvl.total_qty + qty,
     head |-> IF lvl.head = kNil THEN slot ELSE lvl.head,
     tail |-> slot]

\* unlink, the four cases: the only order, the head, the tail, in the middle.
UnlinkLinks(lk, slot) ==
    LET p == lk[slot].prev
        n == lk[slot].next
    IN  CASE p = kNil /\ n = kNil -> lk
          [] p = kNil /\ n # kNil -> [lk EXCEPT ![n].prev = kNil]
          [] p # kNil /\ n = kNil -> [lk EXCEPT ![p].next = kNil]
          [] p # kNil /\ n # kNil -> [lk EXCEPT ![p].next = n, ![n].prev = p]

\* Mutant of UnlinkLevel: the tail case is left out.
UnlinkKeepsTail(lk, lvl, slot, qty) ==
    [total_qty |-> lvl.total_qty - qty,
     head |-> IF lk[slot].prev = kNil THEN lk[slot].next ELSE lvl.head,
     tail |-> lvl.tail]

\* unlink: head, tail and total of the level.
UnlinkLevel(lk, lvl, slot, qty) ==
    LET p == lk[slot].prev
        n == lk[slot].next
    IN  [total_qty |-> lvl.total_qty - qty,
         head |-> IF p = kNil THEN n ELSE lvl.head,
         tail |-> IF n = kNil THEN p ELSE lvl.tail]

\* The slots met from `first` along next, stopping after one more than there are.
Chain(first) ==
    LET nth[k \in 1..(kMaxOrders + 1)] ==
            IF k = 1 THEN first
            ELSE IF nth[k - 1] = kNil THEN kNil ELSE links[nth[k - 1]].next
    IN  [k \in 1..Cardinality({j \in 1..(kMaxOrders + 1) : nth[j] # kNil}) |-> nth[k]]

PoolTypeOK ==
    /\ links \in [Slot -> [prev : Link, next : Link]]
    /\ DOMAIN orders \subseteq Slot
    /\ free_head \in Link
=============================================================================
