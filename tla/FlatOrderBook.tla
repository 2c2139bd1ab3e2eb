---------------------------- MODULE FlatOrderBook ----------------------------
(***************************************************************************)
(* libs/matching FlatOrderBook: the pooled book with an open-addressed     *)
(* table from reference to slot, and nothing left on the heap.             *)
(***************************************************************************)
EXTENDS PooledBook, RefTable

\* The table hashes a ref by its low bits, and is twice the size of the pool.
ASSUME RefsAssumption == Refs \subseteq Nat
ASSUME LoadAssumption == kRefTableSize >= 2 * kMaxOrders

vars == <<bookVars, table>>

Init == BookInit /\ TableInit
-----------------------------------------------------------------------------
FillFront ==
    /\ TradeWithFront
    /\ IF Spent THEN ref_erase(orders[top].ref) ELSE UNCHANGED table

\* ref_insert comes between alloc and push_back, and if it finds no entry the
\* slot goes back to the front of the free list, where it came from.  (What was
\* written to it meanwhile is the payload of a free slot, which nobody reads and
\* the model leaves undefined.)
SubmitRests ==
    /\ Unmatched
    /\ free_head # kNil
    /\ IF FreeEntry(req.ref) # kRefTableSize
       THEN RestInSlot /\ ref_insert(req.ref, free_head)
       ELSE Return(0) /\ UNCHANGED <<touch, pool, book, fills, table>>

Cancel(ref) ==
    /\ ref_find(ref) # kRefTableSize
    /\ RemoveOrder(ref_table[ref_find(ref)].slot)
    /\ ref_erase(ref)

CancelUnknown(ref) == ref_find(ref) = kRefTableSize /\ RemoveNothing /\ UNCHANGED table
-----------------------------------------------------------------------------
Working ==
    \/ EnterLevel /\ UNCHANGED table
    \/ FillFront
    \/ LeaveLevel /\ UNCHANGED table
    \/ SubmitFilled /\ UNCHANGED table
    \/ SubmitRests
    \/ SubmitNoSlot /\ UNCHANGED table

Next ==
    \/ \E request \in OrderRequest :
          (Submit(request) \/ SubmitRefused(request)) /\ UNCHANGED table
    \/ Working
    \/ \E ref \in Refs : Cancel(ref) \/ CancelUnknown(ref)

Spec == Init /\ [][Next]_vars
-----------------------------------------------------------------------------
\* Every structure has its type; no resting order has nothing left.
TypeOK ==
    /\ BookTypeOK
    /\ ref_table \in [EntryIdx -> [ref : Refs \cup {0}, slot : Slot, state : RefEntryState]]
    /\ ref_live \in 0..kMaxOrders
    /\ ref_tombstones \in 0..kRefTableSize

\* ref_find finds every resting order, at its slot, and nothing else, however
\* long the session has been: cancel never silently fails.
FindAgrees ==
    \A ref \in Refs :
        LET h == ref_find(ref)
        IN  IF IsLive(ref)
            THEN h # kRefTableSize /\ orders[ref_table[h].slot].ref = ref
            ELSE h = kRefTableSize
=============================================================================
