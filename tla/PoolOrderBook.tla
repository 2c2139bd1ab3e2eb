---------------------------- MODULE PoolOrderBook ----------------------------
(***************************************************************************)
(* libs/matching PoolOrderBook: the pooled book with an unordered_map from *)
(* reference to slot.                                                      *)
(***************************************************************************)
EXTENDS PooledBook

VARIABLE refMap  \* ref -> slot, for every resting order

vars == <<bookVars, refMap>>

Init == BookInit /\ refMap = [r \in {} |-> 0]
-----------------------------------------------------------------------------
\* Mutant of Erase: left out.
NotErased(f, key)  == f

Erase(f, key)      == [k \in DOMAIN f \ {key} |-> f[k]]
Put(f, key, value) == [k \in DOMAIN f \cup {key} |-> IF k = key THEN value ELSE f[k]]

FillFront ==
    /\ TradeWithFront
    /\ refMap' = IF Spent THEN Erase(refMap, orders[top].ref) ELSE refMap

SubmitRests == RestInSlot /\ refMap' = Put(refMap, req.ref, free_head)

Cancel(ref) ==
    /\ ref \in DOMAIN refMap
    /\ RemoveOrder(refMap[ref])
    /\ refMap' = Erase(refMap, ref)

CancelUnknown(ref) == ref \notin DOMAIN refMap /\ RemoveNothing /\ UNCHANGED refMap
-----------------------------------------------------------------------------
Working ==
    \/ EnterLevel /\ UNCHANGED refMap
    \/ FillFront
    \/ LeaveLevel /\ UNCHANGED refMap
    \/ SubmitFilled /\ UNCHANGED refMap
    \/ SubmitRests
    \/ SubmitNoSlot /\ UNCHANGED refMap

Next ==
    \/ \E request \in OrderRequest :
          (Submit(request) \/ SubmitRefused(request)) /\ UNCHANGED refMap
    \/ Working
    \/ \E ref \in Refs : Cancel(ref) \/ CancelUnknown(ref)

Spec == Init /\ [][Next]_vars

\* A submit that has begun is carried on: there is nothing to wait for.
FairSpec == Spec /\ WF_vars(Working)
-----------------------------------------------------------------------------
\* Every structure has its type; no resting order has nothing left.
TypeOK == BookTypeOK /\ DOMAIN refMap \subseteq Refs /\ refMap \in [DOMAIN refMap -> Slot]

\* refMap leads to the slot that holds the ref, and every order in the pool
\* can be reached through it: cancel never misses or hits another's order.
IndexAgrees ==
    /\ \A r \in DOMAIN refMap : refMap[r] \in DOMAIN orders /\ orders[refMap[r]].ref = r
    /\ \A s \in DOMAIN orders : orders[s].ref \in DOMAIN refMap /\ refMap[orders[s].ref] = s
=============================================================================
