------------------------- MODULE FlatOrderBook_proofs -------------------------
(***************************************************************************)
(* Theorems about FlatOrderBook, for every pool, table at least twice its  *)
(* size, window and word, every set of references, prices and sides, and   *)
(* quantities above 0: a search of the table finds every order and no      *)
(* other, the tombstones a long session leaves break no walk, and the book *)
(* is PoolOrderBook with the table for its map.                            *)
(***************************************************************************)
EXTENDS FlatOrderBookRefines, PooledBook_proofs, FiniteSetTheorems

Entry == [ref : Refs \cup {0}, slot : Slot, state : RefEntryState]
-----------------------------------------------------------------------------
(***************************************************************************)
(* Walks                                                                   *)
(***************************************************************************)
\* An entry is in the table, and "absent" is not.
LEMMA ProbeInTable ==
    /\ kRefTableSize \notin EntryIdx /\ EntryIdx \subseteq Nat
    /\ \A ref \in Refs, n \in EntryIdx : probe(ref, n) \in EntryIdx
<1>1. kRefTableSize \in Nat \ {0}
  BY TableAssumption
<1>2. ASSUME NEW ref \in Refs, NEW n \in EntryIdx PROVE probe(ref, n) \in EntryIdx
  <2>1. ref + n \in Int
    BY <1>1, RefsAssumption DEF EntryIdx
  <2> QED BY <2>1, <1>1 DEF probe, EntryIdx
<1> QED BY <1>1, <1>2 DEF EntryIdx

\* FirstOn is the first entry of the walk that is in E, or absent.
LEMMA FirstOnWalk ==
    ASSUME NEW ref \in Refs, NEW E
    PROVE  \/ /\ FirstOn(ref, E) = kRefTableSize
              /\ \A n \in EntryIdx : probe(ref, n) \notin E
           \/ /\ FirstOn(ref, E) \in E \cap EntryIdx
              /\ \E n \in EntryIdx :
                    /\ FirstOn(ref, E) = probe(ref, n)
                    /\ \A k \in EntryIdx : k < n => probe(ref, k) \notin E
<1> DEFINE hits == {n \in EntryIdx : probe(ref, n) \in E}
<1>1. CASE hits = {}
  BY <1>1 DEF FirstOn
<1>2. CASE hits # {}
  <2>1. hits \subseteq Nat
    BY ProbeInTable
  <2> HIDE DEF hits
  <2>2. Min(hits) \in hits /\ \A k \in hits : Min(hits) <= k
    BY <2>1, <1>2, MinIsLeast
  <2> DEFINE m == Min(hits)
  <2>3. FirstOn(ref, E) = probe(ref, m)
    BY <1>2 DEF FirstOn, hits
  <2> HIDE DEF m
  <2>4. m \in EntryIdx /\ probe(ref, m) \in E /\ \A k \in hits : m <= k
    BY <2>2 DEF m, hits
  <2>5. \A k \in EntryIdx : k < m => probe(ref, k) \notin E
    BY <2>4, ProbeInTable DEF hits
  <2> QED BY <2>3, <2>4, <2>5, ProbeInTable
<1> QED BY <1>1, <1>2

\* With the walks unbroken a search finds the entry that holds the ref, which
\* makes that entry the only one, and finds nothing when none does.
LEMMA FindHolds ==
    ASSUME WalksUnbroken, NEW ref \in Refs
    PROVE  /\ \A h \in Holding(ref) : ref_find(ref) = h
           /\ Holding(ref) = {} => ref_find(ref) = kRefTableSize
           /\ Holding(ref) # {} => ref_find(ref) # kRefTableSize
           /\ Holding(ref) \subseteq EntryIdx
<1>1. ASSUME NEW h \in Holding(ref) PROVE ref_find(ref) = h
  <2> DEFINE E == InState("Empty") \cup Holding(ref)
  <2>1. h \in InState("Occupied") /\ ref_table[h].ref = ref
    BY DEF Holding, InState
  <2>2. PICK n \in EntryIdx :
           /\ h = probe(ref, n)
           /\ \A k \in EntryIdx : k < n => probe(ref, k) \notin E
    BY <2>1 DEF WalksUnbroken
  <2>3. h \in E
    OBVIOUS
  <2> HIDE DEF E
  <2>4. PICK m \in EntryIdx :
           /\ FirstOn(ref, E) = probe(ref, m) /\ FirstOn(ref, E) \in E
           /\ \A k \in EntryIdx : k < m => probe(ref, k) \notin E
    BY <2>2, <2>3, FirstOnWalk
  <2>5. m = n
    BY <2>2, <2>3, <2>4, ProbeInTable
  <2>6. EndOfSearch(ref) = h
    BY <2>2, <2>4, <2>5 DEF EndOfSearch, E
  <2> QED BY <2>6 DEF ref_find
<1>2. Holding(ref) = {} => ref_find(ref) = kRefTableSize
  BY DEF ref_find
<1>3. Holding(ref) \subseteq EntryIdx
  BY DEF Holding
<1> QED BY <1>1, <1>2, <1>3, ProbeInTable
-----------------------------------------------------------------------------
(***************************************************************************)
(* The table and the pool                                                  *)
(***************************************************************************)
\* Every Occupied entry leads to the order of its ref, every order is held.
EntriesMatch ==
    /\ \A h \in InState("Occupied") :
          /\ ref_table[h].slot \in DOMAIN orders
          /\ orders[ref_table[h].slot].ref = ref_table[h].ref
    /\ \A s \in DOMAIN orders : \E h \in InState("Occupied") : ref_table[h].slot = s

TableInv ==
    /\ ref_table \in [EntryIdx -> Entry]
    /\ WalksUnbroken
    /\ EntriesMatch
    /\ CountersAgree

IInv == BInv /\ TableInv

\* Sets of entries are finite, and none is larger than the table.
LEMMA EntriesFinite ==
    ASSUME NEW S \in SUBSET EntryIdx
    PROVE  IsFiniteSet(S) /\ Cardinality(S) \in 0..kRefTableSize
<1>1. kRefTableSize \in Nat \ {0}
  BY TableAssumption
<1>2. IsFiniteSet(EntryIdx) /\ Cardinality(EntryIdx) = kRefTableSize
  BY <1>1, FS_Interval DEF EntryIdx
<1>3. IsFiniteSet(S) /\ Cardinality(S) <= kRefTableSize
  BY <1>2, FS_Subset
<1> QED BY <1>1, <1>3, FS_CardinalityType

\* What an Occupied entry holds.
LEMMA LiveEntry ==
    ASSUME BookTypeOK, TableInv, NEW h \in InState("Occupied")
    PROVE  /\ h \in EntryIdx /\ ref_table[h].slot \in DOMAIN orders /\ ref_table[h].slot \in Slot
           /\ orders[ref_table[h].slot].ref = ref_table[h].ref
           /\ ref_table[h].ref \in Refs
           /\ h \in Holding(ref_table[h].ref)
           /\ ref_find(ref_table[h].ref) = h
<1>1. h \in EntryIdx /\ h \in Holding(ref_table[h].ref)
  BY DEF InState, Holding
<1>2. ref_table[h].slot \in DOMAIN orders /\ orders[ref_table[h].slot].ref = ref_table[h].ref
  BY DEF TableInv, EntriesMatch
<1>3. OrdersType(orders)
  BY TypeParts
<1>4. ref_table[h].ref \in Refs /\ ref_table[h].slot \in Slot
  BY <1>2, <1>3, PlaceOfOrder
<1> QED BY <1>1, <1>2, <1>4, FindHolds DEF TableInv

\* The entries that hold refs are no more than the slots of the pool.
LEMMA LiveAtMost ==
    ASSUME BookTypeOK, TableInv
    PROVE  Cardinality(InState("Occupied")) \in 0..kMaxOrders
<1> DEFINE Live == InState("Occupied")
           f    == [h \in Live |-> ref_table[h].slot]
<1>1. kMaxOrders \in Nat \ {0} /\ IsFiniteSet(Slot) /\ Cardinality(Slot) = kMaxOrders
  BY PoolAssumption, FS_Interval DEF Slot
<1>2. \A h \in Live : /\ ref_table[h].slot \in Slot
                      /\ ref_find(orders[ref_table[h].slot].ref) = h
  BY LiveEntry
<1>3. Live \in SUBSET EntryIdx
  BY DEF InState
<1> HIDE DEF Live
<1>4. f \in Injection(Live, Slot)
  BY <1>2 DEF Injection, IsInjective
<1>5. Cardinality(Live) <= Cardinality(Slot)
  BY <1>1, <1>4, FS_Injection
<1>6. Cardinality(Live) \in 0..kRefTableSize
  BY <1>3, EntriesFinite
<1> QED BY <1>1, <1>5, <1>6, TableAssumption DEF Live

\* An order in the pool is held by the entry a search for its ref ends at.
LEMMA FindsOrder ==
    ASSUME BookTypeOK, TableInv, NEW s \in DOMAIN orders
    PROVE  /\ orders[s].ref \in Refs
           /\ ref_find(orders[s].ref) \in InState("Occupied")
           /\ ref_table[ref_find(orders[s].ref)].slot = s
<1>1. PICK h \in InState("Occupied") : ref_table[h].slot = s
  BY DEF TableInv, EntriesMatch
<1>2. ref_table[h].ref = orders[s].ref /\ ref_table[h].ref \in Refs /\ ref_find(orders[s].ref) = h
  BY <1>1, LiveEntry
<1> QED BY <1>1, <1>2

\* Without an order of that ref no entry holds it.
LEMMA HoldsNothing ==
    ASSUME BookTypeOK, TableInv, NEW ref \in Refs, ~IsLive(ref)
    PROVE  Holding(ref) = {} /\ ref_find(ref) = kRefTableSize
<1>1. ASSUME NEW h \in Holding(ref) PROVE FALSE
  <2>1. h \in InState("Occupied") /\ ref_table[h].ref = ref
    BY DEF Holding, InState
  <2> QED BY <2>1, LiveEntry DEF IsLive
<1> QED BY <1>1, FindHolds DEF TableInv
-----------------------------------------------------------------------------
(***************************************************************************)
(* Insertion and erasure                                                   *)
(***************************************************************************)
\* WalksUnbroken of any table, one entry at a time.
EmptyIn(tab)        == {h \in EntryIdx : tab[h].state = "Empty"}
HoldingIn(tab, ref) == {h \in EntryIdx : tab[h].state = "Occupied" /\ tab[h].ref = ref}
WalkTo(tab, h) ==
    \E n \in EntryIdx :
       /\ h = probe(tab[h].ref, n)
       /\ \A k \in EntryIdx : k < n =>
            probe(tab[h].ref, k) \notin EmptyIn(tab) \cup HoldingIn(tab, tab[h].ref)

\* The same said of the table before and after a step.
LEMMA WalksOneByOne ==
    /\ WalksUnbroken <=> \A h \in InState("Occupied") : WalkTo(ref_table, h)
    /\ WalksUnbroken' <=> \A h \in InState("Occupied")' : WalkTo(ref_table', h)
    /\ InState("Empty") = EmptyIn(ref_table) /\ InState("Empty")' = EmptyIn(ref_table')
    /\ \A ref : Holding(ref) = HoldingIn(ref_table, ref)
  BY DEF WalksUnbroken, WalkTo, InState, Holding, EmptyIn, HoldingIn

\* ref_insert takes the first entry of the walk that is not Occupied: before
\* it there is none that is Empty, and none that holds the ref.
LEMMA InsertKeeps ==
    ASSUME BookTypeOK, TableInv, NEW ref \in Refs, ~IsLive(ref),
           NEW slot \in Slot \ DOMAIN orders, NEW o, o.ref = ref,
           orders' = WithSlot(orders, slot, o),
           FreeEntry(ref) # kRefTableSize, ref_insert(ref, slot)
    PROVE  TableInv'
<1> DEFINE h == FreeEntry(ref)
           e == [ref |-> ref, slot |-> slot, state |-> "Occupied"]
<1>1. PICK n \in EntryIdx :
         /\ h = probe(ref, n)
         /\ h \in (InState("Empty") \cup InState("Tombstone")) \cap EntryIdx
         /\ \A k \in EntryIdx : k < n =>
              probe(ref, k) \notin InState("Empty") \cup InState("Tombstone")
  BY FirstOnWalk DEF FreeEntry
<1>2. /\ ref_table' = [ref_table EXCEPT ![h] = e]
      /\ ref_live' = ref_live + 1
      /\ ref_tombstones' =
             IF ref_table[h].state = "Tombstone" THEN ref_tombstones - 1 ELSE ref_tombstones
  BY DEF ref_insert
<1>3. ref_table \in [EntryIdx -> Entry] /\ WalksUnbroken /\ EntriesMatch /\ CountersAgree
  BY DEF TableInv
<1>4. e \in Entry /\ e.state = "Occupied" /\ e.ref = ref /\ e.slot = slot
  BY DEF Entry, RefEntryState
<1> HIDE DEF h, e
<1>5. /\ ref_table' \in [EntryIdx -> Entry]
      /\ ref_table'[h] = e
      /\ \A g \in EntryIdx : g # h => ref_table'[g] = ref_table[g]
  BY <1>1, <1>2, <1>3, <1>4
<1>6. /\ h \notin InState("Occupied")
      /\ InState("Occupied")' = InState("Occupied") \cup {h}
      /\ InState("Empty")' = InState("Empty") \ {h}
      /\ InState("Tombstone")' = InState("Tombstone") \ {h}
      /\ h \in InState("Tombstone") <=> ref_table[h].state = "Tombstone"
  BY <1>1, <1>4, <1>5 DEF InState
<1>7. Holding(ref) = {}
  BY HoldsNothing
<1>8. /\ HoldingIn(ref_table', ref) = {h}
      /\ \A r : r # ref => HoldingIn(ref_table', r) = HoldingIn(ref_table, r)
      /\ EmptyIn(ref_table') = EmptyIn(ref_table) \ {h}
  <2>1. HoldingIn(ref_table, ref) = {}
    BY <1>7, WalksOneByOne
  <2>2. ref_table[h].state # "Occupied"
    BY <1>1, <1>6 DEF InState
  <2> QED BY <2>1, <2>2, <1>1, <1>4, <1>5 DEF HoldingIn, EmptyIn
<1>9. WalksUnbroken'
  <2> SUFFICES ASSUME NEW g \in InState("Occupied")' PROVE WalkTo(ref_table', g)
    BY WalksOneByOne
  <2>1. CASE g = h
    <3>1. ref_table'[g].ref = ref
      BY <2>1, <1>4, <1>5
    <3>2. \A k \in EntryIdx : k < n => probe(ref, k) \notin EmptyIn(ref_table') \cup {h}
      BY <1>1, <1>8, WalksOneByOne
    <3> QED BY <3>1, <3>2, <2>1, <1>1, <1>8 DEF WalkTo
  <2>2. CASE g # h
    <3>1. g \in InState("Occupied") /\ g \in EntryIdx /\ ref_table'[g] = ref_table[g]
      BY <2>2, <1>5, <1>6 DEF InState
    <3>2. ref_table[g].ref # ref
      BY <3>1, <1>7 DEF Holding, InState
    <3>3. WalkTo(ref_table, g)
      BY <3>1, <1>3, WalksOneByOne
    <3> QED BY <3>1, <3>2, <3>3, <1>8 DEF WalkTo
  <2> QED BY <2>1, <2>2
<1>10. EntriesMatch'
  <2>1. /\ DOMAIN orders' = DOMAIN orders \cup {slot} /\ orders'[slot].ref = ref
        /\ \A s \in DOMAIN orders : orders'[s] = orders[s]
    BY DEF WithSlot
  <2>2. ASSUME NEW g \in InState("Occupied")'
        PROVE  /\ ref_table'[g].slot \in DOMAIN orders'
               /\ orders'[ref_table'[g].slot].ref = ref_table'[g].ref
    <3>1. CASE g = h
      BY <3>1, <2>1, <1>4, <1>5
    <3>2. CASE g # h
      <4>1. g \in InState("Occupied") /\ g \in EntryIdx /\ ref_table'[g] = ref_table[g]
        BY <3>2, <1>5, <1>6 DEF InState
      <4> QED BY <4>1, <2>1, <1>3 DEF EntriesMatch
    <3> QED BY <3>1, <3>2
  <2>3. ASSUME NEW s \in DOMAIN orders'
        PROVE  \E g \in InState("Occupied")' : ref_table'[g].slot = s
    <3>1. CASE s = slot
      BY <3>1, <1>4, <1>5, <1>6
    <3>2. CASE s # slot
      <4>1. PICK g \in InState("Occupied") : ref_table[g].slot = s
        BY <3>2, <2>1, <1>3 DEF EntriesMatch
      <4>2. g # h /\ g \in EntryIdx /\ g \in InState("Occupied")'
        BY <1>6 DEF InState
      <4> QED BY <4>1, <4>2, <1>5
    <3> QED BY <3>1, <3>2
  <2> QED BY <2>2, <2>3 DEF EntriesMatch
<1>11. CountersAgree'
  <2>1. /\ IsFiniteSet(InState("Occupied")) /\ IsFiniteSet(InState("Tombstone"))
    BY EntriesFinite DEF InState
  <2>2. Cardinality(InState("Occupied")') = Cardinality(InState("Occupied")) + 1
    BY <2>1, <1>6, FS_AddElement
  <2>3. Cardinality(InState("Tombstone")') =
           IF h \in InState("Tombstone") THEN Cardinality(InState("Tombstone")) - 1
           ELSE Cardinality(InState("Tombstone"))
    BY <2>1, <1>6, FS_RemoveElement
  <2> QED BY <2>2, <2>3, <1>2, <1>3, <1>6 DEF CountersAgree
<1> QED BY <1>5, <1>9, <1>10, <1>11 DEF TableInv

\* ref_erase leaves a tombstone, which no walk stops at: the entry that held
\* the ref, and no other, is released.
LEMMA EraseKeeps ==
    ASSUME BookTypeOK, TableInv, NEW slot \in DOMAIN orders,
           orders' = WithoutSlot(orders, slot), ref_erase(orders[slot].ref)
    PROVE  TableInv'
<1> DEFINE ref == orders[slot].ref
           h   == ref_find(ref)
           e   == [ref_table[h] EXCEPT !.state = "Tombstone"]
<1>1. ref \in Refs /\ h \in InState("Occupied") /\ h \in EntryIdx /\ ref_table[h].slot = slot
  BY FindsOrder DEF InState
<1>2. /\ ref_table' = [ref_table EXCEPT ![h] = e]
      /\ ref_live' = ref_live - 1
      /\ ref_tombstones' = ref_tombstones + 1
  <2>1. h # kRefTableSize
    BY <1>1, ProbeInTable
  <2> QED BY <2>1 DEF ref_erase
<1>3. ref_table \in [EntryIdx -> Entry] /\ WalksUnbroken /\ EntriesMatch /\ CountersAgree
  BY DEF TableInv
<1>4. e \in Entry /\ e.state = "Tombstone"
  <2>1. ref_table[h] \in Entry
    BY <1>1, <1>3
  <2> QED BY <2>1 DEF Entry, RefEntryState
<1>5. \A g \in InState("Occupied") : ref_table[g].slot = slot => g = h
  BY LiveEntry
<1> HIDE DEF h, e, ref
<1>6. /\ ref_table' \in [EntryIdx -> Entry]
      /\ ref_table'[h] = e
      /\ \A g \in EntryIdx : g # h => ref_table'[g] = ref_table[g]
  BY <1>1, <1>2, <1>3, <1>4
<1>7. /\ InState("Occupied")' = InState("Occupied") \ {h}
      /\ InState("Empty")' = InState("Empty")
      /\ h \notin InState("Tombstone")
      /\ InState("Tombstone")' = InState("Tombstone") \cup {h}
  BY <1>1, <1>4, <1>6 DEF InState
<1>8. /\ \A r : HoldingIn(ref_table', r) \subseteq HoldingIn(ref_table, r)
      /\ EmptyIn(ref_table') = EmptyIn(ref_table)
  <2>1. \A r : HoldingIn(ref_table', r) \subseteq HoldingIn(ref_table, r)
    BY <1>4, <1>6 DEF HoldingIn
  <2> QED BY <2>1, <1>7, WalksOneByOne
<1>9. \A g \in InState("Occupied")' : /\ g \in InState("Occupied") /\ g # h /\ g \in EntryIdx
                                      /\ ref_table'[g] = ref_table[g]
  BY <1>6, <1>7 DEF InState
<1>10. WalksUnbroken'
  <2> SUFFICES ASSUME NEW g \in InState("Occupied")' PROVE WalkTo(ref_table', g)
    BY WalksOneByOne
  <2>1. WalkTo(ref_table, g)
    BY <1>3, <1>9, WalksOneByOne
  <2> QED BY <2>1, <1>8, <1>9 DEF WalkTo
<1>11. EntriesMatch'
  <2>1. /\ DOMAIN orders' = DOMAIN orders \ {slot}
        /\ \A s \in DOMAIN orders' : orders'[s] = orders[s]
    BY DEF WithoutSlot
  <2>2. ASSUME NEW g \in InState("Occupied")'
        PROVE  /\ ref_table'[g].slot \in DOMAIN orders'
               /\ orders'[ref_table'[g].slot].ref = ref_table'[g].ref
    <3>1. /\ ref_table[g].slot \in DOMAIN orders /\ ref_table[g].slot # slot
          /\ orders[ref_table[g].slot].ref = ref_table[g].ref
      BY <1>3, <1>5, <1>9 DEF EntriesMatch
    <3> QED BY <3>1, <2>1, <1>9
  <2>3. ASSUME NEW s \in DOMAIN orders'
        PROVE  \E g \in InState("Occupied")' : ref_table'[g].slot = s
    <3>1. s \in DOMAIN orders /\ s # slot
      BY <2>1
    <3>2. PICK g \in InState("Occupied") : ref_table[g].slot = s
      BY <3>1, <1>3 DEF EntriesMatch
    <3>3. g \in InState("Occupied")'
      BY <3>1, <3>2, <1>1, <1>7
    <3> QED BY <3>2, <3>3, <1>9
  <2> QED BY <2>2, <2>3 DEF EntriesMatch
<1>12. CountersAgree'
  <2>1. /\ IsFiniteSet(InState("Occupied")) /\ IsFiniteSet(InState("Tombstone"))
    BY EntriesFinite DEF InState
  <2>2. Cardinality(InState("Occupied")') = Cardinality(InState("Occupied")) - 1
    BY <2>1, <1>1, <1>7, FS_RemoveElement
  <2>3. Cardinality(InState("Tombstone")') = Cardinality(InState("Tombstone")) + 1
    BY <2>1, <1>7, FS_AddElement
  <2> QED BY <2>2, <2>3, <1>2, <1>3 DEF CountersAgree
<1> QED BY <1>6, <1>10, <1>11, <1>12 DEF TableInv

\* A step that leaves the table, and the slots and refs of the pool, alone.
LEMMA TableUntouched ==
    ASSUME TableInv, UNCHANGED table, DOMAIN orders' = DOMAIN orders,
           \A s \in DOMAIN orders : orders'[s].ref = orders[s].ref
    PROVE  TableInv'
<1>1. /\ ref_table' = ref_table /\ ref_live' = ref_live /\ ref_tombstones' = ref_tombstones
      /\ \A s : InState(s)' = InState(s)
  BY DEF table, InState
<1>2. WalksUnbroken'
  BY <1>1, WalksOneByOne DEF TableInv
<1>3. EntriesMatch'
  BY <1>1 DEF TableInv, EntriesMatch
<1>4. CountersAgree'
  BY <1>1 DEF TableInv, CountersAgree
<1> QED BY <1>1, <1>2, <1>3, <1>4 DEF TableInv
-----------------------------------------------------------------------------
(***************************************************************************)
(* Room in the table                                                       *)
(***************************************************************************)
\* A walk comes to every entry.
LEMMA ProbeReaches ==
    ASSUME NEW ref \in Refs, NEW h \in EntryIdx
    PROVE  \E n \in EntryIdx : probe(ref, n) = h
<1> DEFINE K == kRefTableSize
           x == h - ref
           n == x % K
           q == x \div K
<1>1. K \in Nat \ {0} /\ ref \in Nat /\ h \in Nat /\ h < K
  BY TableAssumption, RefsAssumption DEF EntryIdx
<1> HIDE DEF K
<1>2. x \in Int /\ x + ref = h
  BY <1>1
<1> HIDE DEF x
<1>3. n \in Nat /\ n < K /\ q \in Int /\ x = q * K + n
  BY <1>1, <1>2
<1> HIDE DEF n, q
<1>4. ref + n = (0 - q) * K + h
  <2> DEFINE p == q * K
  <2>1. p \in Int /\ (0 - q) * K = 0 - p
    BY <1>1, <1>3
  <2> HIDE DEF p
  <2> QED BY <2>1, <1>1, <1>2, <1>3 DEF p
<1>5. (ref + n) % K = h
  <2> DEFINE r == 0 - q
  <2>1. r \in Int /\ ref + n = r * K + h
    BY <1>3, <1>4
  <2> HIDE DEF r
  <2> QED BY <2>1, <1>1
<1> QED BY <1>1, <1>3, <1>5 DEF probe, EntryIdx, K

\* There is always room for one more: the table is never half full, and what
\* is not Occupied can be taken.
LEMMA RoomForMore ==
    ASSUME BookTypeOK, TableInv, NEW ref \in Refs
    PROVE  FreeEntry(ref) # kRefTableSize
<1> DEFINE Live == InState("Occupied")
<1>1. Live \subseteq EntryIdx
  BY DEF InState
<1>2. Cardinality(Live) <= kMaxOrders
  BY LiveAtMost, PoolAssumption
<1>3. Cardinality(EntryIdx) = kRefTableSize
  BY TableAssumption, FS_Interval DEF EntryIdx
<1>4. kMaxOrders < kRefTableSize
  BY PoolAssumption, LoadAssumption, TableAssumption
<1>5. Live # EntryIdx
  <2> SUFFICES ASSUME Live = EntryIdx PROVE FALSE
    OBVIOUS
  <2> HIDE DEF Live
  <2> QED BY <1>2, <1>3, <1>4, PoolAssumption, TableAssumption
<1>6. PICK h \in EntryIdx : h \notin Live
  BY <1>1, <1>5
<1>7. h \in InState("Empty") \cup InState("Tombstone")
  <2>1. ref_table[h] \in Entry
    BY DEF TableInv
  <2> QED BY <2>1, <1>6 DEF Entry, RefEntryState, InState
<1>8. PICK n \in EntryIdx : probe(ref, n) = h
  BY ProbeReaches
<1> QED BY <1>7, <1>8, FirstOnWalk, ProbeInTable DEF FreeEntry
-----------------------------------------------------------------------------
(***************************************************************************)
(* One lemma per action that the index takes part in                       *)
(***************************************************************************)
\* The empty book and its empty table.
LEMMA InitInv == Init => IInv
<1> SUFFICES ASSUME Init PROVE IInv
  OBVIOUS
<1>1. BInv
  BY BookInitInv DEF Init
<1>2. DOMAIN orders = {}
  BY DEF Init, BookInit, PoolInit
<1>3. \A h \in EntryIdx : ref_table[h] = [ref |-> 0, slot |-> 0, state |-> "Empty"]
  BY DEF Init, TableInit
<1>4. [ref |-> 0, slot |-> 0, state |-> "Empty"] \in Entry
  BY PoolAssumption DEF Entry, RefEntryState, Slot
<1>5. InState("Occupied") = {} /\ InState("Tombstone") = {}
  BY <1>3 DEF InState
<1>6. CountersAgree
  BY <1>5, FS_EmptySet DEF CountersAgree, Init, TableInit
<1>7. ref_table \in [EntryIdx -> Entry] /\ WalksUnbroken /\ EntriesMatch
  BY <1>2, <1>4, <1>5 DEF Init, TableInit, WalksUnbroken, EntriesMatch
<1> QED BY <1>1, <1>6, <1>7 DEF IInv, TableInv

\* A trade erases the ref of the order it empties.
LEMMA FillFrontStep == ASSUME IInv, FillFront PROVE IInv'
<1>1. TradeWithFront /\ BInv /\ BookTypeOK /\ TableInv
  BY DEF FillFront, IInv, BInv
<1>2. /\ top \in DOMAIN orders
      /\ Spent => orders' = WithoutSlot(orders, top)
      /\ ~Spent => /\ DOMAIN orders' = DOMAIN orders
                   /\ \A s \in DOMAIN orders : orders'[s].ref = orders[s].ref
  BY <1>1, OrdersAfterTrade
<1>3. /\ Spent => ref_erase(orders[top].ref)
      /\ ~Spent => UNCHANGED table
  BY DEF FillFront
<1>4. TableInv'
  BY <1>1, <1>2, <1>3, EraseKeeps, TableUntouched
<1> QED BY <1>1, <1>4, TradeStep DEF IInv

\* The rest of an order finds room in the table.
LEMMA RestsWithRoom ==
    ASSUME IInv, SubmitRests
    PROVE  /\ RestInSlot /\ ref_insert(req.ref, free_head)
           /\ req.ref \in Refs /\ ~IsLive(req.ref) /\ free_head \in Slot \ DOMAIN orders
           /\ FreeEntry(req.ref) # kRefTableSize
<1>1. BInv /\ BookTypeOK /\ TableInv
  BY DEF IInv, BInv
<1>2. pc # "idle" /\ req.ref \in Refs
  BY <1>1 DEF SubmitRests, Unmatched, BookTypeOK, OrderRequest
<1>3. FreeEntry(req.ref) # kRefTableSize
  BY <1>1, <1>2, RoomForMore
<1>4. RestInSlot /\ ref_insert(req.ref, free_head)
  BY <1>3 DEF SubmitRests
<1>5. ~IsLive(req.ref)
  BY <1>1, <1>2 DEF BInv, AtWork
<1>6. free_head \in Slot \ DOMAIN orders
  BY <1>1, <1>4, SlotTaken
<1> QED BY <1>2, <1>3, <1>4, <1>5, <1>6

\* And joins the pool and the table together.
LEMMA SubmitRestsStep == ASSUME IInv, SubmitRests PROVE IInv'
<1> DEFINE o == [ref |-> req.ref, remainQty |-> remaining,
                 level |-> index(req.limit_price), side |-> req.side]
<1>1. BInv /\ BookTypeOK /\ TableInv
  BY DEF IInv, BInv
<1>2. /\ RestInSlot /\ ref_insert(req.ref, free_head)
      /\ req.ref \in Refs /\ ~IsLive(req.ref) /\ free_head \in Slot \ DOMAIN orders
      /\ FreeEntry(req.ref) # kRefTableSize
  BY RestsWithRoom
<1>3. orders' = WithSlot(orders, free_head, o)
  BY <1>1, <1>2, SlotTaken
<1>4. o.ref = req.ref
  OBVIOUS
<1> HIDE DEF o
<1>5. TableInv'
  BY <1>1, <1>2, <1>3, <1>4, InsertKeeps
<1> QED BY <1>1, <1>2, <1>5, RestStep DEF IInv

\* cancel finds the slot of the ref it is given, and no other's.
LEMMA CancelFinds ==
    ASSUME IInv, NEW ref \in Refs, Cancel(ref)
    PROVE  LET slot == ref_table[ref_find(ref)].slot
           IN  /\ slot \in DOMAIN orders /\ orders[slot].ref = ref
               /\ ref_find(ref) \in Holding(ref)
               /\ RemoveOrder(slot) /\ orders' = WithoutSlot(orders, slot)
<1> DEFINE slot == ref_table[ref_find(ref)].slot
<1>1. ref_find(ref) # kRefTableSize /\ RemoveOrder(slot) /\ BookTypeOK /\ TableInv
  BY DEF Cancel, IInv, BInv
<1>2. ref_find(ref) \in Holding(ref)
  BY <1>1, FindHolds DEF TableInv
<1>3. ref_find(ref) \in InState("Occupied") /\ ref_table[ref_find(ref)].ref = ref
  BY <1>2 DEF Holding, InState
<1>4. slot \in DOMAIN orders /\ orders[slot].ref = ref
  BY <1>1, <1>3, LiveEntry
<1>5. orders' = WithoutSlot(orders, slot)
  BY <1>1 DEF RemoveOrder, release, WithoutSlot
<1> QED BY <1>1, <1>2, <1>4, <1>5

\* It leaves the pool and the table together.
LEMMA CancelStep == ASSUME IInv, NEW ref \in Refs, Cancel(ref) PROVE IInv'
<1> DEFINE slot == ref_table[ref_find(ref)].slot
<1>1. BInv /\ BookTypeOK /\ TableInv /\ ref_erase(ref)
  BY DEF IInv, BInv, Cancel
<1>2. /\ slot \in DOMAIN orders /\ orders[slot].ref = ref
      /\ RemoveOrder(slot) /\ orders' = WithoutSlot(orders, slot)
  BY CancelFinds
<1> HIDE DEF slot
<1>3. TableInv'
  BY <1>1, <1>2, EraseKeeps
<1> QED BY <1>1, <1>2, <1>3, RemoveStep DEF IInv

\* The steps that leave pool and table alone.
LEMMA IndexKept ==
    ASSUME IInv, BInv', UNCHANGED table, orders' = orders PROVE IInv'
<1>1. TableInv'
  BY TableUntouched DEF IInv
<1> QED BY <1>1 DEF IInv
-----------------------------------------------------------------------------
(***************************************************************************)
(* Theorems                                                                *)
(***************************************************************************)
\* Every step keeps the invariant.
LEMMA Inductive == ASSUME PositiveQtys PROVE IInv /\ [Next]_vars => IInv'
<1> SUFFICES ASSUME IInv, [Next]_vars PROVE IInv'
  OBVIOUS
<1>0. BInv
  BY DEF IInv
<1>1. ASSUME NEW request \in OrderRequest,
             Submit(request) \/ SubmitRefused(request), UNCHANGED table
      PROVE  IInv'
  <2>1. BInv'
    BY <1>0, <1>1, SubmitStep, SubmitRefusedStep
  <2>2. orders' = orders
    BY <1>1 DEF Submit, SubmitRefused, pool
  <2> QED BY <2>1, <2>2, <1>1, IndexKept
<1>2. CASE EnterLevel /\ UNCHANGED table
  <2>1. orders' = orders
    BY <1>2 DEF EnterLevel, pool
  <2> QED BY <2>1, <1>0, <1>2, EnterLevelStep, IndexKept
<1>3. CASE FillFront
  BY <1>3, FillFrontStep
<1>4. CASE LeaveLevel /\ UNCHANGED table
  <2>1. orders' = orders
    BY <1>4 DEF LeaveLevel, pool
  <2> QED BY <2>1, <1>0, <1>4, LeaveLevelStep, IndexKept
<1>5. CASE (SubmitFilled \/ SubmitNoSlot) /\ UNCHANGED table
  <2>1. orders' = orders
    BY <1>5 DEF SubmitFilled, SubmitNoSlot, pool
  <2> QED BY <2>1, <1>0, <1>5, ReturnStep, IndexKept
<1>6. CASE SubmitRests
  BY <1>6, SubmitRestsStep
<1>7. ASSUME NEW ref \in Refs, Cancel(ref) PROVE IInv'
  BY <1>7, CancelStep
<1>8. ASSUME NEW ref \in Refs, CancelUnknown(ref) PROVE IInv'
  <2>1. orders' = orders /\ RemoveNothing /\ UNCHANGED table
    BY <1>8 DEF CancelUnknown, RemoveNothing, pool
  <2> QED BY <2>1, <1>0, RemoveNothingStep, IndexKept
<1>9. CASE UNCHANGED vars
  <2>1. orders' = orders /\ UNCHANGED table /\ UNCHANGED bookVars
    BY <1>9 DEF vars, bookVars, pool
  <2> QED BY <2>1, <1>0, BookStutter, IndexKept
<1> QED BY <1>1, <1>2, <1>3, <1>4, <1>5, <1>6, <1>7, <1>8, <1>9 DEF Next, Working

\* Everything below holds throughout.
THEOREM Invariance == ASSUME PositiveQtys PROVE Spec => []IInv
<1>1. Init => IInv
  BY InitInv
<1>2. IInv /\ [Next]_vars => IInv'
  BY Inductive
<1> QED BY <1>1, <1>2, PTL DEF Spec

\* Every structure keeps its type: at most kMaxOrders entries are Occupied and
\* the count of tombstones never leaves the table.
THEOREM TypeCorrect == ASSUME PositiveQtys PROVE Spec => []TypeOK
<1>1. ASSUME IInv PROVE TypeOK
  <2>1. BookTypeOK /\ TableInv
    BY <1>1 DEF IInv, BInv
  <2>2. ref_live \in 0..kMaxOrders
    BY <2>1, LiveAtMost DEF TableInv, CountersAgree
  <2>3. InState("Tombstone") \in SUBSET EntryIdx
    BY DEF InState
  <2>4. ref_tombstones \in 0..kRefTableSize
    BY <2>1, <2>3, EntriesFinite DEF TableInv, CountersAgree
  <2> QED BY <2>1, <2>2, <2>4 DEF TypeOK, TableInv, Entry
<1>2. IInv => TypeOK
  BY <1>1
<1> QED BY <1>2, Invariance, PTL

\* ref_find finds every resting order and nothing else, whatever the history
\* of insertions and erasures: cancel never silently fails.
THEOREM FindCorrect == ASSUME PositiveQtys PROVE Spec => []FindAgrees
<1>1. ASSUME IInv, NEW ref \in Refs
      PROVE  IF IsLive(ref)
             THEN /\ ref_find(ref) # kRefTableSize
                  /\ orders[ref_table[ref_find(ref)].slot].ref = ref
             ELSE ref_find(ref) = kRefTableSize
  <2>1. BookTypeOK /\ TableInv
    BY <1>1 DEF IInv, BInv
  <2>2. CASE IsLive(ref)
    <3>1. PICK s \in DOMAIN orders : orders[s].ref = ref
      BY <2>2 DEF IsLive
    <3>2. ref_find(ref) \in InState("Occupied") /\ ref_table[ref_find(ref)].slot = s
      BY <3>1, <2>1, FindsOrder
    <3>3. ref_find(ref) # kRefTableSize
      BY <3>2, ProbeInTable DEF InState
    <3> QED BY <2>2, <3>1, <3>2, <3>3
  <2>3. CASE ~IsLive(ref)
    BY <2>1, <2>3, HoldsNothing
  <2> QED BY <2>2, <2>3
<1>2. IInv => FindAgrees
  BY <1>1 DEF FindAgrees
<1> QED BY <1>2, Invariance, PTL

\* A tombstone never becomes Empty and an insertion skips none: no walk to an
\* entry that holds a ref is ever broken, and no ref is held twice.
THEOREM WalksCorrect == ASSUME PositiveQtys PROVE Spec => []WalksUnbroken
<1>1. IInv => WalksUnbroken
  BY DEF IInv, TableInv
<1> QED BY <1>1, Invariance, PTL

\* ref_live and ref_tombstones count the entries in the two states.
THEOREM CountersCorrect == ASSUME PositiveQtys PROVE Spec => []CountersAgree
<1>1. IInv => CountersAgree
  BY DEF IInv, TableInv
<1> QED BY <1>1, Invariance, PTL

\* The counters change with the orders here too, step by step.
LEMMA SumsInductive == IInv /\ Sums /\ [Next]_vars => Sums'
<1> SUFFICES ASSUME IInv, Sums, [Next]_vars PROVE Sums'
  OBVIOUS
<1>0. BInv
  BY DEF IInv
<1>1. CASE \E request \in OrderRequest : Submit(request) \/ SubmitRefused(request)
  <2>1. UNCHANGED <<pool, book>>
    BY <1>1 DEF Submit, SubmitRefused
  <2> QED BY <2>1, SumsKept
<1>2. CASE EnterLevel \/ LeaveLevel \/ SubmitFilled \/ SubmitNoSlot
  <2>1. UNCHANGED <<pool, book>>
    BY <1>2 DEF EnterLevel, LeaveLevel, SubmitFilled, SubmitNoSlot
  <2> QED BY <2>1, SumsKept
<1>3. CASE FillFront
  BY <1>0, <1>3, SumsTrade DEF FillFront
<1>4. CASE SubmitRests
  <2>1. RestInSlot
    BY <1>4, RestsWithRoom
  <2> QED BY <1>0, <2>1, SumsRest
<1>5. ASSUME NEW ref \in Refs, Cancel(ref) PROVE Sums'
  <2> DEFINE slot == ref_table[ref_find(ref)].slot
  <2>1. slot \in DOMAIN orders /\ RemoveOrder(slot)
    BY <1>5, CancelFinds
  <2> HIDE DEF slot
  <2> QED BY <1>0, <2>1, SumsRemove
<1>6. ASSUME NEW ref \in Refs, CancelUnknown(ref) PROVE Sums'
  <2>1. UNCHANGED <<pool, book>>
    BY <1>6 DEF CancelUnknown, RemoveNothing
  <2> QED BY <2>1, SumsKept
<1>7. CASE UNCHANGED vars
  <2>1. UNCHANGED <<pool, book>>
    BY <1>7 DEF vars, bookVars
  <2> QED BY <2>1, SumsKept
<1> QED BY <1>1, <1>2, <1>3, <1>4, <1>5, <1>6, <1>7 DEF Next, Working

\* The book around the table is as whole as PoolOrderBook's: its slots, queues,
\* counters, bitmap and hints satisfy what is proved of them there.
THEOREM PooledCorrect ==
    ASSUME PositiveQtys
    PROVE  Spec => [](/\ SlotsPartitioned /\ QueuesWellLinked /\ TotalsAgree
                      /\ BitmapAgrees /\ TouchIsBest)
<1>1. Init => Sums
  BY SumsAtFirst DEF Init
<1>2. IInv /\ Sums /\ [Next]_vars => Sums'
  BY SumsInductive
<1>3. IInv /\ Sums => /\ SlotsPartitioned /\ QueuesWellLinked /\ TotalsAgree
                     /\ BitmapAgrees /\ TouchIsBest
  <2>1. IInv => BInv /\ BitmapAgrees /\ TouchIsBest
    BY DEF IInv, BInv
  <2> QED BY <2>1, Partitioned, WellLinked, SumsAgree
<1> QED BY <1>1, <1>2, <1>3, Invariance, PTL DEF Spec
-----------------------------------------------------------------------------
(***************************************************************************)
(* The two pooled books, but for the index, are the same definitions: what *)
(* INSTANCE made of those of PooledBook is what they were.                 *)
(***************************************************************************)
\* The bitmap searches.
LEMMA SameSearches ==
    ASSUME NEW bm, NEW from
    PROVE  /\ PoolBook!next_up(bm, from) = next_up(bm, from)
           /\ PoolBook!next_down(bm, from) = next_down(bm, from)
<1>1. PoolBook!next_up(bm, from) = next_up(bm, from)
  BY DEF PoolBook!next_up, next_up, PoolBook!Min, Min, PoolBook!kWords, kWords
<1>2. PoolBook!next_down(bm, from) = next_down(bm, from)
  BY DEF PoolBook!next_down, next_down, PoolBook!Max, Max
<1> QED BY <1>1, <1>2

\* What becomes of the touch.
LEMMA SameLevelEvents ==
    ASSUME NEW side, NEW i
    PROVE  /\ PoolBook!on_level_occupied(side, i) <=> on_level_occupied(side, i)
           /\ PoolBook!on_level_emptied(side, i) <=> on_level_emptied(side, i)
<1>1. PoolBook!on_level_occupied(side, i) <=> on_level_occupied(side, i)
  BY DEF PoolBook!on_level_occupied, on_level_occupied, PoolBook!SetBit, SetBit,
         PoolBook!kNone, kNone, PoolBook!Better, Better, PoolBook!Buy, Buy
<1>2. PoolBook!on_level_emptied(side, i) <=> on_level_emptied(side, i)
  BY SameSearches
     DEF PoolBook!on_level_emptied, on_level_emptied, PoolBook!ClearBit, ClearBit,
         PoolBook!kNone, kNone, PoolBook!Buy, Buy, PoolBook!Sell, Sell
<1> QED BY <1>1, <1>2

\* The empty book.
LEMMA SameInit ==
    PoolBook!BookInit <=> BookInit
  BY DEF PoolBook!BookInit, BookInit, PoolBook!TouchInit, TouchInit, PoolBook!PoolInit,
     PoolInit, PoolBook!NoBits, NoBits, PoolBook!Words, Words, PoolBook!kWords, kWords,
     PoolBook!BookSide, BookSide, PoolBook!Buy, Buy, PoolBook!Sell, Sell,
     PoolBook!LevelIdx, LevelIdx, PoolBook!EmptyLevel, EmptyLevel, PoolBook!kNil, kNil,
     PoolBook!Slot, Slot, PoolBook!kNone, kNone

\* submit, up to its loops.
LEMMA SameSubmit ==
    ASSUME NEW r
    PROVE  /\ PoolBook!OrderRequest = OrderRequest
           /\ PoolBook!Submit(r) <=> Submit(r)
           /\ PoolBook!SubmitRefused(r) <=> SubmitRefused(r)
  BY DEF PoolBook!OrderRequest, OrderRequest, PoolBook!Submit, Submit,
     PoolBook!SubmitRefused, SubmitRefused, PoolBook!IsLive, IsLive, PoolBook!HasIndex,
     HasIndex, PoolBook!kCeilTicks, kCeilTicks, PoolBook!index, index, PoolBook!touch,
     touch, PoolBook!pool, pool, PoolBook!book, book, PoolBook!locals, locals

\* The outer loop reaches a level.
LEMMA SameEnter ==
    PoolBook!EnterLevel <=> EnterLevel
  BY DEF PoolBook!EnterLevel, EnterLevel, PoolBook!Reaches, Reaches, PoolBook!kNone,
     kNone, PoolBook!Crosses, Crosses, PoolBook!index, index, PoolBook!touch, touch,
     PoolBook!pool, pool, PoolBook!book, book, PoolBook!locals, locals,
     PoolBook!BookSideOf, BookSideOf, PoolBook!Buy, Buy, PoolBook!Sell, Sell,
     PoolBook!ownSide, ownSide, PoolBook!Opposite, Opposite, PoolBook!cur, cur

\* A trade.
LEMMA SameTrade ==
    PoolBook!TradeWithFront <=> TradeWithFront
  BY DEF PoolBook!TradeWithFront, TradeWithFront, PoolBook!priceAt, priceAt,
     PoolBook!UnlinkLevel, UnlinkLevel, PoolBook!UnlinkLinks, UnlinkLinks,
     PoolBook!release, release, PoolBook!touch, touch, PoolBook!pool, pool,
     PoolBook!book, book, PoolBook!locals, locals, PoolBook!BookSideOf, BookSideOf,
     PoolBook!Buy, Buy, PoolBook!Sell, Sell, PoolBook!ownSide, ownSide,
     PoolBook!Opposite, Opposite, PoolBook!cur, cur, PoolBook!top, top, PoolBook!kNil,
     kNil, PoolBook!fillQty, fillQty, PoolBook!Lesser, Lesser, PoolBook!left, left,
     PoolBook!Spent, Spent

\* What is left of the front.
LEMMA SameSpent ==
    (PoolBook!Spent <=> Spent) /\ PoolBook!top = top
  BY DEF PoolBook!BookSideOf, BookSideOf, PoolBook!Buy, Buy, PoolBook!Sell, Sell,
     PoolBook!ownSide, ownSide, PoolBook!Opposite, Opposite, PoolBook!cur, cur,
     PoolBook!top, top, PoolBook!kNil, kNil, PoolBook!fillQty, fillQty, PoolBook!Lesser,
     Lesser, PoolBook!left, left, PoolBook!Spent, Spent

\* The inner loop ends.
LEMMA SameLeave ==
    PoolBook!LeaveLevel <=> LeaveLevel
  BY SameLevelEvents DEF PoolBook!LeaveLevel, LeaveLevel, PoolBook!top, top,
     PoolBook!kNil, kNil, PoolBook!touch, touch, PoolBook!pool, pool, PoolBook!book,
     book, PoolBook!locals, locals, PoolBook!BookSideOf, BookSideOf, PoolBook!Buy, Buy,
     PoolBook!Sell, Sell, PoolBook!ownSide, ownSide, PoolBook!Opposite, Opposite,
     PoolBook!cur, cur

\* submit returns.
LEMMA SameReturn ==
    (PoolBook!SubmitFilled <=> SubmitFilled) /\ (PoolBook!SubmitNoSlot <=> SubmitNoSlot)
  BY DEF PoolBook!SubmitFilled, SubmitFilled, PoolBook!SubmitNoSlot, SubmitNoSlot,
     PoolBook!Unmatched, Unmatched, PoolBook!Return, Return, PoolBook!Reaches, Reaches,
     PoolBook!kNone, kNone, PoolBook!Crosses, Crosses, PoolBook!index, index,
     PoolBook!kNil, kNil, PoolBook!touch, touch, PoolBook!pool, pool, PoolBook!book,
     book, PoolBook!locals, locals, PoolBook!BookSideOf, BookSideOf, PoolBook!Buy, Buy,
     PoolBook!Sell, Sell, PoolBook!ownSide, ownSide, PoolBook!Opposite, Opposite,
     PoolBook!cur, cur

\* An order rests.
LEMMA SameRest ==
    PoolBook!RestInSlot <=> RestInSlot
  BY SameLevelEvents DEF PoolBook!RestInSlot, RestInSlot, PoolBook!Unmatched, Unmatched,
     PoolBook!Return, Return, PoolBook!Reaches, Reaches, PoolBook!kNone, kNone,
     PoolBook!Crosses, Crosses, PoolBook!index, index, PoolBook!kNil, kNil,
     PoolBook!alloc, alloc, PoolBook!PushBackLinks, PushBackLinks,
     PoolBook!PushBackLevel, PushBackLevel, PoolBook!BookSideOf, BookSideOf,
     PoolBook!Buy, Buy, PoolBook!Sell, Sell, PoolBook!ownSide, ownSide,
     PoolBook!Opposite, Opposite, PoolBook!cur, cur

\* cancel, once it has the slot.
LEMMA SameRemove ==
    ASSUME NEW slot
    PROVE  PoolBook!RemoveOrder(slot) <=> RemoveOrder(slot)
  BY SameLevelEvents DEF PoolBook!RemoveOrder, RemoveOrder, PoolBook!BookSideOf,
     BookSideOf, PoolBook!Buy, Buy, PoolBook!Sell, Sell, PoolBook!UnlinkLevel,
     UnlinkLevel, PoolBook!UnlinkLinks, UnlinkLinks, PoolBook!release, release,
     PoolBook!kNil, kNil, PoolBook!touch, touch, PoolBook!pool, pool, PoolBook!book,
     book, PoolBook!locals, locals

\* cancel of nothing.
LEMMA SameNothing ==
    (PoolBook!RemoveNothing <=> RemoveNothing) /\ PoolBook!bookVars = bookVars
  BY DEF PoolBook!RemoveNothing, RemoveNothing, PoolBook!bookVars, bookVars,
     PoolBook!touch, touch, PoolBook!pool, pool, PoolBook!book, book, PoolBook!locals,
     locals

-----------------------------------------------------------------------------
(***************************************************************************)
(* The table is PoolOrderBook's map                                        *)
(***************************************************************************)
\* What the map holds: the slot of every order, under its ref.
IndexOf(ord, f) ==
    /\ DOMAIN f = {ord[s].ref : s \in DOMAIN ord}
    /\ \A s \in DOMAIN ord : f[ord[s].ref] = s
    /\ f = [r \in DOMAIN f |-> f[r]]

IndexRight == IndexOf(orders, indexed)

\* The table holds just that.
LEMMA IndexedRight == IInv => IndexRight
<1> SUFFICES ASSUME IInv PROVE IndexOf(orders, indexed)
  BY DEF IndexRight
<1>1. BookTypeOK /\ TableInv
  BY DEF IInv, BInv
<1>2. \A s \in DOMAIN orders : orders[s].ref \in Refs
  BY <1>1, FindsOrder
<1>3. ASSUME NEW s \in DOMAIN orders
      PROVE  /\ Holding(orders[s].ref) # {}
             /\ ref_table[CHOOSE h \in Holding(orders[s].ref) : TRUE].slot = s
  <2> DEFINE ref == orders[s].ref
             e   == CHOOSE h \in Holding(ref) : TRUE
  <2>1. ref \in Refs /\ ref_find(ref) \in InState("Occupied") /\ ref_table[ref_find(ref)].slot = s
    BY <1>1, FindsOrder
  <2>2. Holding(ref) # {}
    BY <1>1, <2>1, ProbeInTable, FindHolds DEF TableInv, InState
  <2> HIDE DEF ref
  <2>3. e \in Holding(ref)
    BY <2>2
  <2> HIDE DEF e
  <2>4. ref_find(ref) = e
    BY <1>1, <2>1, <2>3, FindHolds DEF TableInv
  <2> QED BY <2>1, <2>2, <2>4 DEF ref, e
<1>4. \A ref \in Refs : Holding(ref) # {} => \E s \in DOMAIN orders : orders[s].ref = ref
  BY <1>1, HoldsNothing DEF IsLive
<1>5. DOMAIN indexed = {r \in Refs : Holding(r) # {}}
  BY DEF indexed
<1>6. \A r \in DOMAIN indexed : indexed[r] = ref_table[CHOOSE h \in Holding(r) : TRUE].slot
  BY DEF indexed
<1>7. indexed = [r \in DOMAIN indexed |-> indexed[r]]
  BY DEF indexed
<1>8. DOMAIN indexed = {orders[s].ref : s \in DOMAIN orders}
  <2>1. \A s \in DOMAIN orders : orders[s].ref \in Refs /\ Holding(orders[s].ref) # {}
    BY <1>2, <1>3
  <2>2. ASSUME NEW r, r \in DOMAIN indexed PROVE r \in {orders[s].ref : s \in DOMAIN orders}
    <3>1. r \in Refs /\ Holding(r) # {}
      BY <2>2, <1>5
    <3>2. PICK s \in DOMAIN orders : orders[s].ref = r
      BY <3>1, <1>4
    <3> QED BY <3>2
  <2>3. ASSUME NEW s \in DOMAIN orders PROVE orders[s].ref \in DOMAIN indexed
    BY <2>1, <1>5
  <2> QED BY <2>2, <2>3
<1>9. \A s \in DOMAIN orders : indexed[orders[s].ref] = s
  BY <1>3, <1>6, <1>8
<1> QED BY <1>7, <1>8, <1>9 DEF IndexOf

\* The same, with the map spelled out.
LEMMA IndexedIs == IInv => IndexOf(orders, indexed)
  BY IndexedRight DEF IndexRight

\* And after a step, of the table as it is then.
LEMMA IndexedIsThen == IInv' => IndexOf(orders', indexed')
<1>1. IInv' => IndexRight'
  BY IndexedRight, PTL
<1> QED BY <1>1 DEF IndexRight

\* Two maps of the same refs to the same slots are one.
LEMMA IndexSame ==
    ASSUME NEW ord, NEW f, IndexOf(ord, f), NEW ord2, NEW f2, IndexOf(ord2, f2),
           DOMAIN ord2 = DOMAIN ord, \A s \in DOMAIN ord : ord2[s].ref = ord[s].ref
    PROVE  f2 = f
<1>1. DOMAIN f2 = DOMAIN f
  BY DEF IndexOf
<1>2. \A r \in DOMAIN f : f2[r] = f[r]
  BY DEF IndexOf
<1> QED BY <1>1, <1>2 DEF IndexOf

\* An order that leaves the pool leaves the map.
LEMMA IndexErased ==
    ASSUME NEW ord, NEW f, IndexOf(ord, f), NEW slot \in DOMAIN ord,
           NEW f2, IndexOf(WithoutSlot(ord, slot), f2)
    PROVE  f2 = PoolBook!Erase(f, ord[slot].ref)
<1> DEFINE ord2 == WithoutSlot(ord, slot)
           ref  == ord[slot].ref
<1>1. DOMAIN ord2 = DOMAIN ord \ {slot} /\ \A s \in DOMAIN ord2 : ord2[s] = ord[s]
  BY DEF WithoutSlot
<1>2. \A s \in DOMAIN ord : f[ord[s].ref] = s
  BY DEF IndexOf
<1>3. DOMAIN f = {ord[s].ref : s \in DOMAIN ord} /\ DOMAIN f2 = {ord2[s].ref : s \in DOMAIN ord2}
  BY DEF IndexOf
<1>4. \A s \in DOMAIN ord2 : f2[ord2[s].ref] = s
  BY DEF IndexOf
<1>5. f2 = [r \in DOMAIN f2 |-> f2[r]]
  BY DEF IndexOf
<1> HIDE DEF ord2
<1>6. DOMAIN f2 = DOMAIN f \ {ref}
  BY <1>1, <1>2, <1>3
<1>7. \A r \in DOMAIN f2 : f2[r] = f[r]
  BY <1>1, <1>2, <1>3, <1>4
<1> QED BY <1>5, <1>6, <1>7 DEF PoolBook!Erase

\* An order that joins it joins the map, its ref being new.
LEMMA IndexPut ==
    ASSUME NEW ord, NEW f, IndexOf(ord, f), NEW slot, slot \notin DOMAIN ord, NEW o,
           \A s \in DOMAIN ord : ord[s].ref # o.ref,
           NEW f2, IndexOf(WithSlot(ord, slot, o), f2)
    PROVE  f2 = PoolBook!Put(f, o.ref, slot)
<1> DEFINE ord2 == WithSlot(ord, slot, o)
<1>1. /\ DOMAIN ord2 = DOMAIN ord \cup {slot} /\ ord2[slot] = o
      /\ \A s \in DOMAIN ord : ord2[s] = ord[s]
  BY DEF WithSlot
<1>2. \A s \in DOMAIN ord : f[ord[s].ref] = s
  BY DEF IndexOf
<1>3. DOMAIN f = {ord[s].ref : s \in DOMAIN ord} /\ DOMAIN f2 = {ord2[s].ref : s \in DOMAIN ord2}
  BY DEF IndexOf
<1>4. \A s \in DOMAIN ord2 : f2[ord2[s].ref] = s
  BY DEF IndexOf
<1>5. f2 = [r \in DOMAIN f2 |-> f2[r]]
  BY DEF IndexOf
<1> HIDE DEF ord2
<1>6. DOMAIN f2 = DOMAIN f \cup {o.ref}
  BY <1>1, <1>3
<1>7. f2[o.ref] = slot /\ \A r \in DOMAIN f : f2[r] = f[r]
  BY <1>1, <1>2, <1>3, <1>4
<1>8. o.ref \notin DOMAIN f
  BY <1>3
<1>9. \A r \in DOMAIN f2 : f2[r] = IF r = o.ref THEN slot ELSE f[r]
  BY <1>6, <1>7, <1>8
<1> QED BY <1>5, <1>6, <1>9 DEF PoolBook!Put
-----------------------------------------------------------------------------
(***************************************************************************)
(* The refinement                                                          *)
(***************************************************************************)
\* A trade is PoolOrderBook's trade.
LEMMA FillFrontRefines == ASSUME IInv, IInv', FillFront PROVE PoolBook!FillFront
<1>1. TradeWithFront /\ BInv
  BY DEF FillFront, IInv
<1>2. /\ top \in DOMAIN orders
      /\ Spent => orders' = WithoutSlot(orders, top)
      /\ ~Spent => /\ DOMAIN orders' = DOMAIN orders
                   /\ \A s \in DOMAIN orders : orders'[s].ref = orders[s].ref
  BY <1>1, OrdersAfterTrade
<1>3. IndexOf(orders, indexed) /\ IndexOf(orders', indexed')
  BY IndexedIs, IndexedIsThen
<1>4. /\ Spent => indexed' = PoolBook!Erase(indexed, orders[top].ref)
      /\ ~Spent => indexed' = indexed
  BY <1>2, <1>3, IndexErased, IndexSame
<1> QED BY <1>1, <1>4, SameTrade, SameSpent DEF PoolBook!FillFront

\* So is the rest of an order, which always finds room in the table.
LEMMA SubmitRestsRefines == ASSUME IInv, IInv', SubmitRests PROVE PoolBook!SubmitRests
<1> DEFINE o == [ref |-> req.ref, remainQty |-> remaining,
                 level |-> index(req.limit_price), side |-> req.side]
<1>1. RestInSlot /\ ~IsLive(req.ref) /\ free_head \in Slot \ DOMAIN orders /\ BInv
  BY RestsWithRoom DEF IInv
<1>2. orders' = WithSlot(orders, free_head, o)
  BY <1>1, SlotTaken
<1>3. o.ref = req.ref
  OBVIOUS
<1> HIDE DEF o
<1>4. IndexOf(orders, indexed) /\ IndexOf(orders', indexed')
  BY IndexedIs, IndexedIsThen
<1>5. indexed' = PoolBook!Put(indexed, o.ref, free_head)
  BY <1>1, <1>2, <1>3, <1>4, IndexPut DEF IsLive
<1> QED BY <1>1, <1>3, <1>5, SameRest DEF PoolBook!SubmitRests

\* A cancel that finds its order is PoolOrderBook's.
LEMMA CancelRefines ==
    ASSUME IInv, IInv', NEW ref \in Refs, Cancel(ref) PROVE PoolBook!Cancel(ref)
<1> DEFINE slot == ref_table[ref_find(ref)].slot
<1>1. /\ slot \in DOMAIN orders /\ orders[slot].ref = ref
      /\ RemoveOrder(slot) /\ orders' = WithoutSlot(orders, slot)
  BY CancelFinds
<1> HIDE DEF slot
<1>2. IndexOf(orders, indexed) /\ IndexOf(orders', indexed')
  BY IndexedIs, IndexedIsThen
<1>3. ref \in DOMAIN indexed /\ indexed[ref] = slot
  BY <1>1, <1>2 DEF IndexOf
<1>4. indexed' = PoolBook!Erase(indexed, ref)
  BY <1>1, <1>2, IndexErased
<1> QED BY <1>1, <1>3, <1>4, SameRemove DEF PoolBook!Cancel

\* And one that finds none: PoolOrderBook has none either.
LEMMA CancelUnknownRefines ==
    ASSUME IInv, IInv', NEW ref \in Refs, CancelUnknown(ref) PROVE PoolBook!CancelUnknown(ref)
<1>1. RemoveNothing /\ orders' = orders /\ ref_find(ref) = kRefTableSize
  BY DEF CancelUnknown, RemoveNothing, pool
<1>2. IndexOf(orders, indexed) /\ IndexOf(orders', indexed')
  BY IndexedIs, IndexedIsThen
<1>3. indexed' = indexed
  BY <1>1, <1>2, IndexSame
<1>4. Holding(ref) = {}
  BY <1>1, FindHolds DEF IInv, TableInv
<1>5. ref \notin DOMAIN indexed
  BY <1>4 DEF indexed
<1> QED BY <1>1, <1>3, <1>5, SameNothing DEF PoolBook!CancelUnknown

\* Every step is one of PoolOrderBook's.
LEMMA StepRefines ==
    ASSUME IInv, IInv', [Next]_vars
    PROVE  [PoolBook!Next]_(PoolBook!vars)
<1>1. IndexOf(orders, indexed) /\ IndexOf(orders', indexed')
  BY IndexedIs, IndexedIsThen
<1>2. orders' = orders => indexed' = indexed
  BY <1>1, IndexSame
<1>3. ASSUME NEW request \in OrderRequest, Submit(request) \/ SubmitRefused(request)
      PROVE  PoolBook!Next
  <2>1. orders' = orders
    BY <1>3 DEF Submit, SubmitRefused, pool
  <2> QED BY <2>1, <1>2, <1>3, SameSubmit DEF PoolBook!Next
<1>4. CASE EnterLevel
  <2>1. orders' = orders
    BY <1>4 DEF EnterLevel, pool
  <2> QED BY <2>1, <1>2, <1>4, SameEnter DEF PoolBook!Next, PoolBook!Working
<1>5. CASE FillFront
  BY <1>5, FillFrontRefines DEF PoolBook!Next, PoolBook!Working
<1>6. CASE LeaveLevel
  <2>1. orders' = orders
    BY <1>6 DEF LeaveLevel, pool
  <2> QED BY <2>1, <1>2, <1>6, SameLeave DEF PoolBook!Next, PoolBook!Working
<1>7. CASE SubmitFilled \/ SubmitNoSlot
  <2>1. orders' = orders
    BY <1>7 DEF SubmitFilled, SubmitNoSlot, pool
  <2> QED BY <2>1, <1>2, <1>7, SameReturn DEF PoolBook!Next, PoolBook!Working
<1>8. CASE SubmitRests
  BY <1>8, SubmitRestsRefines DEF PoolBook!Next, PoolBook!Working
<1>9. ASSUME NEW ref \in Refs, Cancel(ref) \/ CancelUnknown(ref) PROVE PoolBook!Next
  BY <1>9, CancelRefines, CancelUnknownRefines DEF PoolBook!Next
<1>10. CASE UNCHANGED vars
  <2>1. orders' = orders /\ UNCHANGED bookVars
    BY <1>10 DEF vars, bookVars, pool
  <2>2. UNCHANGED PoolBook!bookVars
    BY <2>1 DEF bookVars, touch, pool, book, locals, PoolBook!bookVars, PoolBook!touch,
                PoolBook!pool, PoolBook!book, PoolBook!locals
  <2> QED BY <2>1, <2>2, <1>2 DEF PoolBook!vars
<1> QED BY <1>3, <1>4, <1>5, <1>6, <1>7, <1>8, <1>9, <1>10 DEF Next, Working

\* "Only the ref index differs": FlatOrderBook does, step by step, what
\* PoolOrderBook does, and never refuses an order for want of an entry.
THEOREM Refinement == ASSUME PositiveQtys PROVE Spec => ImplementsPoolOrderBook
<1>1. Init => PoolBook!Init
  <2> SUFFICES ASSUME Init PROVE PoolBook!Init
    OBVIOUS
  <2>1. BookInit /\ DOMAIN orders = {}
    BY DEF Init, BookInit, PoolInit
  <2>2. IndexOf(orders, indexed)
    BY InitInv, IndexedIs
  <2>3. indexed = [r \in {} |-> 0]
    BY <2>1, <2>2 DEF IndexOf
  <2> QED BY <2>1, <2>3, SameInit DEF PoolBook!Init
<1>2. IInv /\ IInv' /\ [Next]_vars => [PoolBook!Next]_(PoolBook!vars)
  BY StepRefines
<1> QED BY <1>1, <1>2, Invariance, PTL DEF Spec, ImplementsPoolOrderBook, PoolBook!Spec
=============================================================================
