--------------------------- MODULE PooledBook_proofs ---------------------------
(***************************************************************************)
(* What the pool, the queues and the touch of PoolOrderBook and            *)
(* FlatOrderBook keep, action by action and whatever the index: for every  *)
(* size of the pool, window and word.                                      *)
(***************************************************************************)
EXTENDS PooledBook, Window_proofs, FiniteSetTheorems

\* What callers owe the book; nothing in it checks that.
PositiveQtys == Qtys \subseteq Nat \ {0}

LinksType  == [Slot -> [prev : Link, next : Link]]
LevelsType == [BookSide -> [LevelIdx -> PoolLevel]]
OrdersType(ord) == DOMAIN ord \subseteq Slot /\ ord \in [DOMAIN ord -> PooledOrder]

WithLevel(L, side, i, lvl) == [L EXCEPT ![side][i] = lvl]
WithNext(lk, slot, next)   == [lk EXCEPT ![slot].next = next]
WithoutSlot(ord, slot)     == [s \in DOMAIN ord \ {slot} |-> ord[s]]
WithSlot(ord, slot, o)     == [s \in DOMAIN ord \cup {slot} |-> IF s = slot THEN o ELSE ord[s]]
-----------------------------------------------------------------------------
(***************************************************************************)
(* The queues, link by link                                                *)
(***************************************************************************)
\* The order of a slot is kept at this level.
IsAt(ord, s, side, i) == BookSideOf(ord[s].side) = side /\ ord[s].level = i

SamePlace(ord, s, t) ==
    BookSideOf(ord[s].side) = BookSideOf(ord[t].side) /\ ord[s].level = ord[t].level

\* A taken slot's neighbours point back at it; at an end, its level does.
SlotLinked(lk, ord, lev, s) ==
    LET p   == lk[s].prev
        n   == lk[s].next
        lvl == lev[BookSideOf(ord[s].side)][ord[s].level]
    IN  /\ p = kNil => lvl.head = s
        /\ p # kNil => p \in DOMAIN ord /\ lk[p].next = s /\ SamePlace(ord, p, s)
        /\ n = kNil => lvl.tail = s
        /\ n # kNil => n \in DOMAIN ord /\ lk[n].prev = s /\ SamePlace(ord, n, s)

\* A level's head and tail are taken slots of that level and the ends of a queue.
LevelLinked(lk, ord, lev, side, i) ==
    LET h == lev[side][i].head
        t == lev[side][i].tail
    IN  /\ h = kNil <=> t = kNil
        /\ h # kNil => h \in DOMAIN ord /\ IsAt(ord, h, side, i) /\ lk[h].prev = kNil
        /\ t # kNil => t \in DOMAIN ord /\ IsAt(ord, t, side, i) /\ lk[t].next = kNil

Linked(lk, ord, lev) ==
    /\ \A s \in DOMAIN ord : SlotLinked(lk, ord, lev, s)
    /\ \A side \in BookSide, i \in LevelIdx : LevelLinked(lk, ord, lev, side, i)

\* -1 is no slot.
LEMMA NilIsNoSlot == kNil \notin Slot /\ kNil \in Link /\ Slot \subseteq Link
  BY PoolAssumption DEF kNil, Slot, Link

\* An order's level is a level of a side of the book.
LEMMA PlaceOfOrder ==
    ASSUME NEW ord, OrdersType(ord), NEW s \in DOMAIN ord
    PROVE  /\ s \in Slot /\ ord[s] \in PooledOrder
           /\ BookSideOf(ord[s].side) \in BookSide /\ ord[s].level \in LevelIdx
           /\ ord[s].ref \in Refs /\ ord[s].remainQty \in Nat \ {0}
<1>1. s \in Slot /\ ord[s] \in PooledOrder
  BY DEF OrdersType
<1> QED BY <1>1 DEF PooledOrder, BookSideOf, BookSide

\* Assigning a slot's next changes that.
LEMMA NextSet ==
    ASSUME NEW lk \in LinksType, NEW slot \in Slot, NEW next \in Link
    PROVE  /\ WithNext(lk, slot, next) \in LinksType
           /\ \A s \in Slot :
                /\ WithNext(lk, slot, next)[s].prev = lk[s].prev
                /\ WithNext(lk, slot, next)[s].next = IF s = slot THEN next ELSE lk[s].next
<1>1. WithNext(lk, slot, next) \in LinksType
  BY DEF LinksType, WithNext
<1>2. ASSUME NEW s \in Slot
      PROVE  /\ WithNext(lk, slot, next)[s].prev = lk[s].prev
             /\ WithNext(lk, slot, next)[s].next = IF s = slot THEN next ELSE lk[s].next
  BY DEF LinksType, WithNext
<1> QED BY <1>1, <1>2

\* The four cases of unlink come to two assignments: the next slot takes over
\* prev, the previous one next.  release then reuses the slot's own next.
LEMMA UnlinkFields ==
    ASSUME NEW lk \in LinksType, NEW slot \in Slot, NEW fh \in Link, NEW new,
           new = WithNext(UnlinkLinks(lk, slot), slot, fh)
    PROVE  /\ new \in LinksType
           /\ new[slot].next = fh
           /\ \A s \in Slot : s # slot =>
                /\ new[s].prev = IF s = lk[slot].next THEN lk[slot].prev ELSE lk[s].prev
                /\ new[s].next = IF s = lk[slot].prev THEN lk[slot].next ELSE lk[s].next
<1> DEFINE p == lk[slot].prev
           n == lk[slot].next
           u == UnlinkLinks(lk, slot)
<1>1. p \in Link /\ n \in Link
  BY DEF LinksType
<1>2. /\ u \in LinksType
      /\ \A s \in Slot : /\ u[s].prev = IF s = n THEN p ELSE lk[s].prev
                         /\ u[s].next = IF s = p THEN n ELSE lk[s].next
  <2>1. CASE p = kNil /\ n = kNil
    BY <2>1, NilIsNoSlot DEF UnlinkLinks, LinksType
  <2>2. CASE p = kNil /\ n # kNil
    <3>1. u = [lk EXCEPT ![n].prev = kNil] /\ n \in Slot
      BY <2>2, <1>1 DEF UnlinkLinks, Link
    <3> HIDE DEF u, n, p
    <3> QED BY <2>2, <3>1, NilIsNoSlot DEF LinksType
  <2>3. CASE p # kNil /\ n = kNil
    <3>1. u = [lk EXCEPT ![p].next = kNil] /\ p \in Slot
      BY <2>3, <1>1 DEF UnlinkLinks, Link
    <3> HIDE DEF u, n, p
    <3> QED BY <2>3, <3>1, NilIsNoSlot DEF LinksType
  <2>4. CASE p # kNil /\ n # kNil
    <3>1. u = [lk EXCEPT ![p].next = n, ![n].prev = p] /\ p \in Slot /\ n \in Slot
      BY <2>4, <1>1 DEF UnlinkLinks, Link
    <3> HIDE DEF u, n, p
    <3> QED BY <2>4, <3>1, NilIsNoSlot DEF LinksType
  <2> QED BY <2>1, <2>2, <2>3, <2>4
<1> HIDE DEF u, p, n
<1>3. new = WithNext(u, slot, fh)
  BY DEF u
<1>4. /\ new \in LinksType
      /\ \A s \in Slot : /\ new[s].prev = u[s].prev
                         /\ new[s].next = IF s = slot THEN fh ELSE u[s].next
  BY <1>2, <1>3, NextSet
<1> QED BY <1>2, <1>4 DEF p, n

\* push_back writes the new slot's links and the old tail's next.
LEMMA PushBackFields ==
    ASSUME NEW lk \in LinksType, NEW lvl \in PoolLevel, NEW slot \in Slot,
           lvl.head # kNil => lvl.tail \in Slot \ {slot}
    PROVE  LET new == PushBackLinks(lk, lvl, slot)
           IN  /\ new \in LinksType
               /\ new[slot].prev = IF lvl.head = kNil THEN kNil ELSE lvl.tail
               /\ new[slot].next = kNil
               /\ \A s \in Slot : s # slot =>
                    /\ new[s].prev = lk[s].prev
                    /\ new[s].next = IF lvl.head # kNil /\ s = lvl.tail THEN slot ELSE lk[s].next
<1> DEFINE new == PushBackLinks(lk, lvl, slot)
<1>1. CASE lvl.head = kNil
  <2>1. new = [lk EXCEPT ![slot] = [prev |-> kNil, next |-> kNil]]
    BY <1>1 DEF PushBackLinks
  <2> HIDE DEF new
  <2>2. \A s \in Slot : new[s] = IF s = slot THEN [prev |-> kNil, next |-> kNil] ELSE lk[s]
    BY <2>1 DEF LinksType
  <2>3. new \in LinksType
    BY <2>1, NilIsNoSlot DEF LinksType
  <2> QED BY <1>1, <2>2, <2>3 DEF new
<1>2. CASE lvl.head # kNil
  <2> DEFINE t == lvl.tail
  <2>1. t \in Slot /\ t # slot
    BY <1>2
  <2>2. new = [lk EXCEPT ![slot] = [prev |-> t, next |-> kNil], ![t].next = slot]
    BY <1>2 DEF PushBackLinks
  <2> HIDE DEF new, t
  <2>3. \A s \in Slot : new[s] = IF s = slot THEN [prev |-> t, next |-> kNil]
                                 ELSE IF s = t THEN [lk[t] EXCEPT !.next = slot] ELSE lk[s]
    BY <2>1, <2>2 DEF LinksType
  <2>4. \A s \in Slot : lk[s] \in [prev : Link, next : Link]
    BY DEF LinksType
  <2>5. new \in LinksType
    BY <2>1, <2>2, <2>4, NilIsNoSlot DEF LinksType
  <2> QED BY <1>2, <2>1, <2>3, <2>4, <2>5 DEF new, t
<1> QED BY <1>1, <1>2

\* UnlinkLevel takes a slot off the ends of its level.
LEMMA UnlinkEnds ==
    ASSUME NEW lk \in LinksType, NEW slot \in Slot, NEW lvl \in PoolLevel, NEW qty \in Int
    PROVE  LET new == UnlinkLevel(lk, lvl, slot, qty)
           IN  /\ new \in PoolLevel
               /\ new.head = IF lk[slot].prev = kNil THEN lk[slot].next ELSE lvl.head
               /\ new.tail = IF lk[slot].next = kNil THEN lk[slot].prev ELSE lvl.tail
<1>1. lk[slot].prev \in Link /\ lk[slot].next \in Link
  BY DEF LinksType
<1>2. lvl.total_qty \in Int /\ lvl.head \in Link /\ lvl.tail \in Link
  BY DEF PoolLevel
<1> QED BY <1>1, <1>2 DEF UnlinkLevel, PoolLevel

\* Assigning one level changes that level.
LEMMA SetLevel ==
    ASSUME NEW L \in LevelsType, NEW side \in BookSide, NEW i \in LevelIdx, NEW lvl \in PoolLevel
    PROVE  /\ WithLevel(L, side, i, lvl) \in LevelsType
           /\ WithLevel(L, side, i, lvl)[side][i] = lvl
           /\ \A other \in BookSide, j \in LevelIdx :
                other # side \/ j # i => WithLevel(L, side, i, lvl)[other][j] = L[other][j]
  BY DEF LevelsType, WithLevel

\* A slot unlinked and released leaves the queues linked: its neighbours are
\* each other's now, and nothing refers to it any more.
LEMMA UnlinkKeepsLinked ==
    ASSUME NEW lk \in LinksType, NEW ord, OrdersType(ord), NEW lev \in LevelsType,
           Linked(lk, ord, lev), NEW slot \in DOMAIN ord,
           NEW side, NEW i, IsAt(ord, slot, side, i),
           NEW fh \in Link, NEW lk2, lk2 = WithNext(UnlinkLinks(lk, slot), slot, fh),
           NEW lev2 \in LevelsType,
           \A other \in BookSide, j \in LevelIdx :
              other # side \/ j # i => lev2[other][j] = lev[other][j],
           lev2[side][i].head = IF lk[slot].prev = kNil THEN lk[slot].next ELSE lev[side][i].head,
           lev2[side][i].tail = IF lk[slot].next = kNil THEN lk[slot].prev ELSE lev[side][i].tail
    PROVE  Linked(lk2, WithoutSlot(ord, slot), lev2)
<1> DEFINE p == lk[slot].prev
           n == lk[slot].next
           ord2 == WithoutSlot(ord, slot)
<1>1. slot \in Slot /\ side \in BookSide /\ i \in LevelIdx
  BY PlaceOfOrder DEF IsAt
<1>2. \A s \in Slot : s # slot =>
         /\ lk2[s].prev = IF s = n THEN p ELSE lk[s].prev
         /\ lk2[s].next = IF s = p THEN n ELSE lk[s].next
  BY <1>1, UnlinkFields DEF p, n
<1>3. DOMAIN ord2 = DOMAIN ord \ {slot} /\ \A s \in DOMAIN ord2 : ord2[s] = ord[s]
  BY DEF WithoutSlot
<1>4. \A s \in DOMAIN ord : /\ s \in Slot /\ s # kNil /\ SlotLinked(lk, ord, lev, s)
                            /\ BookSideOf(ord[s].side) \in BookSide /\ ord[s].level \in LevelIdx
  BY PlaceOfOrder, NilIsNoSlot DEF Linked
<1>5. /\ p = kNil => lev[side][i].head = slot
      /\ p # kNil => p \in DOMAIN ord /\ lk[p].next = slot /\ IsAt(ord, p, side, i)
      /\ n = kNil => lev[side][i].tail = slot
      /\ n # kNil => n \in DOMAIN ord /\ lk[n].prev = slot /\ IsAt(ord, n, side, i)
  <2>1. SlotLinked(lk, ord, lev, slot)
    BY <1>4
  <2> QED BY <2>1 DEF SlotLinked, SamePlace, IsAt
<1> HIDE DEF p, n, ord2
<1>6. ASSUME NEW s \in DOMAIN ord2
      PROVE  SlotLinked(lk2, ord2, lev2, s)
  <2> DEFINE sd == BookSideOf(ord[s].side)
             lv == ord[s].level
             q  == lk[s].prev
             m  == lk[s].next
  <2>1. /\ s \in DOMAIN ord /\ s # slot /\ ord2[s] = ord[s] /\ s \in Slot
        /\ sd \in BookSide /\ lv \in LevelIdx
        /\ lk2[s].prev = IF s = n THEN p ELSE q
        /\ lk2[s].next = IF s = p THEN n ELSE m
    BY <1>2, <1>3, <1>4
  <2>2. /\ q = kNil => lev[sd][lv].head = s
        /\ q # kNil => q \in DOMAIN ord /\ lk[q].next = s /\ IsAt(ord, q, sd, lv)
        /\ m = kNil => lev[sd][lv].tail = s
        /\ m # kNil => m \in DOMAIN ord /\ lk[m].prev = s /\ IsAt(ord, m, sd, lv)
    BY <1>4, <2>1 DEF SlotLinked, SamePlace, IsAt
  <2>3. /\ s = n => sd = side /\ lv = i
        /\ s = p => sd = side /\ lv = i
    BY <1>4, <1>5, <2>1 DEF IsAt
  <2>4. \A t : t \in DOMAIN ord /\ t # slot /\ IsAt(ord, t, sd, lv) =>
             t \in DOMAIN ord2 /\ SamePlace(ord2, t, s)
    BY <1>3, <2>1 DEF IsAt, SamePlace
  <2> HIDE DEF sd, lv, q, m
  <2>5. lk2[s].prev = kNil => lev2[sd][lv].head = s
    <3>1. CASE s = n
      BY <3>1, <2>1, <2>3 DEF p, n
    <3>2. CASE s # n
      <4> SUFFICES ASSUME q = kNil PROVE lev2[sd][lv].head = s
        BY <3>2, <2>1
      <4>1. lev[sd][lv].head = s
        BY <2>2
      <4>2. CASE sd = side /\ lv = i
        BY <4>1, <4>2, <1>5, <2>1 DEF p, n
      <4>3. CASE ~(sd = side /\ lv = i)
        BY <4>1, <4>3, <2>1
      <4> QED BY <4>2, <4>3
    <3> QED BY <3>1, <3>2
  <2>6. lk2[s].prev # kNil =>
           /\ lk2[s].prev \in DOMAIN ord2 /\ lk2[lk2[s].prev].next = s
           /\ SamePlace(ord2, lk2[s].prev, s)
    <3>1. CASE s = n
      <4> SUFFICES ASSUME p # kNil
                   PROVE  p \in DOMAIN ord2 /\ lk2[p].next = s /\ SamePlace(ord2, p, s)
        BY <3>1, <2>1
      <4>1. p \in DOMAIN ord /\ lk[p].next = slot /\ IsAt(ord, p, sd, lv) /\ p # slot
        BY <3>1, <1>5, <2>1, <2>3 DEF n
      <4> QED BY <4>1, <3>1, <1>2, <1>4, <2>4
    <3>2. CASE s # n
      <4> SUFFICES ASSUME q # kNil
                   PROVE  q \in DOMAIN ord2 /\ lk2[q].next = s /\ SamePlace(ord2, q, s)
        BY <3>2, <2>1
      <4>1. q \in DOMAIN ord /\ lk[q].next = s /\ IsAt(ord, q, sd, lv) /\ q # slot
        BY <3>2, <2>2 DEF n
      <4>2. q # p
        BY <4>1, <1>5, <2>1, <1>4
      <4> QED BY <4>1, <4>2, <1>2, <1>4, <2>4
    <3> QED BY <3>1, <3>2
  <2>7. lk2[s].next = kNil => lev2[sd][lv].tail = s
    <3>1. CASE s = p
      BY <3>1, <2>1, <2>3 DEF p, n
    <3>2. CASE s # p
      <4> SUFFICES ASSUME m = kNil PROVE lev2[sd][lv].tail = s
        BY <3>2, <2>1
      <4>1. lev[sd][lv].tail = s
        BY <2>2
      <4>2. CASE sd = side /\ lv = i
        BY <4>1, <4>2, <1>5, <2>1 DEF p, n
      <4>3. CASE ~(sd = side /\ lv = i)
        BY <4>1, <4>3, <2>1
      <4> QED BY <4>2, <4>3
    <3> QED BY <3>1, <3>2
  <2>8. lk2[s].next # kNil =>
           /\ lk2[s].next \in DOMAIN ord2 /\ lk2[lk2[s].next].prev = s
           /\ SamePlace(ord2, lk2[s].next, s)
    <3>1. CASE s = p
      <4> SUFFICES ASSUME n # kNil
                   PROVE  n \in DOMAIN ord2 /\ lk2[n].prev = s /\ SamePlace(ord2, n, s)
        BY <3>1, <2>1
      <4>1. n \in DOMAIN ord /\ lk[n].prev = slot /\ IsAt(ord, n, sd, lv) /\ n # slot
        BY <3>1, <1>5, <2>1, <2>3 DEF p
      <4> QED BY <4>1, <3>1, <1>2, <1>4, <2>4
    <3>2. CASE s # p
      <4> SUFFICES ASSUME m # kNil
                   PROVE  m \in DOMAIN ord2 /\ lk2[m].prev = s /\ SamePlace(ord2, m, s)
        BY <3>2, <2>1
      <4>1. m \in DOMAIN ord /\ lk[m].prev = s /\ IsAt(ord, m, sd, lv) /\ m # slot
        BY <3>2, <2>2 DEF p
      <4>2. m # n
        BY <4>1, <1>5, <2>1, <1>4
      <4> QED BY <4>1, <4>2, <1>2, <1>4, <2>4
    <3> QED BY <3>1, <3>2
  <2> QED BY <2>1, <2>5, <2>6, <2>7, <2>8 DEF SlotLinked, sd, lv
<1>7. ASSUME NEW sd \in BookSide, NEW lv \in LevelIdx
      PROVE  LevelLinked(lk2, ord2, lev2, sd, lv)
  <2> DEFINE h == lev[sd][lv].head
             t == lev[sd][lv].tail
  <2>1. /\ h = kNil <=> t = kNil
        /\ h # kNil => h \in DOMAIN ord /\ IsAt(ord, h, sd, lv) /\ lk[h].prev = kNil
        /\ t # kNil => t \in DOMAIN ord /\ IsAt(ord, t, sd, lv) /\ lk[t].next = kNil
    BY DEF Linked, LevelLinked
  <2>2. \A s : s \in DOMAIN ord /\ s # slot /\ IsAt(ord, s, sd, lv) =>
                 s \in DOMAIN ord2 /\ IsAt(ord2, s, sd, lv)
    BY <1>3 DEF IsAt
  <2>3. CASE ~(sd = side /\ lv = i)
    <3>1. lev2[sd][lv].head = h /\ lev2[sd][lv].tail = t
      BY <2>3
    <3> HIDE DEF h, t
    <3>2. h # kNil => h # slot /\ h # n
      BY <2>1, <2>3, <1>5 DEF IsAt
    <3>3. t # kNil => t # slot /\ t # p
      BY <2>1, <2>3, <1>5 DEF IsAt
    <3> QED BY <3>1, <3>2, <3>3, <2>1, <2>2, <1>2, <1>4 DEF LevelLinked
  <2>4. CASE sd = side /\ lv = i
    <3> DEFINE h2 == lev2[sd][lv].head
               t2 == lev2[sd][lv].tail
    <3>1. /\ h2 = IF p = kNil THEN n ELSE h
          /\ t2 = IF n = kNil THEN p ELSE t
      BY <2>4 DEF p, n
    <3>2. /\ p = kNil => h = slot
          /\ n = kNil => t = slot
          /\ p # kNil => p \in DOMAIN ord /\ lk[p].next = slot /\ IsAt(ord, p, sd, lv)
          /\ n # kNil => n \in DOMAIN ord /\ lk[n].prev = slot /\ IsAt(ord, n, sd, lv)
      BY <2>4, <1>5
    <3> HIDE DEF h, t, h2, t2
    <3>3. slot # kNil
      BY <1>4
    <3>4. h2 = kNil <=> t2 = kNil
      BY <3>1, <3>2, <3>3, <2>1
    <3>5. h2 # kNil => h2 \in DOMAIN ord2 /\ IsAt(ord2, h2, sd, lv) /\ lk2[h2].prev = kNil
      <4>1. CASE p = kNil
        BY <4>1, <3>1, <3>2, <3>3, <2>2, <1>2, <1>4 DEF p
      <4>2. CASE p # kNil
        <5>1. h # kNil => h # slot /\ h # n
          BY <4>2, <2>1, <3>2, <3>3 DEF p
        <5> QED BY <5>1, <4>2, <3>1, <2>1, <2>2, <1>2, <1>4
      <4> QED BY <4>1, <4>2
    <3>6. t2 # kNil => t2 \in DOMAIN ord2 /\ IsAt(ord2, t2, sd, lv) /\ lk2[t2].next = kNil
      <4>1. CASE n = kNil
        BY <4>1, <3>1, <3>2, <3>3, <2>2, <1>2, <1>4 DEF n
      <4>2. CASE n # kNil
        <5>1. t # kNil => t # slot /\ t # p
          BY <4>2, <2>1, <3>2, <3>3 DEF n
        <5> QED BY <5>1, <4>2, <3>1, <2>1, <2>2, <1>2, <1>4
      <4> QED BY <4>1, <4>2
    <3> QED BY <3>4, <3>5, <3>6 DEF LevelLinked, h2, t2
  <2> QED BY <2>3, <2>4
<1> QED BY <1>6, <1>7 DEF Linked, ord2

\* A slot pushed on the back of its level's queue is linked to the old tail.
LEMMA PushBackKeepsLinked ==
    ASSUME NEW lk \in LinksType, NEW ord, OrdersType(ord), NEW lev \in LevelsType,
           Linked(lk, ord, lev), NEW slot \in Slot \ DOMAIN ord,
           NEW o \in PooledOrder, NEW side \in BookSide, NEW i \in LevelIdx,
           BookSideOf(o.side) = side, o.level = i,
           NEW lk2, lk2 = PushBackLinks(lk, lev[side][i], slot),
           NEW lev2 \in LevelsType,
           \A other \in BookSide, j \in LevelIdx :
              other # side \/ j # i => lev2[other][j] = lev[other][j],
           lev2[side][i].head = IF lev[side][i].head = kNil THEN slot ELSE lev[side][i].head,
           lev2[side][i].tail = slot
    PROVE  Linked(lk2, WithSlot(ord, slot, o), lev2) /\ lk2 \in LinksType
<1> DEFINE head == lev[side][i].head
           tail == lev[side][i].tail
           ord2 == WithSlot(ord, slot, o)
<1>1. /\ head = kNil <=> tail = kNil
      /\ head # kNil => head \in DOMAIN ord /\ IsAt(ord, head, side, i) /\ lk[head].prev = kNil
      /\ tail # kNil => tail \in DOMAIN ord /\ IsAt(ord, tail, side, i) /\ lk[tail].next = kNil
  <2>1. LevelLinked(lk, ord, lev, side, i)
    BY DEF Linked
  <2> QED BY <2>1 DEF LevelLinked
<1>2. \A s \in DOMAIN ord : /\ s \in Slot /\ s # kNil /\ s # slot /\ SlotLinked(lk, ord, lev, s)
                            /\ BookSideOf(ord[s].side) \in BookSide /\ ord[s].level \in LevelIdx
  BY PlaceOfOrder, NilIsNoSlot DEF Linked
<1>3. /\ lk2 \in LinksType
      /\ lk2[slot].prev = IF head = kNil THEN kNil ELSE tail
      /\ lk2[slot].next = kNil
      /\ \A s \in Slot : s # slot =>
           /\ lk2[s].prev = lk[s].prev
           /\ lk2[s].next = IF head # kNil /\ s = tail THEN slot ELSE lk[s].next
  <2>1. lev[side][i] \in PoolLevel
    BY DEF LevelsType
  <2>2. head # kNil => tail \in Slot \ {slot}
    BY <1>1, <1>2
  <2> QED BY <2>1, <2>2, PushBackFields
<1>4. /\ DOMAIN ord2 = DOMAIN ord \cup {slot}
      /\ ord2[slot] = o
      /\ \A s \in DOMAIN ord : ord2[s] = ord[s]
  BY DEF WithSlot
<1>5. slot # kNil
  BY NilIsNoSlot
<1>6. lev2[side][i].head = (IF head = kNil THEN slot ELSE head) /\ lev2[side][i].tail = slot
  OBVIOUS
<1> HIDE DEF head, tail, ord2
<1>7. SlotLinked(lk2, ord2, lev2, slot)
  <2>1. /\ BookSideOf(ord2[slot].side) = side /\ ord2[slot].level = i
        /\ head # kNil => tail \in DOMAIN ord2 /\ SamePlace(ord2, tail, slot) /\ lk2[tail].next = slot
    BY <1>1, <1>2, <1>3, <1>4 DEF IsAt, SamePlace
  <2>2. tail # kNil <=> head # kNil
    BY <1>1
  <2> QED BY <2>1, <2>2, <1>3, <1>5, <1>6 DEF SlotLinked
<1>8. ASSUME NEW s \in DOMAIN ord
      PROVE  SlotLinked(lk2, ord2, lev2, s)
  <2> DEFINE sd == BookSideOf(ord[s].side)
             lv == ord[s].level
             q  == lk[s].prev
             m  == lk[s].next
  <2>1. /\ s \in DOMAIN ord2 /\ s # slot /\ ord2[s] = ord[s] /\ s \in Slot /\ s # kNil
        /\ sd \in BookSide /\ lv \in LevelIdx
        /\ lk2[s].prev = q
        /\ lk2[s].next = IF head # kNil /\ s = tail THEN slot ELSE m
    BY <1>2, <1>3, <1>4
  <2>2. /\ q = kNil => lev[sd][lv].head = s
        /\ q # kNil => q \in DOMAIN ord /\ lk[q].next = s /\ IsAt(ord, q, sd, lv)
        /\ m = kNil => lev[sd][lv].tail = s
        /\ m # kNil => m \in DOMAIN ord /\ lk[m].prev = s /\ IsAt(ord, m, sd, lv)
    BY <1>2 DEF SlotLinked, SamePlace, IsAt
  <2>3. \A t : t \in DOMAIN ord /\ IsAt(ord, t, sd, lv) =>
             t \in DOMAIN ord2 /\ SamePlace(ord2, t, s)
    BY <1>4, <2>1 DEF IsAt, SamePlace
  <2>4. s = tail => sd = side /\ lv = i
    BY <1>1, <2>1 DEF IsAt
  <2>5. SamePlace(ord2, slot, s) <=> sd = side /\ lv = i
    BY <1>4, <2>1 DEF SamePlace
  <2> HIDE DEF sd, lv, q, m
  <2>6. q = kNil => lev2[sd][lv].head = s
    <3> SUFFICES ASSUME q = kNil PROVE lev2[sd][lv].head = s
      OBVIOUS
    <3>1. lev[sd][lv].head = s
      BY <2>2
    <3>2. CASE sd = side /\ lv = i
      BY <3>1, <3>2, <2>1, <1>6 DEF head
    <3>3. CASE ~(sd = side /\ lv = i)
      BY <3>1, <3>3, <2>1
    <3> QED BY <3>2, <3>3
  <2>7. q # kNil => q \in DOMAIN ord2 /\ lk2[q].next = s /\ SamePlace(ord2, q, s)
    <3> SUFFICES ASSUME q # kNil
                 PROVE  q \in DOMAIN ord2 /\ lk2[q].next = s /\ SamePlace(ord2, q, s)
      OBVIOUS
    <3>1. q \in DOMAIN ord /\ lk[q].next = s /\ IsAt(ord, q, sd, lv)
      BY <2>2
    <3>2. ~(head # kNil /\ q = tail)
      BY <3>1, <2>1, <1>1
    <3> QED BY <3>1, <3>2, <1>2, <1>3, <2>3
  <2>8. lk2[s].next = kNil => lev2[sd][lv].tail = s
    <3> SUFFICES ASSUME lk2[s].next = kNil PROVE lev2[sd][lv].tail = s
      OBVIOUS
    <3>1. m = kNil /\ ~(head # kNil /\ s = tail) /\ lev[sd][lv].tail = s
      BY <2>1, <2>2, <1>5
    <3>2. ~(sd = side /\ lv = i)
      BY <3>1, <2>1, <1>1 DEF tail
    <3> QED BY <3>1, <3>2, <2>1
  <2>9. lk2[s].next # kNil =>
           /\ lk2[s].next \in DOMAIN ord2 /\ lk2[lk2[s].next].prev = s
           /\ SamePlace(ord2, lk2[s].next, s)
    <3>1. CASE head # kNil /\ s = tail
      BY <3>1, <2>1, <2>4, <2>5, <1>3, <1>4
    <3>2. CASE ~(head # kNil /\ s = tail)
      <4> SUFFICES ASSUME m # kNil
                   PROVE  m \in DOMAIN ord2 /\ lk2[m].prev = s /\ SamePlace(ord2, m, s)
        BY <3>2, <2>1
      <4>1. m \in DOMAIN ord /\ lk[m].prev = s /\ IsAt(ord, m, sd, lv)
        BY <2>2
      <4> QED BY <4>1, <1>2, <1>3, <2>3
    <3> QED BY <3>1, <3>2
  <2> QED BY <2>1, <2>6, <2>7, <2>8, <2>9 DEF SlotLinked, sd, lv
<1>9. ASSUME NEW sd \in BookSide, NEW lv \in LevelIdx
      PROVE  LevelLinked(lk2, ord2, lev2, sd, lv)
  <2>1. \A s : s \in DOMAIN ord /\ IsAt(ord, s, sd, lv) =>
                 s \in DOMAIN ord2 /\ IsAt(ord2, s, sd, lv)
    BY <1>4 DEF IsAt
  <2>2. CASE ~(sd = side /\ lv = i)
    <3> DEFINE h == lev[sd][lv].head
               t == lev[sd][lv].tail
    <3>1. /\ h = kNil <=> t = kNil
          /\ h # kNil => h \in DOMAIN ord /\ IsAt(ord, h, sd, lv) /\ lk[h].prev = kNil
          /\ t # kNil => t \in DOMAIN ord /\ IsAt(ord, t, sd, lv) /\ lk[t].next = kNil
      BY DEF Linked, LevelLinked
    <3>2. lev2[sd][lv].head = h /\ lev2[sd][lv].tail = t
      BY <2>2
    <3> HIDE DEF h, t
    <3>3. t # kNil => t # tail
      BY <3>1, <1>1, <1>5, <2>2 DEF IsAt
    <3> QED BY <3>1, <3>2, <3>3, <2>1, <1>2, <1>3 DEF LevelLinked
  <2>3. CASE sd = side /\ lv = i
    <3>1. slot \in DOMAIN ord2 /\ IsAt(ord2, slot, sd, lv) /\ lk2[slot].next = kNil
      BY <2>3, <1>3, <1>4 DEF IsAt
    <3>2. head # kNil => head \in DOMAIN ord2 /\ IsAt(ord2, head, sd, lv) /\ lk2[head].prev = kNil
      BY <2>1, <2>3, <1>1, <1>2, <1>3
    <3>3. head = kNil => lk2[slot].prev = kNil
      BY <1>3
    <3> QED BY <3>1, <3>2, <3>3, <2>3, <1>5, <1>6 DEF LevelLinked
  <2> QED BY <2>2, <2>3
<1>10. \A s \in DOMAIN ord2 : SlotLinked(lk2, ord2, lev2, s)
  BY <1>4, <1>7, <1>8
<1> QED BY <1>3, <1>9, <1>10 DEF Linked, ord2
-----------------------------------------------------------------------------
(***************************************************************************)
(* Lists threaded through next                                             *)
(***************************************************************************)
\* c is the list that starts at `first`, of each member of S once.
IsList(c, lk, first, S) ==
    /\ c \in Seq(S)
    /\ \A s \in S : \E k \in 1..Len(c) : c[k] = s
    /\ \A j, k \in 1..Len(c) : c[j] = c[k] => j = k
    /\ first = IF Len(c) = 0 THEN kNil ELSE c[1]
    /\ \A k \in 1..Len(c) : lk[c[k]].next = IF k = Len(c) THEN kNil ELSE c[k + 1]

Listed(lk, first, S) == \E c : IsList(c, lk, first, S)

\* The members of a list, by their number.
LEMMA ListParts ==
    ASSUME NEW c, NEW lk, NEW first, NEW S, IsList(c, lk, first, S)
    PROVE  /\ Len(c) \in Nat /\ DOMAIN c = 1..Len(c)
           /\ \A k \in 1..Len(c) : c[k] \in S
           /\ Len(c) # 0 => 1 \in 1..Len(c)
           /\ \A k \in 1..Len(c) : k # Len(c) => k + 1 \in 1..Len(c)
<1>1. /\ Len(c) \in Nat /\ DOMAIN c = 1..Len(c)
      /\ \A k \in 1..Len(c) : c[k] \in S
  BY LenProperties, ElementOfSeq DEF IsList
<1> DEFINE n == Len(c)
<1>2. n \in Nat
  BY <1>1
<1> HIDE DEF n
<1>3. n # 0 => 1 \in 1..n
  BY <1>2
<1>4. \A k \in 1..n : k # n => k + 1 \in 1..n
  BY <1>2
<1> QED BY <1>1, <1>3, <1>4 DEF n

\* The pool has kMaxOrders slots.
LEMMA SlotsFinite == IsFiniteSet(Slot) /\ Cardinality(Slot) = kMaxOrders
<1>1. /\ IsFiniteSet(0..(kMaxOrders - 1))
      /\ Cardinality(0..(kMaxOrders - 1)) =
           IF 0 > kMaxOrders - 1 THEN 0 ELSE (kMaxOrders - 1) - 0 + 1
  BY PoolAssumption, FS_Interval
<1> QED BY <1>1, PoolAssumption DEF Slot

\* A list is as long as the set of its members.
LEMMA ListLength ==
    ASSUME NEW c, NEW lk, NEW first, NEW S, IsList(c, lk, first, S)
    PROVE  IsFiniteSet(S) /\ Cardinality(S) = Len(c)
<1>1. /\ Len(c) \in Nat /\ \A k \in 1..Len(c) : c[k] \in S
  BY ListParts
<1> DEFINE f == [k \in 1..Len(c) |-> c[k]]
<1>2. f \in Bijection(1..Len(c), S)
  <2>1. f \in [1..Len(c) -> S]
    BY <1>1
  <2>2. \A j, k \in 1..Len(c) : f[j] = f[k] => j = k
    BY DEF IsList
  <2>3. \A s \in S : \E k \in 1..Len(c) : f[k] = s
    BY DEF IsList
  <2> HIDE DEF f
  <2> QED BY <2>1, <2>2, <2>3 DEF Bijection, Injection, Surjection, IsInjective
<1>3. IsFiniteSet(1..Len(c)) /\ Cardinality(1..Len(c)) = Len(c)
  BY <1>1, FS_Interval
<1>4. ExistsBijection(1..Len(c), S)
  BY <1>2 DEF ExistsBijection
<1> QED BY <1>3, <1>4, FS_Bijection

\* Chain, of any links.
ChainOf(lk, first) ==
    LET nth[k \in 1..(kMaxOrders + 1)] ==
            IF k = 1 THEN first
            ELSE IF nth[k - 1] = kNil THEN kNil ELSE lk[nth[k - 1]].next
    IN  [k \in 1..Cardinality({j \in 1..(kMaxOrders + 1) : nth[j] # kNil}) |-> nth[k]]

\* Chain reads the list.
LEMMA ListIsChain ==
    ASSUME NEW c, NEW lk, NEW first, NEW S, S \subseteq Slot, IsList(c, lk, first, S)
    PROVE  ChainOf(lk, first) = c
<1> DEFINE n == Len(c)
           m == kMaxOrders + 1
           F(f) == [k \in 1..m |-> IF k = 1 THEN first
                                   ELSE IF f[k - 1] = kNil THEN kNil ELSE lk[f[k - 1]].next]
           nth  == CHOOSE f : f = F(f)
           g    == [k \in 1..m |-> IF k <= n THEN c[k] ELSE kNil]
<1>1. /\ n \in Nat /\ DOMAIN c = 1..n /\ \A k \in 1..n : c[k] \in Slot /\ c[k] # kNil
      /\ first = IF n = 0 THEN kNil ELSE c[1]
      /\ \A k \in 1..n : lk[c[k]].next = IF k = n THEN kNil ELSE c[k + 1]
  BY ListParts, NilIsNoSlot DEF IsList
<1>2. m \in Nat /\ n < m
  <2>1. kMaxOrders \in Nat
    BY PoolAssumption
  <2>2. Cardinality(S) <= kMaxOrders /\ Cardinality(S) = n
    BY SlotsFinite, FS_Subset, ListLength
  <2> QED BY <2>1, <2>2, <1>1
<1> HIDE DEF n, m
<1>3. g = F(g)
  <2>1. ASSUME NEW k \in 1..m
        PROVE  g[k] = IF k = 1 THEN first
                      ELSE IF g[k - 1] = kNil THEN kNil ELSE lk[g[k - 1]].next
    <3>1. CASE k = 1
      <4>1. g[k] = IF 1 <= n THEN c[1] ELSE kNil
        BY <3>1
      <4> QED BY <4>1, <3>1, <1>1
    <3>2. CASE k # 1 /\ k - 1 <= n
      <4>1. k - 1 \in 1..m /\ k - 1 \in 1..n /\ (k - 1) + 1 = k
        BY <3>2, <1>1, <1>2
      <4>2. g[k - 1] = c[k - 1] /\ g[k - 1] # kNil
        BY <4>1, <3>2, <1>1
      <4>3. g[k] = IF k - 1 = n THEN kNil ELSE c[k]
        BY <4>1, <3>2, <1>1, <1>2
      <4> HIDE DEF g
      <4> QED BY <4>1, <4>2, <4>3, <3>2, <1>1
    <3>3. CASE k # 1 /\ ~(k - 1 <= n)
      <4>1. k - 1 \in 1..m /\ ~(k <= n)
        BY <3>3, <1>1, <1>2
      <4>2. g[k - 1] = kNil /\ g[k] = kNil
        BY <4>1, <3>3
      <4> HIDE DEF g
      <4> QED BY <4>2, <3>3
    <3> QED BY <3>1, <3>2, <3>3
  <2>2. g = [k \in 1..m |-> g[k]]
    OBVIOUS
  <2> HIDE DEF g
  <2>3. [k \in 1..m |-> g[k]] = F(g)
    BY <2>1
  <2> QED BY <2>2, <2>3
<1>4. nth = F(nth)
  <2> HIDE DEF g
  <2> QED BY <1>3
<1> HIDE DEF nth
<1>5. \A k \in 1..m : nth[k] = g[k]
  <2> DEFINE Bad == {k \in 1..m : nth[k] # g[k]}
  <2>1. ASSUME Bad # {} PROVE FALSE
    <3>1. Bad \subseteq Nat
      OBVIOUS
    <3>2. PICK b \in Bad : \A k \in Bad : b <= k
      BY <3>1, <2>1, LeastNat
    <3>3. b \in 1..m /\ b \in Nat
      BY <3>1
    <3> HIDE DEF g
    <3>4. /\ nth[b] = IF b = 1 THEN first
                      ELSE IF nth[b - 1] = kNil THEN kNil ELSE lk[nth[b - 1]].next
          /\ g[b] = IF b = 1 THEN first
                    ELSE IF g[b - 1] = kNil THEN kNil ELSE lk[g[b - 1]].next
      BY <3>3, <1>3, <1>4
    <3>5. b # 1 => b - 1 \in 1..m /\ ~(b <= b - 1)
      BY <3>3, <1>2
    <3>6. b # 1 => nth[b - 1] = g[b - 1]
      BY <3>5, <3>2
    <3> QED BY <3>2, <3>4, <3>6
  <2> QED BY <2>1
<1>6. {j \in 1..m : nth[j] # kNil} = 1..n
  <2>1. ASSUME NEW j \in 1..m PROVE nth[j] # kNil <=> j \in 1..n
    <3>1. nth[j] = IF j <= n THEN c[j] ELSE kNil
      BY <1>5
    <3>2. j <= n <=> j \in 1..n
      BY <1>1
    <3> QED BY <3>1, <3>2, <1>1
  <2>2. \A j \in 1..n : j \in 1..m
    BY <1>1, <1>2
  <2> QED BY <2>1, <2>2
<1>7. Cardinality(1..n) = n
  BY <1>1, FS_Interval
<1>8. ChainOf(lk, first) = [k \in 1..Cardinality({j \in 1..m : nth[j] # kNil}) |-> nth[k]]
  BY DEF ChainOf, nth, m
<1>9. [k \in 1..n |-> nth[k]] = c
  <2>1. \A k \in 1..n : nth[k] = c[k]
    BY <1>1, <1>2, <1>5
  <2>2. c = [k \in 1..n |-> c[k]]
    <3>1. c \in Seq(S)
      BY DEF IsList
    <3> QED BY <3>1, <1>1, SeqDef
  <2> QED BY <2>1, <2>2
<1> QED BY <1>6, <1>7, <1>8, <1>9

\* Two readings of the same links are one list.
LEMMA ListIsUnique ==
    ASSUME NEW c, NEW d, NEW lk, NEW first, NEW S, S \subseteq Slot,
           IsList(c, lk, first, S), IsList(d, lk, first, S)
    PROVE  c = d
  BY ListIsChain

\* A list whose links are left alone.
LEMMA ListKept ==
    ASSUME NEW c, NEW lk, NEW lk2, NEW first, NEW S, IsList(c, lk, first, S),
           \A s \in S : lk2[s].next = lk[s].next
    PROVE  IsList(c, lk2, first, S)
<1>1. \A k \in 1..Len(c) : c[k] \in S
  BY ListParts
<1> QED BY <1>1 DEF IsList

\* The empty list.
LEMMA ListOfNone ==
    ASSUME NEW lk, NEW first, NEW S
    PROVE  /\ IsList(<<>>, lk, kNil, {})
           /\ \A c : IsList(c, lk, first, {}) => c = <<>> /\ first = kNil
           /\ \A c : IsList(c, lk, kNil, S) /\ kNil \notin S => c = <<>> /\ S = {}
<1>1. IsList(<<>>, lk, kNil, {})
  BY EmptySeq DEF IsList
<1>2. ASSUME NEW c, IsList(c, lk, first, {}) PROVE c = <<>> /\ first = kNil
  <2>1. Len(c) \in Nat /\ ~(1 \in 1..Len(c))
    BY <1>2, ListParts
  <2>2. Len(c) = 0
    BY <2>1
  <2>3. c \in Seq({}) /\ first = IF Len(c) = 0 THEN kNil ELSE c[1]
    BY <1>2 DEF IsList
  <2> QED BY <2>2, <2>3, EmptySeq
<1>3. ASSUME NEW c, IsList(c, lk, kNil, S), kNil \notin S PROVE c = <<>> /\ S = {}
  <2>1. Len(c) # 0 => c[1] \in S
    BY <1>3, ListParts
  <2>2. /\ c \in Seq(S) /\ kNil = IF Len(c) = 0 THEN kNil ELSE c[1]
        /\ \A s \in S : \E k \in 1..Len(c) : c[k] = s
    BY <1>3 DEF IsList
  <2>3. Len(c) = 0
    BY <2>1, <2>2, <1>3
  <2> QED BY <2>2, <2>3, EmptySeq
<1> QED BY <1>1, <1>2, <1>3

\* push_back: the last member leads to the new one, and the new one to none.
LEMMA ListAppended ==
    ASSUME NEW c, NEW lk, NEW first, NEW S, IsList(c, lk, first, S), kNil \notin S,
           NEW slot, slot \notin S, slot # kNil, NEW lk2, lk2[slot].next = kNil,
           \A s \in S : lk2[s].next = IF lk[s].next = kNil THEN slot ELSE lk[s].next,
           NEW first2, first2 = IF first = kNil THEN slot ELSE first
    PROVE  IsList(Append(c, slot), lk2, first2, S \cup {slot})
<1> DEFINE d == Append(c, slot)
           n == Len(c)
           T == S \cup {slot}
<1>1. /\ n \in Nat /\ \A k \in 1..n : c[k] \in S
      /\ \A k \in 1..n : lk[c[k]].next = IF k = n THEN kNil ELSE c[k + 1]
      /\ n # 0 => 1 \in 1..n
      /\ \A k \in 1..n : k # n => k + 1 \in 1..n
  BY ListParts DEF IsList
<1>2. c \in Seq(T) /\ slot \in T
  <2>1. c \in Seq(S)
    BY DEF IsList
  <2> QED BY <2>1, SeqDef
<1>3. /\ d \in Seq(T) /\ Len(d) = n + 1 /\ d[n + 1] = slot
      /\ \A k \in 1..n : d[k] = c[k]
  BY <1>2, AppendProperties
<1>4. /\ \A s \in S : \E k \in 1..n : c[k] = s
      /\ \A j, k \in 1..n : c[j] = c[k] => j = k
      /\ first = IF n = 0 THEN kNil ELSE c[1]
  BY DEF IsList
<1> HIDE DEF d, n
<1>5. /\ \A k \in 1..(n + 1) : k \in 1..n \/ k = n + 1
      /\ \A k \in 1..n : k \in 1..(n + 1) /\ k # n + 1 /\ k + 1 \in 1..(n + 1)
      /\ n + 1 # 0 /\ n + 1 \in 1..(n + 1) /\ (n = 0 => n + 1 = 1)
  BY <1>1
<1>6. \A s \in T : \E k \in 1..(n + 1) : d[k] = s
  BY <1>3, <1>4, <1>5
<1>7. \A j, k \in 1..(n + 1) : d[j] = d[k] => j = k
  BY <1>1, <1>3, <1>4, <1>5
<1>8. first2 = IF n + 1 = 0 THEN kNil ELSE d[1]
  <2>1. CASE n = 0
    BY <2>1, <1>3, <1>4, <1>5
  <2>2. CASE n # 0
    BY <2>2, <1>1, <1>3, <1>4, <1>5
  <2> QED BY <2>1, <2>2
<1>9. ASSUME NEW k \in 1..(n + 1)
      PROVE  lk2[d[k]].next = IF k = n + 1 THEN kNil ELSE d[k + 1]
  <2>1. CASE k = n + 1
    BY <2>1, <1>3
  <2>2. CASE k # n + 1
    <3>1. k \in 1..n /\ d[k] = c[k] /\ c[k] \in S
      BY <2>2, <1>1, <1>3, <1>5
    <3>2. CASE k = n
      BY <3>1, <3>2, <2>2, <1>1, <1>3
    <3>3. CASE k # n
      BY <3>1, <3>3, <2>2, <1>1, <1>3
    <3> QED BY <3>2, <3>3
  <2> QED BY <2>1, <2>2
<1>10. Len(d) = n + 1
  BY <1>3
<1> QED BY <1>3, <1>6, <1>7, <1>8, <1>9, <1>10 DEF IsList, d

\* unlink: whoever led to the slot leads past it.
LEMMA ListOut ==
    ASSUME NEW c, NEW lk, NEW first, NEW S, IsList(c, lk, first, S),
           NEW i \in 1..Len(c), NEW d, d \in Seq(S), Without(d, c, i),
           NEW lk2,
           \A s \in S : s # c[i] =>
              lk2[s].next = IF lk[s].next = c[i] THEN lk[c[i]].next ELSE lk[s].next,
           NEW first2, first2 = IF first = c[i] THEN lk[c[i]].next ELSE first,
           kNil \notin S
    PROVE  IsList(d, lk2, first2, S \ {c[i]})
<1> DEFINE n == Len(c)
           slot == c[i]
           T == S \ {slot}
<1>1. /\ n \in Nat /\ \A k \in 1..n : c[k] \in S
      /\ \A k \in 1..n : lk[c[k]].next = IF k = n THEN kNil ELSE c[k + 1]
  <2>1. n \in Nat /\ \A k \in 1..n : c[k] \in S
    BY ListParts
  <2> QED BY <2>1 DEF IsList
<1>2. /\ \A s \in S : \E k \in 1..n : c[k] = s
      /\ \A j, k \in 1..n : c[j] = c[k] => j = k
      /\ first = IF n = 0 THEN kNil ELSE c[1]
  BY DEF IsList
<1>3. Len(d) = n - 1 /\ \A k \in 1..(n - 1) : d[k] = IF k < i THEN c[k] ELSE c[k + 1]
  BY DEF Without
<1>4. i \in 1..n /\ slot \in S /\ slot = c[i] /\ lk[slot].next = IF i = n THEN kNil ELSE c[i + 1]
  BY <1>1
<1> HIDE DEF n, slot
<1>5. /\ n # 0 /\ 1 \in 1..n
      /\ \A k \in 1..(n - 1) : k \in 1..n /\ k + 1 \in 1..n /\ k # n
      /\ \A k \in 1..n : k < i => k \in 1..(n - 1)
      /\ \A k \in 1..n : i < k => k - 1 \in 1..(n - 1) /\ ~(k - 1 < i) /\ (k - 1) + 1 = k
      /\ \A k \in 1..n : k < i \/ k = i \/ i < k
  BY <1>1, <1>4
<1>6. ASSUME NEW k \in 1..(n - 1)
      PROVE  d[k] \in T
  <2>1. CASE k < i
    BY <2>1, <1>1, <1>2, <1>3, <1>4, <1>5
  <2>2. CASE ~(k < i)
    <3>1. k + 1 # i
      BY <2>2, <1>1, <1>4
    <3> QED BY <3>1, <2>2, <1>1, <1>2, <1>3, <1>4, <1>5
  <2> QED BY <2>1, <2>2
<1>7. d \in Seq(T)
  <2>1. Len(d) \in Nat /\ DOMAIN d = 1..Len(d) /\ d = [k \in 1..Len(d) |-> d[k]]
    BY LenProperties
  <2> QED BY <2>1, <1>3, <1>6, SeqDef
<1>8. ASSUME NEW s \in T PROVE \E k \in 1..(n - 1) : d[k] = s
  <2>1. PICK k \in 1..n : c[k] = s
    BY <1>2
  <2>2. k # i
    BY <2>1, <1>4
  <2>3. CASE k < i
    BY <2>1, <2>3, <1>3, <1>5
  <2>4. CASE i < k
    BY <2>1, <2>4, <1>3, <1>5
  <2> QED BY <2>2, <2>3, <2>4, <1>5
<1>9. ASSUME NEW j \in 1..(n - 1), NEW k \in 1..(n - 1), d[j] = d[k] PROVE j = k
  <2>1. /\ j < i => d[j] = c[j]
        /\ ~(j < i) => d[j] = c[j + 1]
        /\ k < i => d[k] = c[k]
        /\ ~(k < i) => d[k] = c[k + 1]
    BY <1>3
  <2>2. j \in 1..n /\ k \in 1..n /\ j + 1 \in 1..n /\ k + 1 \in 1..n
    BY <1>5
  <2>3. CASE j < i /\ k < i
    BY <2>1, <2>2, <2>3, <1>2, <1>9
  <2>4. CASE j < i /\ ~(k < i)
    <3>1. j = k + 1
      BY <2>1, <2>2, <2>4, <1>2, <1>9
    <3> QED BY <3>1, <2>4, <1>4, <1>1
  <2>5. CASE ~(j < i) /\ k < i
    <3>1. k = j + 1
      BY <2>1, <2>2, <2>5, <1>2, <1>9
    <3> QED BY <3>1, <2>5, <1>4, <1>1
  <2>6. CASE ~(j < i) /\ ~(k < i)
    <3>1. j + 1 = k + 1
      BY <2>1, <2>2, <2>6, <1>2, <1>9
    <3> QED BY <3>1, <1>1
  <2> QED BY <2>3, <2>4, <2>5, <2>6
<1>10. first2 = IF n - 1 = 0 THEN kNil ELSE d[1]
  <2>1. first = c[1]
    BY <1>2, <1>5
  <2>2. first = slot <=> i = 1
    BY <2>1, <1>2, <1>4, <1>5
  <2>3. first2 = IF i = 1 THEN (IF i = n THEN kNil ELSE c[i + 1]) ELSE c[1]
    BY <2>1, <2>2, <1>4
  <2>4. CASE n - 1 = 0
    <3>1. i = 1 /\ i = n
      BY <2>4, <1>1, <1>4
    <3> QED BY <3>1, <2>3, <2>4
  <2>5. CASE n - 1 # 0
    <3>1. 1 \in 1..(n - 1) /\ (i = 1 => i # n) /\ (i # 1 => 1 < i) /\ ~(1 < 1)
      BY <2>5, <1>1, <1>4
    <3>2. d[1] = IF 1 < i THEN c[1] ELSE c[1 + 1]
      BY <3>1, <1>3
    <3>3. CASE i = 1
      BY <3>1, <3>2, <3>3, <2>3, <2>5
    <3>4. CASE i # 1
      BY <3>1, <3>2, <3>4, <2>3, <2>5
    <3> QED BY <3>3, <3>4
  <2> QED BY <2>4, <2>5
<1>11. ASSUME NEW k \in 1..(n - 1)
       PROVE  lk2[d[k]].next = IF k = n - 1 THEN kNil ELSE d[k + 1]
  <2> DEFINE a == IF k < i THEN k ELSE k + 1
  <2>1. a \in 1..n /\ d[k] = c[a] /\ c[a] \in S /\ c[a] # slot
    BY <1>3, <1>5, <1>6
  <2>2. /\ lk[c[a]].next = IF a = n THEN kNil ELSE c[a + 1]
        /\ lk2[c[a]].next = IF lk[c[a]].next = slot THEN lk[slot].next ELSE lk[c[a]].next
    BY <2>1, <1>1, <1>4
  <2>3. k # n - 1 => k + 1 \in 1..(n - 1) /\ (k + 1) + 1 \in 1..n
    BY <1>1
  <2>4. CASE k < i /\ k + 1 = i
    <3>1. a = k /\ k # n /\ lk[c[k]].next = slot
      BY <2>1, <2>2, <2>4, <1>4, <1>5
    <3>2. lk2[d[k]].next = IF i = n THEN kNil ELSE c[i + 1]
      BY <3>1, <2>1, <2>2, <1>4
    <3>3. k = n - 1 <=> i = n
      BY <2>4, <1>1, <1>4
    <3>4. k # n - 1 => d[k + 1] = c[i + 1]
      BY <2>3, <2>4, <1>3, <1>4
    <3> QED BY <3>2, <3>3, <3>4
  <2>5. CASE k < i /\ k + 1 # i
    <3>1. a = k /\ k # n /\ k + 1 \in 1..n /\ k + 1 < i /\ k # n - 1
      BY <2>5, <1>1, <1>4, <1>5
    <3>2. lk[c[k]].next = c[k + 1] /\ c[k + 1] # slot
      BY <3>1, <2>2, <2>5, <1>2, <1>4
    <3>3. d[k + 1] = c[k + 1]
      BY <3>1, <2>3, <1>3
    <3> QED BY <3>1, <3>2, <3>3, <2>1, <2>2
  <2>6. CASE ~(k < i)
    <3>1. a = k + 1 /\ (a = n <=> k = n - 1)
      BY <2>6, <1>1, <1>4
    <3>2. CASE a = n
      <4>1. lk[c[a]].next = kNil /\ slot # kNil
        BY <3>2, <2>2, <1>4
      <4> QED BY <4>1, <3>1, <3>2, <2>1, <2>2
    <3>3. CASE a # n
      <4>1. k + 1 \in 1..(n - 1) /\ ~(k + 1 < i) /\ (k + 1) + 1 \in 1..n /\ (k + 1) + 1 # i
        BY <3>1, <3>3, <2>3, <2>6, <1>1, <1>4
      <4>2. d[k + 1] = c[(k + 1) + 1]
        BY <4>1, <1>3
      <4>3. lk[c[a]].next = c[(k + 1) + 1] /\ c[(k + 1) + 1] # slot
        BY <4>1, <3>1, <3>3, <2>2, <1>2, <1>4
      <4> QED BY <4>2, <4>3, <3>1, <3>3, <2>1, <2>2
    <3> QED BY <3>2, <3>3
  <2> QED BY <2>4, <2>5, <2>6
<1>12. Len(d) = n - 1
  BY <1>3
<1>13. T = S \ {c[i]}
  BY DEF slot
<1> HIDE DEF T
<1>14. IsList(d, lk2, first2, T)
  <2>1. \A s \in T : \E k \in 1..Len(d) : d[k] = s
    BY <1>8, <1>12
  <2>2. \A j, k \in 1..Len(d) : d[j] = d[k] => j = k
    BY <1>9, <1>12
  <2>3. first2 = IF Len(d) = 0 THEN kNil ELSE d[1]
    BY <1>10, <1>12
  <2>4. \A k \in 1..Len(d) : lk2[d[k]].next = IF k = Len(d) THEN kNil ELSE d[k + 1]
    BY <1>11, <1>12
  <2> QED BY <1>7, <2>1, <2>2, <2>3, <2>4 DEF IsList
<1> QED BY <1>13, <1>14

\* pop: the rest of a list.
LEMMA ListRest ==
    ASSUME NEW c, NEW lk, NEW first, NEW S, IsList(c, lk, first, S), first # kNil,
           kNil \notin S, NEW lk2, \A s \in S : s # first => lk2[s].next = lk[s].next
    PROVE  /\ first \in S /\ c # <<>> /\ first = Head(c)
           /\ IsList(Tail(c), lk2, lk[first].next, S \ {first})
<1>1. first \in S /\ 1 \in 1..Len(c) /\ first = c[1] /\ Len(c) # 0
  BY ListParts DEF IsList
<1>2. c \in Seq(S) /\ c # <<>>
  BY <1>1, EmptySeq DEF IsList
<1>3. /\ Tail(c) \in Seq(S) /\ Len(Tail(c)) = Len(c) - 1 /\ Head(c) = c[1]
      /\ \A k \in 1..Len(Tail(c)) : Tail(c)[k] = c[k + 1]
  BY <1>2, HeadTailProperties
<1>4. Without(Tail(c), c, 1)
  BY <1>3 DEF Without
<1>5. \A s \in S : lk[s].next # first
  <2>1. \A k \in 1..Len(c) : c[k] \in S /\ (k # Len(c) => k + 1 \in 1..Len(c) /\ k + 1 # 1)
    BY ListParts
  <2>2. \A k \in 1..Len(c) : lk[c[k]].next # first
    BY <2>1, <1>1 DEF IsList
  <2>3. \A s \in S : \E k \in 1..Len(c) : c[k] = s
    BY DEF IsList
  <2> QED BY <2>2, <2>3
<1>6. IsList(Tail(c), lk2, lk[first].next, S \ {c[1]})
  BY <1>1, <1>3, <1>4, <1>5, ListOut
<1> QED BY <1>1, <1>2, <1>3, <1>6

\* push on the front.
LEMMA ListFronted ==
    ASSUME NEW c, NEW lk, NEW first, NEW S, IsList(c, lk, first, S), kNil \notin S,
           NEW slot, slot \notin S, NEW lk2, lk2[slot].next = first,
           \A s \in S : lk2[s].next = lk[s].next
    PROVE  IsList(<<slot>> \o c, lk2, slot, S \cup {slot})
<1> DEFINE n == Len(c)
           T == S \cup {slot}
           d == <<slot>> \o c
<1>1. /\ n \in Nat /\ \A k \in 1..n : c[k] \in S
      /\ \A k \in 1..n : lk[c[k]].next = IF k = n THEN kNil ELSE c[k + 1]
      /\ \A k \in 1..n : k # n => k + 1 \in 1..n
      /\ n # 0 => 1 \in 1..n
  BY ListParts DEF IsList
<1>2. c \in Seq(T) /\ <<slot>> \in Seq(T) /\ Len(<<slot>>) = 1 /\ <<slot>>[1] = slot
  <2>1. c \in Seq(S)
    BY DEF IsList
  <2>2. c \in Seq(T)
    BY <2>1, SeqDef
  <2> QED BY <2>2
<1>3. /\ d \in Seq(T) /\ Len(d) = n + 1
      /\ \A k \in 1..(n + 1) : d[k] = IF k = 1 THEN slot ELSE c[k - 1]
  <2>1. /\ d \in Seq(T) /\ Len(d) = Len(<<slot>>) + n
        /\ \A k \in 1..(Len(<<slot>>) + n) :
             d[k] = IF k <= Len(<<slot>>) THEN <<slot>>[k] ELSE c[k - Len(<<slot>>)]
    BY <1>2, ConcatProperties
  <2> HIDE DEF d
  <2>2. 1 + n = n + 1 /\ \A k \in 1..(n + 1) : k <= 1 <=> k = 1
    BY <1>1
  <2> QED BY <2>1, <2>2, <1>2
<1>4. /\ \A s \in S : \E k \in 1..n : c[k] = s
      /\ \A j, k \in 1..n : c[j] = c[k] => j = k
      /\ first = IF n = 0 THEN kNil ELSE c[1]
  BY DEF IsList
<1> HIDE DEF d, n
<1>5. /\ \A k \in 1..(n + 1) : k # 1 => k - 1 \in 1..n
      /\ \A k \in 1..n : k + 1 \in 1..(n + 1) /\ k + 1 # 1 /\ (k + 1) - 1 = k
      /\ n + 1 # 0 /\ 1 \in 1..(n + 1)
  BY <1>1
<1>6. \A s \in T : \E k \in 1..(n + 1) : d[k] = s
  <2>1. d[1] = slot
    BY <1>3, <1>5
  <2>2. \A s \in S : \E k \in 1..(n + 1) : d[k] = s
    <3>1. \A k \in 1..n : d[k + 1] = c[k]
      BY <1>3, <1>5
    <3> QED BY <3>1, <1>4, <1>5
  <2> QED BY <2>1, <2>2, <1>5
<1>7. ASSUME NEW j \in 1..(n + 1), NEW k \in 1..(n + 1), d[j] = d[k] PROVE j = k
  <2>1. j # 1 => d[j] = c[j - 1] /\ d[j] \in S /\ j - 1 \in 1..n
    BY <1>1, <1>3, <1>5
  <2>2. k # 1 => d[k] = c[k - 1] /\ d[k] \in S /\ k - 1 \in 1..n
    BY <1>1, <1>3, <1>5
  <2>3. (j = 1 => d[j] = slot) /\ (k = 1 => d[k] = slot)
    BY <1>3, <1>5
  <2>4. CASE j # 1 /\ k # 1
    <3>1. j - 1 = k - 1
      BY <2>1, <2>2, <2>4, <1>4, <1>7
    <3> QED BY <3>1, <1>1
  <2> QED BY <2>1, <2>2, <2>3, <2>4, <1>7
<1>8. slot = IF n + 1 = 0 THEN kNil ELSE d[1]
  BY <1>3, <1>5
<1>9. ASSUME NEW k \in 1..(n + 1)
      PROVE  lk2[d[k]].next = IF k = n + 1 THEN kNil ELSE d[k + 1]
  <2>1. CASE k = 1
    <3>1. lk2[d[k]].next = first
      BY <2>1, <1>3, <1>5
    <3>2. CASE n = 0
      BY <3>1, <3>2, <2>1, <1>4
    <3>3. CASE n # 0
      <4>1. k # n + 1 /\ d[k + 1] = c[1]
        <5>1. 1 \in 1..n /\ k + 1 \in 1..(n + 1) /\ k + 1 # 1 /\ (k + 1) - 1 = 1
          BY <3>3, <2>1, <1>1, <1>5
        <5> QED BY <5>1, <3>3, <2>1, <1>1, <1>3
      <4> QED BY <4>1, <3>1, <3>3, <1>4
    <3> QED BY <3>2, <3>3
  <2>2. CASE k # 1
    <3>1. d[k] = c[k - 1] /\ k - 1 \in 1..n /\ c[k - 1] \in S /\ (k - 1) + 1 = k
      BY <2>2, <1>1, <1>3, <1>5
    <3>2. lk2[d[k]].next = IF k - 1 = n THEN kNil ELSE c[k]
      BY <3>1, <1>1
    <3>3. k - 1 = n <=> k = n + 1
      BY <1>1
    <3>4. k # n + 1 => d[k + 1] = c[k]
      <4>1. k # n + 1 => k \in 1..n
        BY <1>1
      <4> QED BY <4>1, <1>3, <1>5
    <3> QED BY <3>2, <3>3, <3>4
  <2> QED BY <2>1, <2>2
<1>10. Len(d) = n + 1
  BY <1>3
<1>11. IsList(d, lk2, slot, T)
  BY <1>3, <1>6, <1>7, <1>8, <1>9, <1>10 DEF IsList
<1> QED BY <1>11 DEF d
-----------------------------------------------------------------------------
(***************************************************************************)
(* The free list and the queues                                            *)
(***************************************************************************)
\* The free slots are on the free list.
FreeListed(lk, ord, fh) == Listed(lk, fh, Slot \ DOMAIN ord)

\* The slots of the orders of a level, and their list.
At(ord, side, i) == {s \in DOMAIN ord : IsAt(ord, s, side, i)}
QueueIs(c, lk, ord, lev, side, i) == IsList(c, lk, lev[side][i].head, At(ord, side, i))
QueuesListed(lk, ord, lev) ==
    \A side \in BookSide, i \in LevelIdx : \E c : QueueIs(c, lk, ord, lev, side, i)

\* The constructor's list has every slot, slot 0 first.
LEMMA FreeAtFirst == PoolInit => FreeListed(links, orders, free_head)
<1> SUFFICES ASSUME PoolInit PROVE FreeListed(links, orders, free_head)
  OBVIOUS
<1> DEFINE c == [k \in 1..kMaxOrders |-> k - 1]
           m == kMaxOrders
<1>1. m \in Nat /\ m # 0 /\ \A s : s \in Slot <=> s \in Int /\ 0 <= s /\ s < m
  BY PoolAssumption DEF Slot
<1>2. /\ Slot \ DOMAIN orders = Slot /\ free_head = 0
      /\ \A s \in Slot : links[s].next = IF s + 1 < m THEN s + 1 ELSE kNil
  BY DEF PoolInit
<1>3. c \in Seq(Slot) /\ Len(c) = m /\ \A k \in 1..m : c[k] = k - 1
  <2>1. \A k \in 1..m : k - 1 \in Slot
    BY <1>1
  <2>2. c \in [1..m -> Slot]
    BY <2>1
  <2>3. c \in Seq(Slot)
    BY <2>2, <1>1, SeqDef
  <2>4. DOMAIN c = 1..m /\ DOMAIN c = 1..Len(c) /\ Len(c) \in Nat
    BY <2>2, <2>3, LenProperties
  <2>5. Len(c) = m
    <3> HIDE DEF c
    <3> QED BY <2>4, <1>1
  <2> QED BY <2>3, <2>5
<1> HIDE DEF c, m
<1>4. ASSUME NEW s \in Slot PROVE \E k \in 1..m : c[k] = s
  <2>1. s + 1 \in 1..m /\ (s + 1) - 1 = s
    BY <1>1
  <2> QED BY <2>1, <1>3
<1>5. \A j, k \in 1..m : c[j] = c[k] => j = k
  BY <1>1, <1>3
<1>6. 0 = IF m = 0 THEN kNil ELSE c[1]
  <2>1. 1 \in 1..m /\ 1 - 1 = 0
    BY <1>1
  <2> QED BY <2>1, <1>1, <1>3
<1>7. ASSUME NEW k \in 1..m
      PROVE  links[c[k]].next = IF k = m THEN kNil ELSE c[k + 1]
  <2>1. k - 1 \in Slot /\ c[k] = k - 1 /\ (k - 1) + 1 = k
    BY <1>1, <1>3
  <2>2. k < m => k + 1 \in 1..m /\ (k + 1) - 1 = k
    BY <1>1
  <2>3. k < m => c[k + 1] = k
    BY <2>2, <1>3
  <2>4. k < m <=> k # m
    BY <1>1
  <2> QED BY <2>1, <2>3, <2>4, <1>2
<1>8. IsList(c, links, 0, Slot)
  BY <1>3, <1>4, <1>5, <1>6, <1>7 DEF IsList
<1> QED BY <1>2, <1>8 DEF FreeListed, Listed

\* alloc takes the first.
LEMMA FreeAfterAlloc ==
    ASSUME NEW lk \in LinksType, NEW ord, NEW fh, FreeListed(lk, ord, fh), fh # kNil, NEW o,
           NEW lk2, \A s \in Slot \ DOMAIN ord : s # fh => lk2[s].next = lk[s].next
    PROVE  /\ fh \in Slot \ DOMAIN ord
           /\ lk[fh].next \in Link
           /\ FreeListed(lk2, WithSlot(ord, fh, o), lk[fh].next)
<1>1. PICK c : IsList(c, lk, fh, Slot \ DOMAIN ord)
  BY DEF FreeListed, Listed
<1>2. kNil \notin Slot \ DOMAIN ord
  BY NilIsNoSlot
<1>3. /\ fh \in Slot \ DOMAIN ord
      /\ IsList(Tail(c), lk2, lk[fh].next, (Slot \ DOMAIN ord) \ {fh})
  BY <1>1, <1>2, ListRest
<1>4. Slot \ DOMAIN WithSlot(ord, fh, o) = (Slot \ DOMAIN ord) \ {fh}
  BY DEF WithSlot
<1>5. lk[fh].next \in Link
  BY <1>3 DEF LinksType
<1> QED BY <1>3, <1>4, <1>5 DEF FreeListed, Listed

\* release puts a slot in front.
LEMMA FreeAfterRelease ==
    ASSUME NEW lk, NEW ord, DOMAIN ord \subseteq Slot, NEW fh, FreeListed(lk, ord, fh),
           NEW slot \in DOMAIN ord,
           NEW lk2, \A s \in Slot \ DOMAIN ord : lk2[s].next = lk[s].next,
           lk2[slot].next = fh
    PROVE  FreeListed(lk2, WithoutSlot(ord, slot), slot)
<1>1. PICK c : IsList(c, lk, fh, Slot \ DOMAIN ord)
  BY DEF FreeListed, Listed
<1>2. kNil \notin Slot \ DOMAIN ord /\ slot \notin Slot \ DOMAIN ord
  BY NilIsNoSlot
<1>3. IsList(<<slot>> \o c, lk2, slot, (Slot \ DOMAIN ord) \cup {slot})
  BY <1>1, <1>2, ListFronted
<1>4. Slot \ DOMAIN WithoutSlot(ord, slot) = (Slot \ DOMAIN ord) \cup {slot}
  BY DEF WithoutSlot
<1> QED BY <1>3, <1>4 DEF FreeListed, Listed

\* unlink takes the slot out of its queue, and leaves the others alone.
LEMMA QueueAfterUnlink ==
    ASSUME NEW lk \in LinksType, NEW ord, OrdersType(ord), NEW lev \in LevelsType,
           Linked(lk, ord, lev), NEW slot \in DOMAIN ord,
           NEW side, NEW i, IsAt(ord, slot, side, i),
           NEW lk2, \A s \in Slot : s # slot =>
                       lk2[s].next = IF s = lk[slot].prev THEN lk[slot].next ELSE lk[s].next,
           NEW lev2,
           \A other \in BookSide, j \in LevelIdx :
              other # side \/ j # i => lev2[other][j] = lev[other][j],
           lev2[side][i].head = IF lk[slot].prev = kNil THEN lk[slot].next ELSE lev[side][i].head,
           NEW other \in BookSide, NEW j \in LevelIdx, NEW c, QueueIs(c, lk, ord, lev, other, j)
    PROVE  /\ other # side \/ j # i =>
                QueueIs(c, lk2, WithoutSlot(ord, slot), lev2, other, j)
           /\ other = side /\ j = i =>
                \E k \in 1..Len(c) :
                   /\ c[k] = slot
                   /\ \E d : /\ Without(d, c, k)
                             /\ QueueIs(d, lk2, WithoutSlot(ord, slot), lev2, other, j)
<1> DEFINE ord2 == WithoutSlot(ord, slot)
<1>1. /\ DOMAIN ord \subseteq Slot /\ kNil \notin DOMAIN ord
      /\ DOMAIN ord2 = DOMAIN ord \ {slot} /\ \A s \in DOMAIN ord2 : ord2[s] = ord[s]
  BY NilIsNoSlot DEF WithoutSlot, OrdersType
<1>2. ASSUME NEW s \in DOMAIN ord
      PROVE  /\ s = lk[slot].prev <=> lk[s].next = slot
             /\ lk[s].next = slot => IsAt(ord, s, side, i)
  <2>1. SlotLinked(lk, ord, lev, s) /\ SlotLinked(lk, ord, lev, slot)
    BY DEF Linked
  <2> QED BY <2>1, <1>1 DEF SlotLinked, SamePlace, IsAt
<1>3. \A s \in DOMAIN ord : s # slot =>
         lk2[s].next = IF lk[s].next = slot THEN lk[slot].next ELSE lk[s].next
  BY <1>1, <1>2
<1> HIDE DEF ord2
<1>4. CASE other # side \/ j # i
  <2>1. At(ord2, other, j) = At(ord, other, j)
    BY <1>1, <1>4 DEF At, IsAt
  <2>2. \A s \in At(ord, other, j) : lk2[s].next = lk[s].next
    BY <1>2, <1>3, <1>4 DEF At, IsAt
  <2>3. lev2[other][j] = lev[other][j]
    BY <1>4
  <2>4. IsList(c, lk2, lev[other][j].head, At(ord, other, j))
    BY <2>2, ListKept DEF QueueIs
  <2> QED BY <2>1, <2>3, <2>4, <1>4 DEF QueueIs, ord2
<1>5. CASE other = side /\ j = i
  <2> DEFINE S == At(ord, side, i)
             head == lev[side][i].head
  <2>1. IsList(c, lk, head, S) /\ slot \in S
    BY <1>5 DEF QueueIs, At
  <2>2. PICK k \in 1..Len(c) : c[k] = slot
    BY <2>1 DEF IsList
  <2>3. c \in Seq(S)
    BY <2>1 DEF IsList
  <2> DEFINE d == SubSeq(c, 1, k - 1) \o SubSeq(c, k + 1, Len(c))
  <2>4. d \in Seq(S) /\ Without(d, c, k)
    BY <2>3, NodeOut DEF Without
  <2> HIDE DEF d
  <2>5. head = slot <=> lk[slot].prev = kNil
    <3>1. SlotLinked(lk, ord, lev, slot) /\ LevelLinked(lk, ord, lev, side, i)
      BY <1>5 DEF Linked
    <3> QED BY <3>1, <1>1 DEF SlotLinked, LevelLinked, IsAt
  <2>6. lev2[side][i].head = IF head = slot THEN lk[slot].next ELSE head
    BY <2>5
  <2>7. \A s \in S : s # slot =>
           lk2[s].next = IF lk[s].next = slot THEN lk[slot].next ELSE lk[s].next
    BY <1>3 DEF At
  <2>8. kNil \notin S
    BY <1>1 DEF At
  <2> DEFINE head2 == lev2[side][i].head
  <2> HIDE DEF S, head, head2
  <2>9. IsList(d, lk2, head2, S \ {slot})
    <3>1. head2 = IF head = c[k] THEN lk[c[k]].next ELSE head
      BY <2>2, <2>6 DEF head2
    <3>2. \A s \in S : s # c[k] =>
             lk2[s].next = IF lk[s].next = c[k] THEN lk[c[k]].next ELSE lk[s].next
      BY <2>2, <2>7
    <3>3. IsList(d, lk2, head2, S \ {c[k]})
      BY ONLY <3>1, <3>2, <2>1, <2>4, <2>8, k \in 1..Len(c), ListOut
    <3> QED BY <3>3, <2>2
  <2>10. At(ord2, side, i) = S \ {slot}
    BY <1>1 DEF At, IsAt, S
  <2>11. QueueIs(d, lk2, ord2, lev2, other, j)
    BY <2>9, <2>10, <1>5 DEF QueueIs, head2
  <2> QED BY <2>2, <2>4, <2>11, <1>5 DEF ord2
<1> QED BY <1>4, <1>5

\* push_back puts it at the end of its queue, and leaves the others alone.
LEMMA QueueAfterPush ==
    ASSUME NEW lk \in LinksType, NEW ord, OrdersType(ord), NEW lev \in LevelsType,
           Linked(lk, ord, lev), NEW slot \in Slot \ DOMAIN ord, NEW o,
           NEW side \in BookSide, NEW i \in LevelIdx, BookSideOf(o.side) = side, o.level = i,
           NEW lk2, lk2[slot].next = kNil,
           \A s \in Slot : s # slot =>
              lk2[s].next = IF lev[side][i].head # kNil /\ s = lev[side][i].tail
                            THEN slot ELSE lk[s].next,
           NEW lev2,
           \A other \in BookSide, j \in LevelIdx :
              other # side \/ j # i => lev2[other][j] = lev[other][j],
           lev2[side][i].head = IF lev[side][i].head = kNil THEN slot ELSE lev[side][i].head,
           NEW other \in BookSide, NEW j \in LevelIdx, NEW c, QueueIs(c, lk, ord, lev, other, j)
    PROVE  QueueIs(IF other = side /\ j = i THEN Append(c, slot) ELSE c,
                   lk2, WithSlot(ord, slot, o), lev2, other, j)
<1> DEFINE ord2 == WithSlot(ord, slot, o)
           head == lev[side][i].head
           tail == lev[side][i].tail
<1>1. /\ DOMAIN ord \subseteq Slot /\ kNil \notin DOMAIN ord /\ slot # kNil
      /\ DOMAIN ord2 = DOMAIN ord \cup {slot} /\ ord2[slot] = o
      /\ \A s \in DOMAIN ord : ord2[s] = ord[s] /\ s # slot
  BY NilIsNoSlot DEF WithSlot, OrdersType
<1>2. ASSUME NEW s \in DOMAIN ord
      PROVE  /\ head # kNil /\ s = tail <=> IsAt(ord, s, side, i) /\ lk[s].next = kNil
             /\ s = tail => IsAt(ord, s, side, i)
  <2>1. SlotLinked(lk, ord, lev, s) /\ LevelLinked(lk, ord, lev, side, i)
    BY DEF Linked
  <2> QED BY <2>1, <1>1 DEF SlotLinked, LevelLinked, IsAt
<1>3. \A s \in DOMAIN ord :
         lk2[s].next = IF head # kNil /\ s = tail THEN slot ELSE lk[s].next
  BY <1>1
<1> HIDE DEF ord2, tail
<1>4. CASE other # side \/ j # i
  <2>1. At(ord2, other, j) = At(ord, other, j)
    BY <1>1, <1>4 DEF At, IsAt
  <2>2. \A s \in At(ord, other, j) : lk2[s].next = lk[s].next
    BY <1>2, <1>3, <1>4 DEF At, IsAt
  <2>3. lev2[other][j] = lev[other][j]
    BY <1>4
  <2>4. IsList(c, lk2, lev[other][j].head, At(ord, other, j))
    BY <2>2, ListKept DEF QueueIs
  <2> QED BY <2>1, <2>3, <2>4, <1>4 DEF QueueIs, ord2
<1>5. CASE other = side /\ j = i
  <2> DEFINE S == At(ord, side, i)
  <2>1. IsList(c, lk, head, S)
    BY <1>5 DEF QueueIs
  <2>2. \A s \in S : lk2[s].next = IF lk[s].next = kNil THEN slot ELSE lk[s].next
    BY <1>2, <1>3 DEF At
  <2>3. kNil \notin S /\ slot \notin S
    BY <1>1 DEF At
  <2>4. lev2[side][i].head = IF head = kNil THEN slot ELSE head
    OBVIOUS
  <2>5. At(ord2, side, i) = S \cup {slot}
    BY <1>1 DEF At, IsAt
  <2> HIDE DEF S, head
  <2> DEFINE head2 == lev2[side][i].head
  <2>6. head2 = (IF head = kNil THEN slot ELSE head) /\ lk2[slot].next = kNil /\ slot # kNil
    BY <2>4, <1>1
  <2> HIDE DEF head2
  <2>7. IsList(Append(c, slot), lk2, head2, S \cup {slot})
    BY ONLY <2>1, <2>2, <2>3, <2>6, ListAppended
  <2> QED BY <2>5, <2>7, <1>5 DEF QueueIs, ord2, head2
<1> QED BY <1>4, <1>5
-----------------------------------------------------------------------------
(***************************************************************************)
(* The inductive invariant of the book without its index                   *)
(***************************************************************************)
\* A bit says whether its queue holds orders.
Tracked(side, i) == IsSet(occupied[side], i) <=> levels[side][i].head # kNil

\* A request at work is for a price of the window and a ref that is not
\* resting; the inner loop works on a level.
AtWork ==
    /\ pc # "idle" => HasIndex(req.limit_price) /\ ~IsLive(req.ref)
    /\ pc = "level" => cur \in LevelIdx

\* Orders rest at prices that were asked for.
Priced == \A side \in BookSide, i \in LevelIdx :
              levels[side][i].head # kNil => priceAt(i) \in Prices

BInv ==
    /\ BookTypeOK
    /\ Linked(links, orders, levels)
    /\ QueuesListed(links, orders, levels)
    /\ FreeListed(links, orders, free_head)
    /\ BitmapAgrees /\ TouchIsBest /\ NotCrossed
    /\ AtWork /\ Priced

\* The types of the pool and the levels, as the lemmas above ask for them.
LEMMA TypeParts ==
    BookTypeOK => /\ links \in LinksType /\ OrdersType(orders) /\ free_head \in Link
                  /\ levels \in LevelsType /\ orders_count \in [BookSide -> Int]
                  /\ TouchTypeOK
  BY DEF BookTypeOK, PoolTypeOK, LinksType, OrdersType, LevelsType

\* Outside the inner loop every bit is right.
LEMMA AllTracked ==
    /\ BitmapAgrees /\ pc # "level" => \A side \in BookSide, i \in LevelIdx : Tracked(side, i)
    /\ (\A side \in BookSide, i \in LevelIdx : Tracked(side, i)') => BitmapAgrees'
  BY DEF BitmapAgrees, Tracked

\* Every side is kept on one of the two, and worked against the other.
LEMMA OwnSide == ownSide \in BookSide /\ Opposite(ownSide) \in BookSide
  BY OppositeSide DEF ownSide, BookSideOf, BookSide

\* The links see of an order only its place, of a level only its ends.
LEMMA LinkedByPlace ==
    ASSUME NEW lk, NEW ord, OrdersType(ord), NEW lev, Linked(lk, ord, lev),
           NEW ord2, DOMAIN ord2 = DOMAIN ord,
           \A s \in DOMAIN ord : ord2[s].side = ord[s].side /\ ord2[s].level = ord[s].level,
           NEW lev2,
           \A side \in BookSide, i \in LevelIdx :
              lev2[side][i].head = lev[side][i].head /\ lev2[side][i].tail = lev[side][i].tail
    PROVE  Linked(lk, ord2, lev2)
<1>1. ASSUME NEW s \in DOMAIN ord2
      PROVE  SlotLinked(lk, ord2, lev2, s)
  <2>1. SlotLinked(lk, ord, lev, s)
    BY DEF Linked
  <2>2. BookSideOf(ord[s].side) \in BookSide /\ ord[s].level \in LevelIdx
    BY PlaceOfOrder
  <2> QED BY <2>1, <2>2 DEF SlotLinked, SamePlace
<1>2. ASSUME NEW side \in BookSide, NEW i \in LevelIdx
      PROVE  LevelLinked(lk, ord2, lev2, side, i)
  <2>1. LevelLinked(lk, ord, lev, side, i)
    BY DEF Linked
  <2> QED BY <2>1 DEF LevelLinked, IsAt
<1> QED BY <1>1, <1>2 DEF Linked

LEMMA QueuesByPlace ==
    ASSUME NEW lk, NEW ord, NEW lev,
           NEW ord2, DOMAIN ord2 = DOMAIN ord,
           \A s \in DOMAIN ord : ord2[s].side = ord[s].side /\ ord2[s].level = ord[s].level,
           NEW lev2, NEW side, NEW i, lev2[side][i].head = lev[side][i].head,
           NEW c, QueueIs(c, lk, ord, lev, side, i)
    PROVE  QueueIs(c, lk, ord2, lev2, side, i)
<1>1. At(ord2, side, i) = At(ord, side, i)
  BY DEF At, IsAt
<1> QED BY <1>1 DEF QueueIs

\* What the steps do to the queues: a slot leaves its own, or joins it.
QueueOut(slot, side, i) ==
    \A other \in BookSide, j \in LevelIdx : \A c :
      QueueIs(c, links, orders, levels, other, j) =>
        /\ other # side \/ j # i => QueueIs(c, links', orders', levels', other, j)
        /\ other = side /\ j = i =>
             \E k \in 1..Len(c) :
                /\ c[k] = slot
                /\ \E d : Without(d, c, k) /\ QueueIs(d, links', orders', levels', other, j)

QueuePushed(slot, side, i) ==
    \A other \in BookSide, j \in LevelIdx : \A c :
      QueueIs(c, links, orders, levels, other, j) =>
        QueueIs(IF other = side /\ j = i THEN Append(c, slot) ELSE c,
                links', orders', levels', other, j)

\* A slot taken off its queue and released, as a whole.
LEMMA SlotFreed ==
    ASSUME BookTypeOK, Linked(links, orders, levels), FreeListed(links, orders, free_head),
           NEW slot \in DOMAIN orders, NEW side, NEW i, IsAt(orders, slot, side, i),
           NEW qty \in Int, NEW lvl \in PoolLevel,
           lvl.head = levels[side][i].head, lvl.tail = levels[side][i].tail,
           NEW new, new = UnlinkLevel(links, lvl, slot, qty),
           levels' = WithLevel(levels, side, i, new),
           release(UnlinkLinks(links, slot), slot)
    PROVE  /\ links' \in LinksType /\ OrdersType(orders') /\ free_head' \in Link
           /\ levels' \in LevelsType
           /\ levels'[side][i] = new
           /\ \A other \in BookSide, j \in LevelIdx :
                other # side \/ j # i => levels'[other][j] = levels[other][j]
           /\ Linked(links', orders', levels')
           /\ QueueOut(slot, side, i)
           /\ (QueuesListed(links, orders, levels) => QueuesListed(links', orders', levels'))
           /\ FreeListed(links', orders', free_head')
           /\ orders' = WithoutSlot(orders, slot)
<1>1. /\ links \in LinksType /\ OrdersType(orders) /\ free_head \in Link
      /\ levels \in LevelsType
  BY TypeParts
<1>2. slot \in Slot /\ side \in BookSide /\ i \in LevelIdx
  BY <1>1, PlaceOfOrder DEF IsAt
<1>3. /\ links' = WithNext(UnlinkLinks(links, slot), slot, free_head)
      /\ orders' = WithoutSlot(orders, slot)
      /\ free_head' = slot
  BY DEF release, WithNext, WithoutSlot
<1>4. /\ new \in PoolLevel
      /\ new.head = IF links[slot].prev = kNil THEN links[slot].next ELSE levels[side][i].head
      /\ new.tail = IF links[slot].next = kNil THEN links[slot].prev ELSE levels[side][i].tail
  BY <1>1, <1>2, UnlinkEnds
<1>5. /\ levels' \in LevelsType
      /\ levels'[side][i] = new
      /\ \A other \in BookSide, j \in LevelIdx :
           other # side \/ j # i => levels'[other][j] = levels[other][j]
  BY <1>1, <1>2, <1>4, SetLevel
<1>6. Linked(links', orders', levels')
  BY <1>1, <1>3, <1>4, <1>5, UnlinkKeepsLinked
<1>7. /\ links' \in LinksType /\ links'[slot].next = free_head
      /\ \A s \in Slot : s # slot =>
           links'[s].next = IF s = links[slot].prev THEN links[slot].next ELSE links[s].next
  BY <1>1, <1>2, <1>3, UnlinkFields
<1>8. \A s \in Slot \ DOMAIN orders : links'[s].next = links[s].next
  <2>1. links[slot].prev = kNil \/ links[slot].prev \in DOMAIN orders
    BY DEF Linked, SlotLinked
  <2> QED BY <2>1, <1>7, NilIsNoSlot
<1>9. FreeListed(links', orders', free_head')
  BY <1>1, <1>3, <1>7, <1>8, FreeAfterRelease DEF OrdersType
<1>10. OrdersType(orders')
  BY <1>1, <1>3 DEF OrdersType, WithoutSlot
<1>11. QueueOut(slot, side, i)
  <2>1. levels'[side][i].head =
            IF links[slot].prev = kNil THEN links[slot].next ELSE levels[side][i].head
    BY <1>4, <1>5
  <2> DEFINE gone == WithoutSlot(orders, slot)
  <2> SUFFICES ASSUME NEW other \in BookSide, NEW j \in LevelIdx, NEW c,
                      QueueIs(c, links, orders, levels, other, j)
               PROVE  /\ other # side \/ j # i => QueueIs(c, links', gone, levels', other, j)
                      /\ other = side /\ j = i =>
                           \E k \in 1..Len(c) :
                              /\ c[k] = slot
                              /\ \E d : Without(d, c, k) /\ QueueIs(d, links', gone, levels', other, j)
    BY <1>3 DEF QueueOut
  <2>2. \A sd \in BookSide, lv \in LevelIdx :
           sd # side \/ lv # i => levels'[sd][lv] = levels[sd][lv]
    BY <1>5
  <2>3. \A s \in Slot : s # slot =>
           links'[s].next = IF s = links[slot].prev THEN links[slot].next ELSE links[s].next
    BY <1>7
  <2>4. Linked(links, orders, levels) /\ slot \in DOMAIN orders /\ IsAt(orders, slot, side, i)
    OBVIOUS
  <2> HIDE DEF gone
  <2> QED BY ONLY <2>1, <2>2, <2>3, <2>4, <1>1, other \in BookSide, j \in LevelIdx,
                  QueueIs(c, links, orders, levels, other, j), QueueAfterUnlink DEF gone
<1>12. QueuesListed(links, orders, levels) => QueuesListed(links', orders', levels')
  BY <1>11 DEF QueuesListed, QueueOut
<1> QED BY <1>2, <1>3, <1>5, <1>6, <1>7, <1>9, <1>10, <1>11, <1>12, NilIsNoSlot
-----------------------------------------------------------------------------
(***************************************************************************)
(* One lemma per action                                                    *)
(***************************************************************************)
\* The empty book satisfies it.
LEMMA BookInitInv == BookInit => BInv
<1> SUFFICES ASSUME BookInit PROVE BInv
  OBVIOUS
<1>1. kNone \notin LevelIdx
  BY BitmapAssumption DEF kNone, LevelIdx
<1>2. NoBits \in BitmapType /\ \A i \in LevelIdx : ~IsSet(NoBits, i)
  BY WordAndBit DEF NoBits, BitmapType, IsSet
<1>3. /\ \A side \in BookSide : occupied[side] = NoBits /\ best_idx[side] = kNone
      /\ TouchTypeOK
  BY <1>2 DEF BookInit, TouchInit, TouchTypeOK
<1>4. /\ EmptyLevel \in PoolLevel /\ EmptyLevel.head = kNil /\ EmptyLevel.tail = kNil
  BY NilIsNoSlot DEF EmptyLevel, PoolLevel
<1>5. /\ levels \in LevelsType
      /\ \A side \in BookSide, i \in LevelIdx : levels[side][i] = EmptyLevel
  BY <1>4 DEF BookInit, LevelsType
<1>6. /\ DOMAIN orders = {} /\ PoolTypeOK /\ orders \in [DOMAIN orders -> PooledOrder]
  <2>1. kMaxOrders \in Nat \ {0} /\ 0 \in Slot
    BY PoolAssumption DEF Slot
  <2>2. ASSUME NEW s \in Slot
        PROVE  (IF s + 1 < kMaxOrders THEN s + 1 ELSE kNil) \in Link
    BY <2>1 DEF Link, Slot
  <2>3. links \in LinksType
    BY <2>2, NilIsNoSlot DEF BookInit, PoolInit, LinksType
  <2>4. DOMAIN orders = {} /\ free_head = 0
    BY DEF BookInit, PoolInit
  <2> QED BY <2>1, <2>3, <2>4 DEF PoolTypeOK, LinksType, Link, BookInit, PoolInit
<1>7. BookTypeOK
  <2>1. fills \in Seq(Fill)
    BY EmptySeq DEF BookInit
  <2> QED BY <2>1, <1>3, <1>5, <1>6 DEF BookInit, BookTypeOK, LevelsType
<1>8. Linked(links, orders, levels)
  BY <1>4, <1>5, <1>6 DEF Linked, LevelLinked
<1>9. FreeListed(links, orders, free_head) /\ QueuesListed(links, orders, levels)
  <2>1. \A side \in BookSide, i \in LevelIdx :
           levels[side][i].head = kNil /\ At(orders, side, i) = {}
    BY <1>4, <1>5, <1>6 DEF At
  <2>2. QueuesListed(links, orders, levels)
    BY <2>1, ListOfNone DEF QueuesListed, QueueIs
  <2> QED BY <2>2, FreeAtFirst DEF BookInit
<1>10. BitmapAgrees
  BY <1>2, <1>3, <1>4, <1>5 DEF BitmapAgrees
<1>11. TouchIsBest
  BY <1>2, <1>3, TouchBySide DEF BestBit
<1>12. NotCrossed /\ AtWork /\ Priced
  BY <1>3, <1>4, <1>5 DEF NotCrossed, AtWork, Priced, BookInit, BookSide
<1> QED BY <1>7, <1>8, <1>9, <1>10, <1>11, <1>12 DEF BInv

\* A step that leaves the book alone and is not in the inner loop before it.
LEMMA BookUntouched ==
    ASSUME BInv, UNCHANGED <<touch, pool, book>>, pc # "level"
    PROVE  /\ BitmapAgrees' /\ TouchIsBest' /\ NotCrossed' /\ Priced'
           /\ Linked(links', orders', levels')
           /\ QueuesListed(links', orders', levels')
           /\ FreeListed(links', orders', free_head')
           /\ TouchTypeOK' /\ PoolTypeOK'
           /\ orders' \in [DOMAIN orders' -> PooledOrder]
           /\ levels' \in [BookSide -> [LevelIdx -> PoolLevel]]
           /\ orders_count' \in [BookSide -> Int]
           /\ orders' = orders
<1>1. /\ levels' = levels /\ occupied' = occupied /\ best_idx' = best_idx
      /\ links' = links /\ orders' = orders /\ free_head' = free_head
      /\ orders_count' = orders_count
  BY DEF touch, pool, book
<1>2. BitmapAgrees'
  BY <1>1, AllTracked DEF BInv, Tracked
<1>3. TouchIsBest'
  BY <1>1, TouchBySide DEF BInv
<1>4. NotCrossed' /\ Priced' /\ TouchTypeOK' /\ PoolTypeOK'
  BY <1>1 DEF BInv, NotCrossed, Priced, BookTypeOK, TouchTypeOK, PoolTypeOK
<1> QED BY <1>1, <1>2, <1>3, <1>4 DEF BInv, BookTypeOK

\* submit begins, for a price of the window and a ref that is not resting.
LEMMA SubmitStep ==
    ASSUME PositiveQtys, BInv, NEW request \in OrderRequest, Submit(request)
    PROVE  BInv'
<1>1. UNCHANGED <<touch, pool, book>> /\ pc = "idle" /\ pc' = "match" /\ req' = request
      /\ remaining' = request.qty /\ fills' = <<>> /\ returned' = returned
      /\ HasIndex(request.limit_price) /\ ~IsLive(request.ref)
  BY DEF Submit
<1>2. request.qty \in Nat /\ request # None
  BY NoneAssumption DEF OrderRequest, PositiveQtys
<1>3. BookTypeOK'
  BY <1>1, <1>2, BookUntouched, EmptySeq DEF BookTypeOK, BInv
<1>4. AtWork'
  BY <1>1, BookUntouched DEF AtWork, IsLive
<1> QED BY <1>1, <1>3, <1>4, BookUntouched DEF BInv

\* submit refuses a price that has no level.
LEMMA SubmitRefusedStep ==
    ASSUME BInv, NEW request \in OrderRequest, SubmitRefused(request)
    PROVE  BInv'
<1>1. UNCHANGED <<touch, pool, book>> /\ pc = "idle" /\ pc' = pc /\ req' = req
      /\ remaining' = remaining /\ fills' = <<>> /\ returned' = 0
  BY DEF SubmitRefused, locals
<1>2. BookTypeOK'
  BY <1>1, BookUntouched, EmptySeq DEF BookTypeOK, BInv
<1> QED BY <1>1, <1>2, BookUntouched DEF BInv, AtWork

\* The outer loop reaches the touch.
LEMMA EnterLevelStep == ASSUME BInv, EnterLevel PROVE BInv'
<1>1. UNCHANGED <<touch, pool, book>> /\ pc = "match" /\ pc' = "level" /\ req' = req
      /\ remaining' = remaining /\ fills' = fills /\ returned' = returned
      /\ cur # kNone
  BY DEF EnterLevel, Reaches
<1>2. BookTypeOK'
  BY <1>1, BookUntouched DEF BookTypeOK, BInv
<1>3. cur \in LevelIdx /\ cur' = cur
  <2>1. cur \in LevelIdx \cup {kNone}
    BY OwnSide DEF cur, BInv, BookTypeOK, TouchTypeOK
  <2>2. cur' = cur
    BY <1>1 DEF cur, ownSide, touch
  <2> QED BY <2>1, <2>2, <1>1
<1>4. AtWork'
  BY <1>1, <1>3, BookUntouched DEF AtWork, BInv, IsLive
<1> QED BY <1>1, <1>2, <1>4, BookUntouched DEF BInv

\* submit returns without touching the book: filled, or the pool has no slot.
LEMMA ReturnStep ==
    ASSUME BInv, SubmitFilled \/ SubmitNoSlot
    PROVE  BInv'
<1>1. UNCHANGED <<touch, pool, book>> /\ pc = "match" /\ pc' = "idle" /\ req' = None
      /\ remaining' = 0 /\ fills' = fills /\ returned' = 0
  BY DEF SubmitFilled, SubmitNoSlot, Unmatched, Return
<1>2. BookTypeOK'
  BY <1>1, BookUntouched DEF BookTypeOK, BInv
<1> QED BY <1>1, <1>2, BookUntouched DEF BInv, AtWork

\* cancel finds nothing.
LEMMA RemoveNothingStep == ASSUME BInv, RemoveNothing PROVE BInv'
<1>1. UNCHANGED <<touch, pool, book>> /\ pc = "idle" /\ pc' = pc /\ req' = req
      /\ remaining' = remaining /\ fills' = fills /\ returned' = 0
  BY DEF RemoveNothing, locals
<1>2. BookTypeOK'
  BY <1>1, BookUntouched DEF BookTypeOK, BInv
<1> QED BY <1>1, <1>2, BookUntouched DEF BInv, AtWork

\* Orders that stay keep their place and ref: what the pool holds after a
\* step that frees a slot or lowers a quantity.
LEMMA StillFresh ==
    ASSUME AtWork, pc # "idle", req' = req,
           DOMAIN orders' \subseteq DOMAIN orders,
           \A s \in DOMAIN orders' : orders'[s].ref = orders[s].ref
    PROVE  (HasIndex(req.limit_price) /\ ~IsLive(req.ref))'
  BY DEF AtWork, IsLive

\* What a trade with the head of the level comes to.
LEMMA FrontOfLevel ==
    ASSUME BInv, pc = "level", remaining > 0, top # kNil
    PROVE  /\ ownSide \in BookSide /\ Opposite(ownSide) \in BookSide /\ cur \in LevelIdx
           /\ top \in DOMAIN orders /\ IsAt(orders, top, Opposite(ownSide), cur)
           /\ orders[top] \in PooledOrder
           /\ fillQty \in Nat \ {0} /\ remaining - fillQty \in Nat /\ left \in Nat
           /\ [aggressor |-> req.ref, resting |-> orders[top].ref,
               price |-> priceAt(cur), qty |-> fillQty] \in Fill
<1>1. ownSide \in BookSide /\ Opposite(ownSide) \in BookSide /\ cur \in LevelIdx
  BY OwnSide DEF BInv, AtWork
<1>2. top \in DOMAIN orders /\ IsAt(orders, top, Opposite(ownSide), cur)
  <2>1. LevelLinked(links, orders, levels, Opposite(ownSide), cur)
    BY <1>1 DEF BInv, Linked
  <2> QED BY <2>1 DEF LevelLinked, top
<1>3. orders[top] \in PooledOrder /\ orders[top].ref \in Refs /\ orders[top].remainQty \in Nat \ {0}
  BY <1>2, TypeParts, PlaceOfOrder DEF BInv
<1>4. remaining \in Nat /\ req.ref \in Refs
  BY DEF BInv, BookTypeOK, OrderRequest
<1>5. fillQty \in Nat \ {0} /\ remaining - fillQty \in Nat /\ left \in Nat
  BY <1>3, <1>4 DEF fillQty, left, Lesser
<1>6. priceAt(cur) \in Prices
  BY <1>1 DEF BInv, Priced, top
<1> HIDE DEF fillQty, left
<1>7. [aggressor |-> req.ref, resting |-> orders[top].ref,
       price |-> priceAt(cur), qty |-> fillQty] \in Fill
  BY <1>3, <1>4, <1>5, <1>6 DEF Fill
<1> QED BY <1>1, <1>2, <1>3, <1>5, <1>7

\* A trade changes the queue of the touch, whose bit stays until LeaveLevel.
LEMMA TradeStep == ASSUME BInv, TradeWithFront PROVE BInv'
<1> DEFINE side   == Opposite(ownSide)
           traded == [levels[side][cur] EXCEPT !.total_qty = @ - fillQty]
           gone   == UnlinkLevel(links, traded, top, left)
           new    == IF Spent THEN gone ELSE traded
           fill   == [aggressor |-> req.ref, resting |-> orders[top].ref,
                      price |-> priceAt(cur), qty |-> fillQty]
<1>1. /\ pc = "level" /\ remaining > 0 /\ top # kNil
      /\ pc' = pc /\ req' = req /\ returned' = returned
      /\ occupied' = occupied /\ best_idx' = best_idx
      /\ fills' = Append(fills, fill)
      /\ remaining' = remaining - fillQty
      /\ levels' = WithLevel(levels, side, cur, new)
      /\ Spent => /\ release(UnlinkLinks(links, top), top)
                  /\ orders_count' = [orders_count EXCEPT ![side] = @ - 1]
      /\ ~Spent => /\ orders' = [orders EXCEPT ![top].remainQty = left]
                   /\ orders_count' = orders_count /\ links' = links /\ free_head' = free_head
  BY DEF TradeWithFront, WithLevel, touch
<1>2. /\ ownSide \in BookSide /\ side \in BookSide /\ cur \in LevelIdx
      /\ top \in DOMAIN orders /\ IsAt(orders, top, side, cur)
      /\ orders[top] \in PooledOrder
      /\ fillQty \in Nat \ {0} /\ remaining - fillQty \in Nat /\ left \in Nat
      /\ fill \in Fill
  BY <1>1, FrontOfLevel
<1>3. cur' = cur /\ ownSide' = ownSide
  BY <1>1 DEF cur, ownSide
<1> HIDE DEF fill, side
<1>4. /\ links \in LinksType /\ OrdersType(orders) /\ free_head \in Link
      /\ levels \in LevelsType /\ TouchTypeOK /\ orders_count \in [BookSide -> Int]
  BY TypeParts DEF BInv
<1>5. /\ traded \in PoolLevel
      /\ traded.head = levels[side][cur].head /\ traded.tail = levels[side][cur].tail
  <2>1. levels[side][cur] \in PoolLevel
    BY <1>2, <1>4 DEF LevelsType
  <2> HIDE DEF fillQty
  <2> QED BY <2>1, <1>2 DEF PoolLevel
<1> HIDE DEF traded
<1>6. /\ links' \in LinksType /\ OrdersType(orders') /\ free_head' \in Link
      /\ levels' \in LevelsType
      /\ \A other \in BookSide, j \in LevelIdx :
           other # side \/ j # cur => levels'[other][j] = levels[other][j]
      /\ Linked(links', orders', levels')
      /\ QueuesListed(links', orders', levels')
      /\ FreeListed(links', orders', free_head')
      /\ DOMAIN orders' \subseteq DOMAIN orders
      /\ \A s \in DOMAIN orders' : orders'[s].ref = orders[s].ref
  <2>1. CASE Spent
    <3>1. levels' = WithLevel(levels, side, cur, gone) /\ release(UnlinkLinks(links, top), top)
      BY <2>1, <1>1
    <3>2. /\ Linked(links, orders, levels) /\ FreeListed(links, orders, free_head) /\ BookTypeOK
          /\ QueuesListed(links, orders, levels)
      BY DEF BInv
    <3> HIDE DEF gone, new
    <3>3. gone = UnlinkLevel(links, traded, top, left)
      BY DEF gone
    <3>4. left \in Int
      BY <1>2
    <3> HIDE DEF left
    <3>5. /\ links' \in LinksType /\ OrdersType(orders') /\ free_head' \in Link
          /\ levels' \in LevelsType
          /\ \A other \in BookSide, j \in LevelIdx :
               other # side \/ j # cur => levels'[other][j] = levels[other][j]
          /\ Linked(links', orders', levels')
          /\ QueuesListed(links', orders', levels')
          /\ FreeListed(links', orders', free_head')
          /\ orders' = WithoutSlot(orders, top)
      BY <3>1, <3>2, <3>3, <3>4, <1>2, <1>5, SlotFreed
    <3>6. /\ DOMAIN orders' \subseteq DOMAIN orders
          /\ \A s \in DOMAIN orders' : orders'[s].ref = orders[s].ref
      BY <3>5 DEF WithoutSlot
    <3> QED BY <3>5, <3>6
  <2>2. CASE ~Spent
    <3>1. /\ orders' = [orders EXCEPT ![top].remainQty = left]
          /\ links' = links /\ free_head' = free_head
          /\ levels' = WithLevel(levels, side, cur, traded)
      BY <2>2, <1>1
    <3>2. left \in Nat \ {0}
      BY <2>2, <1>2 DEF Spent
    <3> HIDE DEF left
    <3>3. /\ levels' \in LevelsType
          /\ levels'[side][cur] = traded
          /\ \A other \in BookSide, j \in LevelIdx :
               other # side \/ j # cur => levels'[other][j] = levels[other][j]
      BY <3>1, <1>2, <1>4, <1>5, SetLevel
    <3>4. orders \in [DOMAIN orders -> PooledOrder] /\ DOMAIN orders \subseteq Slot
      BY <1>4 DEF OrdersType
    <3>5. \A s \in DOMAIN orders : orders[s] \in PooledOrder
      BY <3>4
    <3>6. /\ DOMAIN orders' = DOMAIN orders
          /\ \A s \in DOMAIN orders :
               orders'[s] = IF s = top THEN [orders[top] EXCEPT !.remainQty = left] ELSE orders[s]
      BY <3>1
    <3>7. [orders[top] EXCEPT !.remainQty = left] \in PooledOrder
      BY <1>2, <3>2 DEF PooledOrder
    <3>8. \A s \in DOMAIN orders : orders'[s].side = orders[s].side
                                   /\ orders'[s].level = orders[s].level
                                   /\ orders'[s].ref = orders[s].ref
      BY <1>2, <3>5, <3>6 DEF PooledOrder
    <3>9. OrdersType(orders')
      <4>1. orders' \in [DOMAIN orders -> PooledOrder]
        BY <3>1, <3>5, <3>6, <3>7
      <4> QED BY <4>1, <3>4, <3>6 DEF OrdersType
    <3>10. \A other \in BookSide, j \in LevelIdx :
              /\ levels'[other][j].head = levels[other][j].head
              /\ levels'[other][j].tail = levels[other][j].tail
      BY <3>3, <1>5
    <3>11. Linked(links', orders', levels')
      <4>1. Linked(links, orders, levels)
        BY DEF BInv
      <4>2. Linked(links, orders', levels')
        BY <4>1, <3>6, <3>8, <3>10, <1>4, LinkedByPlace
      <4> QED BY <4>2, <3>1
    <3>12. FreeListed(links', orders', free_head')
      BY <3>1, <3>6 DEF BInv, FreeListed
    <3>13. QueuesListed(links', orders', levels')
      <4>1. \A other \in BookSide, j \in LevelIdx : \A c :
               QueueIs(c, links, orders, levels, other, j) =>
                 QueueIs(c, links, orders', levels', other, j)
        BY <3>6, <3>8, <3>10, QueuesByPlace
      <4> QED BY <4>1, <3>1 DEF BInv, QueuesListed
    <3> QED BY <3>1, <3>3, <3>6, <3>8, <3>9, <3>11, <3>12, <3>13, <1>4
  <2> QED BY <2>1, <2>2
<1> HIDE DEF new, gone
<1>7. orders_count' \in [BookSide -> Int]
  <2>1. CASE Spent
    BY <2>1, <1>1, <1>2, <1>4
  <2>2. CASE ~Spent
    BY <2>2, <1>1, <1>4
  <2> QED BY <2>1, <2>2
<1>8. fills' \in Seq(Fill)
  BY <1>1, <1>2, AppendProperties DEF BInv, BookTypeOK
<1>9. BookTypeOK'
  BY <1>1, <1>2, <1>6, <1>7, <1>8
     DEF BInv, BookTypeOK, TouchTypeOK, PoolTypeOK, LinksType, OrdersType, LevelsType
<1>10. BitmapAgrees'
  <2> SUFFICES ASSUME NEW other \in BookSide, NEW j \in LevelIdx,
                      ~(other = side /\ j = cur)
               PROVE  IsSet(occupied'[other], j) <=> levels'[other][j].head # kNil
    BY <1>1, <1>3 DEF BitmapAgrees, side
  <2>1. ~(pc = "level" /\ other = Opposite(ownSide) /\ j = cur)
    BY DEF side
  <2> QED BY <2>1, <1>1, <1>6 DEF BInv, BitmapAgrees
<1>11. TouchIsBest'
  BY <1>1, TouchBySide DEF BInv
<1>12. NotCrossed'
  BY <1>1 DEF BInv, NotCrossed
<1>13. AtWork'
  <2>1. (HasIndex(req.limit_price) /\ ~IsLive(req.ref))'
    BY <1>1, <1>6, StillFresh DEF BInv
  <2> QED BY <2>1, <1>1, <1>2, <1>3 DEF AtWork
<1>14. Priced'
  <2> SUFFICES ASSUME NEW other \in BookSide, NEW j \in LevelIdx,
                      levels'[other][j].head # kNil
               PROVE  priceAt(j) \in Prices
    BY DEF Priced
  <2>1. CASE other = side /\ j = cur
    BY <2>1, <1>1, <1>2 DEF BInv, Priced, top, side
  <2>2. CASE ~(other = side /\ j = cur)
    BY <2>2, <1>6 DEF BInv, Priced
  <2> QED BY <2>1, <2>2
<1> QED BY <1>6, <1>9, <1>10, <1>11, <1>12, <1>13, <1>14 DEF BInv

\* The inner loop ends: the bit of the level follows its queue again.
LEMMA LeaveLevelStep == ASSUME BInv, LeaveLevel PROVE BInv'
<1> DEFINE side    == Opposite(ownSide)
           drained == levels[side][cur].head = kNil
<1>1. /\ pc = "level" /\ pc' = "match"
      /\ drained => on_level_emptied(side, cur)
      /\ ~drained => occupied' = occupied /\ best_idx' = best_idx
      /\ levels' = levels /\ orders_count' = orders_count
      /\ links' = links /\ orders' = orders /\ free_head' = free_head
      /\ req' = req /\ remaining' = remaining /\ fills' = fills /\ returned' = returned
  BY DEF LeaveLevel, touch, pool, book, top
<1>2. side \in BookSide /\ cur \in LevelIdx /\ TouchTypeOK /\ TouchIsBest /\ NotCrossed
  BY <1>1, OwnSide DEF BInv, AtWork, BookTypeOK
<1>3. cur = best_idx[side]
  BY DEF cur
<1>4. \A other \in BookSide, i \in LevelIdx :
         Tracked(other, i) \/ (other = side /\ i = cur)
  BY DEF BInv, BitmapAgrees, Tracked
<1> HIDE DEF side
<1>5. /\ TouchTypeOK' /\ TouchIsBest' /\ NotCrossed'
      /\ \A other \in BookSide, j \in LevelIdx : Tracked(other, j)'
  <2>1. CASE drained
    <3>1. on_level_emptied(side, cur)
      BY <1>1, <2>1
    <3>2. /\ TouchTypeOK' /\ TouchIsBest' /\ NotCrossed'
          /\ \A other \in BookSide, j \in LevelIdx :
               IsSet(occupied'[other], j) <=>
                   ~(other = side /\ j = cur) /\ IsSet(occupied[other], j)
      BY <3>1, <1>2, LevelEmptied, EmptiedNotCrossed
    <3>3. \A other \in BookSide, j \in LevelIdx : Tracked(other, j)'
      BY <3>2, <1>1, <1>4, <2>1 DEF Tracked
    <3> QED BY <3>2, <3>3
  <2>2. CASE ~drained
    <3>1. occupied' = occupied /\ best_idx' = best_idx
      BY <1>1, <2>2
    <3>2. TouchTypeOK' /\ TouchIsBest' /\ NotCrossed'
      BY <3>1, <1>2, TouchBySide DEF TouchTypeOK, NotCrossed
    <3>3. IsSet(occupied[side], cur)
      <4>1. BestBit(side, occupied[side], cur)
        BY <1>2, <1>3, TouchBySide
      <4>2. cur # kNone
        BY <1>2, BitmapAssumption DEF kNone, LevelIdx
      <4> QED BY <4>1, <4>2 DEF BestBit
    <3>4. \A other \in BookSide, j \in LevelIdx : Tracked(other, j)'
      BY <3>1, <3>3, <1>1, <1>4, <2>2 DEF Tracked
    <3> QED BY <3>2, <3>4
  <2> QED BY <2>1, <2>2
<1>6. BitmapAgrees'
  BY <1>5, AllTracked
<1>7. BookTypeOK' /\ Priced' /\ AtWork'
  BY <1>1, <1>5 DEF BInv, BookTypeOK, PoolTypeOK, AtWork, Priced, IsLive
<1>8. /\ Linked(links', orders', levels') /\ FreeListed(links', orders', free_head')
      /\ QueuesListed(links', orders', levels')
  BY <1>1 DEF BInv
<1> QED BY <1>5, <1>6, <1>7, <1>8 DEF BInv

\* What is left of an order joins its level's queue in the first free slot.
LEMMA SlotTaken ==
    ASSUME BInv, RestInSlot
    PROVE  LET i == index(req.limit_price)
               o == [ref |-> req.ref, remainQty |-> remaining, level |-> i, side |-> req.side]
           IN  /\ i \in LevelIdx /\ priceAt(i) \in Prices /\ ownSide \in BookSide
               /\ free_head \in Slot \ DOMAIN orders
               /\ orders' = WithSlot(orders, free_head, o)
               /\ links' \in LinksType /\ OrdersType(orders') /\ free_head' \in Link
               /\ levels' \in LevelsType
               /\ levels'[ownSide][i].head # kNil
               /\ \A other \in BookSide, j \in LevelIdx :
                    other # ownSide \/ j # i => levels'[other][j] = levels[other][j]
               /\ Linked(links', orders', levels')
               /\ QueuePushed(free_head, ownSide, i)
               /\ QueuesListed(links', orders', levels')
               /\ FreeListed(links', orders', free_head')
<1> DEFINE i   == index(req.limit_price)
           o   == [ref |-> req.ref, remainQty |-> remaining, level |-> i, side |-> req.side]
           lvl == levels[ownSide][i]
           new == PushBackLevel(lvl, free_head, remaining)
<1>1. /\ pc = "match" /\ remaining # 0 /\ free_head # kNil
      /\ free_head' = links[free_head].next
      /\ orders' = WithSlot(orders, free_head, o)
      /\ links' = PushBackLinks(links, lvl, free_head)
      /\ levels' = WithLevel(levels, ownSide, i, new)
  BY DEF RestInSlot, Unmatched, alloc, WithSlot, WithLevel
<1>2. /\ req \in OrderRequest /\ HasIndex(req.limit_price) /\ remaining \in Nat \ {0}
  BY <1>1 DEF BInv, BookTypeOK, AtWork
<1>3. /\ req.ref \in Refs /\ req.limit_price \in Prices /\ req.side \in SubmitSides
  BY <1>2 DEF OrderRequest
<1>4. i \in LevelIdx /\ priceAt(i) \in Prices
  BY <1>2, <1>3, LevelOfPrice
<1> HIDE DEF i
<1>5. /\ links \in LinksType /\ OrdersType(orders) /\ levels \in LevelsType
      /\ Linked(links, orders, levels) /\ FreeListed(links, orders, free_head)
  BY TypeParts DEF BInv
<1>6. ownSide \in BookSide /\ BookSideOf(o.side) = ownSide /\ o.level = i
  BY OwnSide DEF ownSide
<1>7. o \in PooledOrder
  BY <1>2, <1>3, <1>4 DEF PooledOrder
<1> HIDE DEF o
<1>8. lvl \in PoolLevel /\ lvl.head \in Link /\ lvl.tail \in Link /\ lvl.total_qty \in Int
  BY <1>4, <1>5, <1>6 DEF LevelsType, PoolLevel
<1>9. free_head \in Slot \ DOMAIN orders
  BY <1>1, <1>5, FreeAfterAlloc
<1>10. /\ new \in PoolLevel
       /\ new.head = (IF lvl.head = kNil THEN free_head ELSE lvl.head) /\ new.tail = free_head
       /\ new.head # kNil
  <2> HIDE DEF lvl
  <2> QED BY <1>1, <1>2, <1>8, <1>9, NilIsNoSlot DEF PushBackLevel, PoolLevel
<1> HIDE DEF new
<1>11. /\ levels' \in LevelsType
       /\ levels'[ownSide][i] = new
       /\ \A other \in BookSide, j \in LevelIdx :
            other # ownSide \/ j # i => levels'[other][j] = levels[other][j]
  BY <1>1, <1>4, <1>5, <1>6, <1>10, SetLevel
<1>12. Linked(links', WithSlot(orders, free_head, o), levels') /\ links' \in LinksType
  BY <1>1, <1>4, <1>5, <1>6, <1>7, <1>9, <1>10, <1>11, PushBackKeepsLinked
<1>13. /\ links'[free_head].next = kNil
       /\ \A s \in Slot : s # free_head =>
            links'[s].next = IF lvl.head # kNil /\ s = lvl.tail THEN free_head ELSE links[s].next
       /\ lvl.head # kNil => lvl.tail \in DOMAIN orders
  <2>1. /\ lvl.head = kNil <=> lvl.tail = kNil
        /\ lvl.tail # kNil => lvl.tail \in DOMAIN orders
    BY <1>4, <1>5, <1>6 DEF Linked, LevelLinked
  <2>2. DOMAIN orders \subseteq Slot
    BY <1>5 DEF OrdersType
  <2>3. lvl.head # kNil => lvl.tail \in Slot \ {free_head}
    BY <2>1, <2>2, <1>9
  <2> HIDE DEF lvl
  <2> QED BY <2>1, <2>3, <1>1, <1>5, <1>8, <1>9, PushBackFields
<1>14. /\ links[free_head].next \in Link
       /\ FreeListed(links', WithSlot(orders, free_head, o), links[free_head].next)
  BY <1>1, <1>5, <1>13, FreeAfterAlloc
<1>15. OrdersType(orders')
  <2>1. DOMAIN orders \subseteq Slot /\ \A s \in DOMAIN orders : orders[s] \in PooledOrder
    BY <1>5 DEF OrdersType
  <2>2. WithSlot(orders, free_head, o) \in [DOMAIN orders \cup {free_head} -> PooledOrder]
    BY <2>1, <1>7 DEF WithSlot
  <2> QED BY <2>1, <2>2, <1>1, <1>9 DEF OrdersType
<1>16. QueuePushed(free_head, ownSide, i)
  <2>1. levels'[ownSide][i].head = IF lvl.head = kNil THEN free_head ELSE lvl.head
    BY <1>10, <1>11
  <2> QED BY <2>1, <1>1, <1>4, <1>5, <1>6, <1>9, <1>11, <1>13, QueueAfterPush
          DEF QueuePushed
<1>17. QueuesListed(links', orders', levels')
  BY <1>16 DEF BInv, QueuesListed, QueuePushed
<1> QED BY <1>1, <1>4, <1>6, <1>9, <1>10, <1>11, <1>12, <1>14, <1>15, <1>16, <1>17 DEF o, i

\* There is no touch on the other side within the limit of an order that
\* rests, so the book stays uncrossed.
LEMMA RestStep == ASSUME BInv, RestInSlot PROVE BInv'
<1> DEFINE i == index(req.limit_price)
<1>1. /\ pc = "match" /\ remaining # 0
      /\ remaining < 0 \/ ~Reaches(cur)
      /\ on_level_occupied(ownSide, i)
      /\ orders_count' = [orders_count EXCEPT ![ownSide] = @ + 1]
      /\ pc' = "idle" /\ req' = None /\ remaining' = 0 /\ returned' = remaining /\ fills' = fills
  BY DEF RestInSlot, Unmatched, Return
<1>2. /\ i \in LevelIdx /\ priceAt(i) \in Prices /\ ownSide \in BookSide
      /\ links' \in LinksType /\ OrdersType(orders') /\ free_head' \in Link
      /\ levels' \in LevelsType
      /\ levels'[ownSide][i].head # kNil
      /\ \A other \in BookSide, j \in LevelIdx :
           other # ownSide \/ j # i => levels'[other][j] = levels[other][j]
      /\ Linked(links', orders', levels')
      /\ QueuesListed(links', orders', levels')
      /\ FreeListed(links', orders', free_head')
  BY SlotTaken
<1>3. ~Reaches(cur) /\ remaining \in Nat /\ TouchTypeOK /\ TouchIsBest /\ NotCrossed
  BY <1>1 DEF BInv, BookTypeOK
<1>4. cur = kNone \/ ~Crosses(ownSide, i, cur)
  BY <1>3 DEF Reaches
<1> HIDE DEF i
<1>5. /\ TouchTypeOK' /\ TouchIsBest'
      /\ \A other \in BookSide, j \in LevelIdx :
           IsSet(occupied'[other], j) <=> (other = ownSide /\ j = i) \/ IsSet(occupied[other], j)
      /\ best_idx'[ownSide] = i \/ best_idx'[ownSide] = best_idx[ownSide]
      /\ \A other \in BookSide : other # ownSide => best_idx'[other] = best_idx[other]
  BY <1>1, <1>2, <1>3, LevelOccupied
<1>6. BookTypeOK'
  <2>1. orders_count' \in [BookSide -> Int]
    BY <1>1, <1>2 DEF BInv, BookTypeOK
  <2> QED BY <2>1, <1>1, <1>2, <1>3, <1>5
          DEF BInv, BookTypeOK, PoolTypeOK, LinksType, OrdersType, LevelsType
<1>7. BitmapAgrees'
  <2>1. ASSUME NEW other \in BookSide, NEW j \in LevelIdx PROVE Tracked(other, j)'
    <3>1. Tracked(other, j)
      BY <1>1, AllTracked DEF BInv
    <3>2. CASE other = ownSide /\ j = i
      BY <3>2, <1>2, <1>5 DEF Tracked
    <3>3. CASE ~(other = ownSide /\ j = i)
      BY <3>1, <3>3, <1>2, <1>5 DEF Tracked
    <3> QED BY <3>2, <3>3
  <2> QED BY <2>1, AllTracked
<1>8. NotCrossed'
  <2>1. /\ kNone \notin LevelIdx /\ \A x \in LevelIdx : x \in Int
        /\ best_idx[Buy] \in LevelIdx \cup {kNone} /\ best_idx[Sell] \in LevelIdx \cup {kNone}
    BY <1>3, BitmapAssumption DEF kNone, LevelIdx, TouchTypeOK, BookSide
  <2>2. CASE ownSide = Buy
    <3>1. best_idx[Sell] = kNone \/ ~(best_idx[Sell] <= i)
      BY <1>4, <2>2 DEF cur, Crosses, Opposite
    <3>2. best_idx'[Sell] = best_idx[Sell]
      BY <2>2, <1>5 DEF BookSide, Buy, Sell
    <3> QED BY <3>1, <3>2, <2>1, <2>2, <1>2, <1>3, <1>5 DEF NotCrossed
  <2>3. CASE ownSide = Sell
    <3>1. best_idx[Buy] = kNone \/ ~(best_idx[Buy] >= i)
      BY <1>4, <2>3 DEF cur, Crosses, Opposite, Buy, Sell
    <3>2. best_idx'[Buy] = best_idx[Buy]
      BY <2>3, <1>5 DEF BookSide, Buy, Sell
    <3> QED BY <3>1, <3>2, <2>1, <2>3, <1>2, <1>3, <1>5 DEF NotCrossed
  <2> QED BY <2>2, <2>3, <1>2 DEF BookSide
<1>9. AtWork'
  BY <1>1 DEF AtWork
<1>10. Priced'
  <2> SUFFICES ASSUME NEW other \in BookSide, NEW j \in LevelIdx,
                      levels'[other][j].head # kNil
               PROVE  priceAt(j) \in Prices
    BY DEF Priced
  <2>1. CASE j = i
    BY <2>1, <1>2
  <2>2. CASE j # i
    BY <2>2, <1>2 DEF BInv, Priced
  <2> QED BY <2>1, <2>2
<1> QED BY <1>2, <1>5, <1>6, <1>7, <1>8, <1>9, <1>10 DEF BInv

\* cancel frees the slot of an order; a queue left empty loses its bit.
LEMMA RemoveStep == ASSUME BInv, NEW slot \in DOMAIN orders, RemoveOrder(slot) PROVE BInv'
<1> DEFINE o    == orders[slot]
           side == BookSideOf(o.side)
           i    == o.level
           lvl  == levels[side][i]
           new  == UnlinkLevel(links, lvl, slot, o.remainQty)
<1>1. /\ pc = "idle" /\ pc' = pc /\ req' = req /\ remaining' = remaining /\ fills' = fills
      /\ levels' = WithLevel(levels, side, i, new)
      /\ orders_count' = [orders_count EXCEPT ![side] = @ - 1]
      /\ release(UnlinkLinks(links, slot), slot)
      /\ new.head = kNil => on_level_emptied(side, i)
      /\ new.head # kNil => occupied' = occupied /\ best_idx' = best_idx
      /\ returned' = o.remainQty
  BY DEF RemoveOrder, WithLevel, touch, locals
<1>2. /\ links \in LinksType /\ OrdersType(orders) /\ levels \in LevelsType
      /\ Linked(links, orders, levels) /\ FreeListed(links, orders, free_head)
      /\ QueuesListed(links, orders, levels)
      /\ BookTypeOK /\ TouchTypeOK /\ TouchIsBest /\ NotCrossed
  BY TypeParts DEF BInv
<1>3. /\ slot \in Slot /\ side \in BookSide /\ i \in LevelIdx /\ o.remainQty \in Nat
      /\ IsAt(orders, slot, side, i)
  BY <1>2, PlaceOfOrder DEF IsAt
<1>4. lvl \in PoolLevel
  BY <1>2, <1>3 DEF LevelsType
<1>5. new.head # kNil => lvl.head # kNil
  <2>1. links[slot].prev = kNil => lvl.head = slot
    BY <1>2 DEF Linked, SlotLinked
  <2>2. new.head = IF links[slot].prev = kNil THEN links[slot].next ELSE lvl.head
    BY DEF UnlinkLevel
  <2> QED BY <2>1, <2>2, <1>3, NilIsNoSlot
<1> DEFINE qty == o.remainQty
<1>6. new = UnlinkLevel(links, lvl, slot, qty) /\ qty \in Int /\ returned' = qty
  BY <1>1, <1>3
<1> HIDE DEF new, qty, side, i
<1>7. /\ links' \in LinksType /\ OrdersType(orders') /\ free_head' \in Link
      /\ levels' \in LevelsType
      /\ levels'[side][i] = new
      /\ \A other \in BookSide, j \in LevelIdx :
           other # side \/ j # i => levels'[other][j] = levels[other][j]
      /\ Linked(links', orders', levels')
      /\ QueuesListed(links', orders', levels')
      /\ FreeListed(links', orders', free_head')
  BY <1>1, <1>2, <1>3, <1>4, <1>6, SlotFreed
<1>8. /\ TouchTypeOK' /\ TouchIsBest' /\ NotCrossed'
      /\ \A other \in BookSide, j \in LevelIdx : Tracked(other, j)'
  <2>1. \A other \in BookSide, j \in LevelIdx : Tracked(other, j)
    BY <1>1, AllTracked DEF BInv
  <2>2. CASE new.head = kNil
    <3>1. /\ TouchTypeOK' /\ TouchIsBest' /\ NotCrossed'
          /\ \A other \in BookSide, j \in LevelIdx :
               IsSet(occupied'[other], j) <=>
                   ~(other = side /\ j = i) /\ IsSet(occupied[other], j)
      BY <2>2, <1>1, <1>2, <1>3, LevelEmptied, EmptiedNotCrossed
    <3> QED BY <3>1, <2>1, <2>2, <1>7 DEF Tracked
  <2>3. CASE new.head # kNil
    <3>1. occupied' = occupied /\ best_idx' = best_idx
      BY <2>3, <1>1
    <3>2. TouchTypeOK' /\ TouchIsBest' /\ NotCrossed'
      BY <3>1, <1>2, TouchBySide DEF TouchTypeOK, NotCrossed
    <3> QED BY <3>1, <3>2, <2>1, <2>3, <1>3, <1>5, <1>7 DEF Tracked
  <2> QED BY <2>2, <2>3
<1>9. BitmapAgrees'
  BY <1>8, AllTracked
<1>10. BookTypeOK'
  <2>1. orders_count' \in [BookSide -> Int] /\ returned' \in Nat
    BY <1>1, <1>3, <1>6 DEF BInv, BookTypeOK, qty
  <2> QED BY <2>1, <1>1, <1>7, <1>8
          DEF BInv, BookTypeOK, PoolTypeOK, LinksType, OrdersType, LevelsType
<1>11. AtWork'
  BY <1>1 DEF AtWork
<1>12. Priced'
  <2> SUFFICES ASSUME NEW other \in BookSide, NEW j \in LevelIdx,
                      levels'[other][j].head # kNil
               PROVE  priceAt(j) \in Prices
    BY DEF Priced
  <2>1. levels[other][j].head # kNil
    BY <1>5, <1>7
  <2> QED BY <2>1 DEF BInv, Priced
<1> QED BY <1>7, <1>8, <1>9, <1>10, <1>11, <1>12 DEF BInv

\* A step that changes nothing.
LEMMA BookStutter == ASSUME BInv, UNCHANGED bookVars PROVE BInv'
<1>1. /\ levels' = levels /\ occupied' = occupied /\ best_idx' = best_idx
      /\ links' = links /\ orders' = orders /\ free_head' = free_head
      /\ orders_count' = orders_count /\ pc' = pc /\ req' = req /\ remaining' = remaining
      /\ fills' = fills /\ returned' = returned
  BY DEF bookVars, touch, pool, book, locals
<1>2. TouchIsBest'
  BY <1>1, TouchBySide DEF BInv
<1>3. BitmapAgrees'
  BY <1>1 DEF BInv, BitmapAgrees, cur, ownSide
<1>4. BookTypeOK' /\ NotCrossed' /\ AtWork' /\ Priced'
  BY <1>1 DEF BInv, BookTypeOK, TouchTypeOK, PoolTypeOK, NotCrossed, AtWork, Priced,
              cur, ownSide, IsLive
<1> QED BY <1>1, <1>2, <1>3, <1>4 DEF BInv

\* What a trade does to the orders of the pool, for the index to follow.
LEMMA OrdersAfterTrade ==
    ASSUME BInv, TradeWithFront
    PROVE  /\ top \in DOMAIN orders
           /\ Spent => orders' = WithoutSlot(orders, top)
           /\ ~Spent => /\ DOMAIN orders' = DOMAIN orders
                        /\ \A s \in DOMAIN orders : orders'[s].ref = orders[s].ref
<1>1. top \in DOMAIN orders
  BY FrontOfLevel DEF TradeWithFront
<1>2. Spent => orders' = WithoutSlot(orders, top)
  BY DEF TradeWithFront, release, WithoutSlot
<1>3. ~Spent => orders' = [orders EXCEPT ![top].remainQty = left]
  BY DEF TradeWithFront
<1>4. \A s \in DOMAIN orders : orders[s] \in PooledOrder
  BY DEF BInv, BookTypeOK
<1> HIDE DEF left, Spent, top
<1> QED BY <1>1, <1>2, <1>3, <1>4 DEF PooledOrder

\* What it does to the queues: the front leaves, or stays with what is left.
LEMMA QueuesAfterTrade ==
    ASSUME BInv, TradeWithFront
    PROVE  LET side == Opposite(ownSide)
           IN  /\ side \in BookSide /\ cur \in LevelIdx
               /\ top \in DOMAIN orders /\ IsAt(orders, top, side, cur)
               /\ Spent => /\ orders' = WithoutSlot(orders, top)
                           /\ QueueOut(top, side, cur)
               /\ ~Spent => /\ DOMAIN orders' = DOMAIN orders /\ links' = links
                            /\ \A s \in DOMAIN orders : s # top => orders'[s] = orders[s]
                            /\ orders'[top] = [orders[top] EXCEPT !.remainQty = left]
                            /\ \A other \in BookSide, j \in LevelIdx :
                                 levels'[other][j].head = levels[other][j].head
<1> DEFINE side   == Opposite(ownSide)
           traded == [levels[side][cur] EXCEPT !.total_qty = @ - fillQty]
           gone   == UnlinkLevel(links, traded, top, left)
<1>1. /\ pc = "level" /\ remaining > 0 /\ top # kNil
      /\ Spent => /\ release(UnlinkLinks(links, top), top)
                  /\ levels' = WithLevel(levels, side, cur, gone)
      /\ ~Spent => /\ orders' = [orders EXCEPT ![top].remainQty = left]
                   /\ levels' = WithLevel(levels, side, cur, traded)
                   /\ links' = links
  BY DEF TradeWithFront, WithLevel
<1>2. /\ side \in BookSide /\ cur \in LevelIdx
      /\ top \in DOMAIN orders /\ IsAt(orders, top, side, cur)
      /\ fillQty \in Nat \ {0} /\ left \in Nat
  BY <1>1, FrontOfLevel
<1>3. /\ levels \in LevelsType /\ BookTypeOK
      /\ Linked(links, orders, levels) /\ FreeListed(links, orders, free_head)
  BY TypeParts DEF BInv
<1> HIDE DEF side
<1>4. /\ traded \in PoolLevel
      /\ traded.head = levels[side][cur].head /\ traded.tail = levels[side][cur].tail
  <2>1. levels[side][cur] \in PoolLevel /\ levels[side][cur].total_qty \in Int
    BY <1>2, <1>3 DEF LevelsType, PoolLevel
  <2> HIDE DEF fillQty
  <2> QED BY <2>1, <1>2 DEF PoolLevel
<1> HIDE DEF traded
<1>5. CASE Spent
  <2>1. levels' = WithLevel(levels, side, cur, gone) /\ release(UnlinkLinks(links, top), top)
    BY <1>1, <1>5
  <2>2. gone = UnlinkLevel(links, traded, top, left) /\ left \in Int
    BY <1>2
  <2> HIDE DEF gone, left
  <2>3. QueueOut(top, side, cur) /\ orders' = WithoutSlot(orders, top)
    BY ONLY <2>1, <2>2, <1>2, <1>3, <1>4, SlotFreed
  <2> QED BY <2>3, <1>2, <1>5 DEF side
<1>6. CASE ~Spent
  <2>1. /\ orders' = [orders EXCEPT ![top].remainQty = left] /\ links' = links
        /\ levels' = WithLevel(levels, side, cur, traded)
    BY <1>1, <1>6
  <2>2. \A other \in BookSide, j \in LevelIdx : levels'[other][j].head = levels[other][j].head
    BY <2>1, <1>2, <1>3, <1>4, SetLevel
  <2>3. /\ DOMAIN orders' = DOMAIN orders
        /\ \A s \in DOMAIN orders : s # top => orders'[s] = orders[s]
        /\ orders'[top] = [orders[top] EXCEPT !.remainQty = left]
    BY <2>1, <1>2
  <2> QED BY <2>1, <2>2, <2>3, <1>2, <1>6 DEF side
<1> QED BY <1>5, <1>6

\* What a cancel does to them.
LEMMA QueuesAfterRemove ==
    ASSUME BInv, NEW slot \in DOMAIN orders, RemoveOrder(slot)
    PROVE  LET side == BookSideOf(orders[slot].side)
               i    == orders[slot].level
           IN  /\ side \in BookSide /\ i \in LevelIdx /\ IsAt(orders, slot, side, i)
               /\ orders' = WithoutSlot(orders, slot)
               /\ QueueOut(slot, side, i)
<1> DEFINE o    == orders[slot]
           side == BookSideOf(o.side)
           i    == o.level
           qty  == o.remainQty
           lvl  == levels[side][i]
           new  == UnlinkLevel(links, lvl, slot, qty)
<1>1. levels' = WithLevel(levels, side, i, new) /\ release(UnlinkLinks(links, slot), slot)
  BY DEF RemoveOrder, WithLevel
<1>2. /\ OrdersType(orders) /\ levels \in LevelsType /\ BookTypeOK
      /\ Linked(links, orders, levels) /\ FreeListed(links, orders, free_head)
  BY TypeParts DEF BInv
<1>3. side \in BookSide /\ i \in LevelIdx /\ qty \in Int /\ IsAt(orders, slot, side, i)
  BY <1>2, PlaceOfOrder DEF IsAt
<1>4. lvl \in PoolLevel
  BY <1>2, <1>3 DEF LevelsType
<1>5. new = UnlinkLevel(links, lvl, slot, qty)
  OBVIOUS
<1> HIDE DEF new, qty, side, i
<1>6. QueueOut(slot, side, i) /\ orders' = WithoutSlot(orders, slot)
  BY <1>1, <1>2, <1>3, <1>4, <1>5, SlotFreed
<1> QED BY <1>3, <1>6 DEF side, i
-----------------------------------------------------------------------------
(***************************************************************************)
(* What the links say of the queues                                        *)
(***************************************************************************)
\* Queue and the free list's Chain read the lists.
LEMMA QueueRead ==
    ASSUME OrdersType(orders), NEW side, NEW i, NEW c,
           QueueIs(c, links, orders, levels, side, i)
    PROVE  Queue(side, i) = c
<1>1. At(orders, side, i) \subseteq Slot
  BY DEF At, OrdersType
<1>2. ChainOf(links, levels[side][i].head) = c
  BY <1>1, ListIsChain DEF QueueIs
<1> QED BY <1>2 DEF Queue, Chain, ChainOf

LEMMA FreeRead ==
    ASSUME NEW c, IsList(c, links, free_head, Slot \ DOMAIN orders)
    PROVE  Chain(free_head) = c
<1>1. ChainOf(links, free_head) = c
  BY ListIsChain
<1> QED BY <1>1 DEF Chain, ChainOf

LEMMA QueueReadAfter ==
    ASSUME OrdersType(orders'), NEW side, NEW i, NEW c,
           QueueIs(c, links', orders', levels', side, i)
    PROVE  Queue(side, i)' = c
<1>1. At(orders', side, i) \subseteq Slot
  BY DEF At, OrdersType
<1>2. ChainOf(links', levels'[side][i].head) = c
  BY <1>1, ListIsChain DEF QueueIs
<1> QED BY <1>2 DEF Queue, Chain, ChainOf

\* Next and prev read the same queue, from either end.
LEMMA WellLinked == BInv => QueuesWellLinked
<1> SUFFICES ASSUME BInv, NEW side \in BookSide, NEW i \in LevelIdx
             PROVE  LET q   == Queue(side, i)
                        lvl == levels[side][i]
                    IN  /\ \A k \in DOMAIN q :
                             links[q[k]].prev = IF k = 1 THEN kNil ELSE q[k - 1]
                        /\ lvl.tail = IF q = <<>> THEN kNil ELSE q[Len(q)]
  BY DEF QueuesWellLinked
<1> DEFINE head == levels[side][i].head
           tail == levels[side][i].tail
           S    == At(orders, side, i)
<1>1. OrdersType(orders) /\ Linked(links, orders, levels)
  BY TypeParts DEF BInv
<1>2. PICK q : QueueIs(q, links, orders, levels, side, i)
  BY DEF BInv, QueuesListed
<1>3. Queue(side, i) = q
  BY <1>1, <1>2, QueueRead
<1>4. IsList(q, links, head, S)
  BY <1>2 DEF QueueIs
<1>5. /\ Len(q) \in Nat /\ DOMAIN q = 1..Len(q) /\ \A k \in 1..Len(q) : q[k] \in S
      /\ Len(q) # 0 => 1 \in 1..Len(q)
  BY <1>4, ListParts
<1>6. /\ head = IF Len(q) = 0 THEN kNil ELSE q[1]
      /\ \A k \in 1..Len(q) : links[q[k]].next = IF k = Len(q) THEN kNil ELSE q[k + 1]
      /\ q = <<>> <=> Len(q) = 0
  <2>1. q \in Seq(S)
    BY <1>4 DEF IsList
  <2>2. q = <<>> <=> Len(q) = 0
    BY <2>1, EmptySeq
  <2> QED BY <2>2, <1>4 DEF IsList
<1>7. /\ head = kNil <=> tail = kNil
      /\ head # kNil => links[head].prev = kNil
  BY <1>1 DEF Linked, LevelLinked
<1>8. \A s \in S : /\ s # kNil
                   /\ links[s].next = kNil => tail = s
                   /\ links[s].next # kNil => links[links[s].next].prev = s
  <2>1. \A s \in S : s \in DOMAIN orders /\ IsAt(orders, s, side, i) /\ s # kNil
    BY <1>1, NilIsNoSlot DEF At, OrdersType
  <2> QED BY <2>1, <1>1 DEF Linked, SlotLinked, IsAt
<1> HIDE DEF head, tail, S
<1>9. ASSUME NEW k \in 1..Len(q)
      PROVE  links[q[k]].prev = IF k = 1 THEN kNil ELSE q[k - 1]
  <2>1. CASE k = 1
    <3>1. Len(q) # 0
      BY <1>5
    <3> QED BY <3>1, <2>1, <1>5, <1>6, <1>7, <1>8
  <2>2. CASE k # 1
    <3>1. k - 1 \in 1..Len(q) /\ k - 1 # Len(q) /\ (k - 1) + 1 = k
      BY <2>2, <1>5
    <3>2. links[q[k - 1]].next = q[k] /\ q[k] # kNil /\ q[k - 1] \in S
      BY <3>1, <1>5, <1>6, <1>8
    <3>3. links[links[q[k - 1]].next].prev = q[k - 1]
      BY <3>2, <1>8
    <3> QED BY <3>2, <3>3, <2>2
  <2> QED BY <2>1, <2>2
<1>10. tail = IF Len(q) = 0 THEN kNil ELSE q[Len(q)]
  <2>1. CASE Len(q) = 0
    BY <2>1, <1>6, <1>7
  <2>2. CASE Len(q) # 0
    <3>1. Len(q) \in 1..Len(q)
      BY <2>2, <1>5
    <3>2. links[q[Len(q)]].next = kNil /\ q[Len(q)] \in S
      BY <3>1, <1>5, <1>6
    <3> QED BY <3>2, <2>2, <1>8
  <2> QED BY <2>1, <2>2
<1> QED BY <1>3, <1>5, <1>6, <1>9, <1>10 DEF tail

\* Every slot is on one list, once.
LEMMA Partitioned == BInv => SlotsPartitioned
<1> SUFFICES ASSUME BInv PROVE SlotsPartitioned
  OBVIOUS
<1>1. OrdersType(orders) /\ DOMAIN orders \subseteq Slot
  BY TypeParts DEF BInv, OrdersType
<1>2. PICK f : IsList(f, links, free_head, Slot \ DOMAIN orders)
  BY DEF BInv, FreeListed, Listed
<1>3. Chain(free_head) = f
  BY <1>2, FreeRead
<1>4. ASSUME NEW s PROVE OnFreeList(s) <=> s \in Slot \ DOMAIN orders
  <2>1. DOMAIN f = 1..Len(f) /\ \A k \in 1..Len(f) : f[k] \in Slot \ DOMAIN orders
    BY <1>2, ListParts
  <2>2. \A t \in Slot \ DOMAIN orders : \E k \in 1..Len(f) : f[k] = t
    BY <1>2 DEF IsList
  <2> QED BY <2>1, <2>2, <1>3 DEF OnFreeList
<1>5. ASSUME NEW side \in BookSide, NEW i \in LevelIdx
      PROVE  /\ \A s : OnQueue(s, side, i) <=> s \in At(orders, side, i)
             /\ Len(Queue(side, i)) = Cardinality(At(orders, side, i))
  <2>1. PICK q : QueueIs(q, links, orders, levels, side, i)
    BY DEF BInv, QueuesListed
  <2>2. Queue(side, i) = q
    BY <1>1, <2>1, QueueRead
  <2>3. /\ DOMAIN q = 1..Len(q) /\ \A k \in 1..Len(q) : q[k] \in At(orders, side, i)
        /\ Cardinality(At(orders, side, i)) = Len(q)
    BY <2>1, ListParts, ListLength DEF QueueIs
  <2>4. \A s \in At(orders, side, i) : \E k \in 1..Len(q) : q[k] = s
    BY <2>1 DEF QueueIs, IsList
  <2> QED BY <2>2, <2>3, <2>4 DEF OnQueue
<1>6. ASSUME NEW s \in DOMAIN orders
      PROVE  {place \in BookSide \X LevelIdx : OnQueue(s, place[1], place[2])} =
                 {<<BookSideOf(orders[s].side), orders[s].level>>}
  <2>1. \A side \in BookSide, i \in LevelIdx :
           OnQueue(s, side, i) <=> side = BookSideOf(orders[s].side) /\ i = orders[s].level
    BY <1>5 DEF At, IsAt
  <2>2. BookSideOf(orders[s].side) \in BookSide /\ orders[s].level \in LevelIdx
    BY <1>1, PlaceOfOrder
  <2> QED BY <2>1, <2>2
<1>7. Len(Chain(free_head)) = kMaxOrders - Cardinality(DOMAIN orders)
  <2>1. Cardinality(Slot \ DOMAIN orders) = Len(f)
    BY <1>2, ListLength
  <2>2. Cardinality(Slot \ DOMAIN orders) = Cardinality(Slot) - Cardinality(Slot \cap DOMAIN orders)
    BY SlotsFinite, FS_Difference
  <2>3. Slot \cap DOMAIN orders = DOMAIN orders
    BY <1>1
  <2> QED BY <2>1, <2>2, <2>3, <1>3, SlotsFinite
<1>8. ASSUME NEW side \in BookSide, NEW i \in LevelIdx
      PROVE  Len(Queue(side, i)) = Cardinality({s \in Slot : OnQueue(s, side, i)})
  <2>1. {s \in Slot : OnQueue(s, side, i)} = At(orders, side, i)
    BY <1>1, <1>5 DEF At
  <2> QED BY <2>1, <1>5
<1> QED BY <1>4, <1>6, <1>7, <1>8 DEF SlotsPartitioned
-----------------------------------------------------------------------------
(***************************************************************************)
(* Counters and totals                                                     *)
(***************************************************************************)
\* The orders of a list of slots.
HeldOf(ord, c) == [k \in DOMAIN c |-> ord[c[k]]]

OfSide(ord, side) == {s \in DOMAIN ord : BookSideOf(ord[s].side) = side}
Counted(ord, counts) == \A side \in BookSide : counts[side] = Cardinality(OfSide(ord, side))
Totalled(lk, ord, lev) ==
    \A side \in BookSide, i \in LevelIdx :
      \E c : /\ QueueIs(c, lk, ord, lev, side, i)
             /\ lev[side][i].total_qty = TotalLeft(HeldOf(ord, c))

Sums == Counted(orders, orders_count) /\ Totalled(links, orders, levels)

\* A level's orders are a list of orders.
LEMMA HeldParts ==
    ASSUME NEW ord, OrdersType(ord), NEW lk, NEW lev, NEW side, NEW i, NEW c,
           QueueIs(c, lk, ord, lev, side, i)
    PROVE  /\ HeldOf(ord, c) \in Seq(PooledOrder) /\ Len(HeldOf(ord, c)) = Len(c)
           /\ \A k \in 1..Len(c) : HeldOf(ord, c)[k] = ord[c[k]] /\ c[k] \in At(ord, side, i)
           /\ Orders(PooledOrder)
<1>1. /\ Len(c) \in Nat /\ DOMAIN c = 1..Len(c) /\ \A k \in 1..Len(c) : c[k] \in At(ord, side, i)
  BY ListParts DEF QueueIs
<1>2. \A k \in 1..Len(c) : ord[c[k]] \in PooledOrder
  BY <1>1, PlaceOfOrder DEF At
<1>3. HeldOf(ord, c) \in [1..Len(c) -> PooledOrder]
  BY <1>1, <1>2 DEF HeldOf
<1>4. HeldOf(ord, c) \in Seq(PooledOrder)
  BY <1>1, <1>3, SeqDef
<1>5. Len(HeldOf(ord, c)) = Len(c)
  BY <1>1, <1>3, <1>4, LenProperties
<1>6. Orders(PooledOrder)
  BY DEF Orders, PooledOrder
<1> QED BY <1>1, <1>3, <1>4, <1>5, <1>6 DEF HeldOf

\* Orders that stay as they are.
LEMMA HeldKept ==
    ASSUME NEW ord, NEW lk, NEW lev, NEW side, NEW i, NEW c,
           QueueIs(c, lk, ord, lev, side, i),
           NEW ord2, \A s \in At(ord, side, i) : ord2[s] = ord[s]
    PROVE  HeldOf(ord2, c) = HeldOf(ord, c)
<1>1. DOMAIN c = 1..Len(c) /\ \A k \in 1..Len(c) : c[k] \in At(ord, side, i)
  BY ListParts DEF QueueIs
<1> QED BY <1>1 DEF HeldOf

\* Counter and totals are what TotalsAgree says.
LEMMA SumsAgree == BInv /\ Sums => TotalsAgree
<1> SUFFICES ASSUME BInv, Sums, NEW side \in BookSide
             PROVE  /\ orders_count[side] =
                         Cardinality({s \in DOMAIN orders : BookSideOf(orders[s].side) = side})
                    /\ \A i \in LevelIdx : levels[side][i].total_qty = TotalLeft(Held(side, i))
  BY DEF TotalsAgree
<1>1. ASSUME NEW i \in LevelIdx
      PROVE  levels[side][i].total_qty = TotalLeft(Held(side, i))
  <2>1. PICK c : /\ QueueIs(c, links, orders, levels, side, i)
                 /\ levels[side][i].total_qty = TotalLeft(HeldOf(orders, c))
    BY DEF Sums, Totalled
  <2>2. Queue(side, i) = c
    BY <2>1, TypeParts, QueueRead DEF BInv
  <2> QED BY <2>1, <2>2 DEF Held, HeldOf
<1> QED BY <1>1 DEF Sums, Counted, OfSide

\* The empty book counts nothing.
LEMMA SumsAtFirst == BookInit => Sums
<1> SUFFICES ASSUME BookInit PROVE Sums
  OBVIOUS
<1>1. /\ DOMAIN orders = {} /\ \A side \in BookSide : orders_count[side] = 0
      /\ \A side \in BookSide, i \in LevelIdx :
           levels[side][i].total_qty = 0 /\ levels[side][i].head = kNil
  BY DEF BookInit, PoolInit, EmptyLevel
<1>2. Counted(orders, orders_count)
  <2>1. \A side \in BookSide : OfSide(orders, side) = {}
    BY <1>1 DEF OfSide
  <2> QED BY <2>1, <1>1, FS_EmptySet DEF Counted
<1>3. Totalled(links, orders, levels)
  <2> SUFFICES ASSUME NEW side \in BookSide, NEW i \in LevelIdx
               PROVE  /\ QueueIs(<<>>, links, orders, levels, side, i)
                      /\ levels[side][i].total_qty = TotalLeft(HeldOf(orders, <<>>))
    BY DEF Totalled
  <2>1. At(orders, side, i) = {}
    BY <1>1 DEF At
  <2>2. QueueIs(<<>>, links, orders, levels, side, i)
    BY <2>1, <1>1, ListOfNone DEF QueueIs
  <2>3. HeldOf(orders, <<>>) = <<>>
    BY DEF HeldOf
  <2>4. TotalLeft(<<>>) = 0
    <3>1. <<>> \in Seq(PooledOrder) /\ Orders(PooledOrder)
      BY EmptySeq DEF Orders, PooledOrder
    <3> QED BY <3>1, LeftType
  <2> QED BY <2>2, <2>3, <2>4, <1>1
<1> QED BY <1>2, <1>3 DEF Sums

\* One less on the side, and qty less on the level.
TakenOff(side, i, qty) ==
    /\ orders_count' = [orders_count EXCEPT ![side] = @ - 1]
    /\ levels'[side][i].total_qty = levels[side][i].total_qty - qty

\* An order that leaves takes one off the counter of its side, and what it
\* had left off the total of its level.
LEMMA SumsOut ==
    ASSUME OrdersType(orders), levels \in LevelsType, orders_count \in [BookSide -> Int], Sums,
           NEW slot \in DOMAIN orders, NEW side, NEW i, IsAt(orders, slot, side, i),
           QueueOut(slot, side, i), orders' = WithoutSlot(orders, slot),
           \A other \in BookSide, j \in LevelIdx :
              other # side \/ j # i => levels'[other][j] = levels[other][j],
           TakenOff(side, i, orders[slot].remainQty)
    PROVE  Sums'
<1>0. /\ orders_count' = [orders_count EXCEPT ![side] = @ - 1]
      /\ levels'[side][i].total_qty = levels[side][i].total_qty - orders[slot].remainQty
  BY DEF TakenOff
<1>1. /\ side \in BookSide /\ i \in LevelIdx /\ DOMAIN orders \subseteq Slot
      /\ DOMAIN orders' = DOMAIN orders \ {slot} /\ \A s \in DOMAIN orders' : orders'[s] = orders[s]
  BY PlaceOfOrder DEF IsAt, WithoutSlot, OrdersType
<1>2. Counted(orders', orders_count')
  <2>1. \A other \in BookSide : OfSide(orders', other) = OfSide(orders, other) \ {slot}
    BY <1>1 DEF OfSide
  <2>2. \A other \in BookSide : IsFiniteSet(OfSide(orders, other))
    BY <1>1, SlotsFinite, FS_Subset DEF OfSide
  <2>3. slot \in OfSide(orders, side) /\ \A other \in BookSide : other # side => slot \notin OfSide(orders, other)
    BY DEF OfSide, IsAt
  <2>4. Cardinality(OfSide(orders', side)) = Cardinality(OfSide(orders, side)) - 1
    BY <1>1, <2>1, <2>2, <2>3, FS_RemoveElement
  <2>5. \A other \in BookSide : other # side => OfSide(orders', other) = OfSide(orders, other)
    BY <2>1, <2>3
  <2> QED BY <2>4, <2>5, <1>0, <1>1 DEF Sums, Counted
<1>3. ASSUME NEW other \in BookSide, NEW j \in LevelIdx
      PROVE  \E d : /\ QueueIs(d, links', orders', levels', other, j)
                    /\ levels'[other][j].total_qty = TotalLeft(HeldOf(orders', d))
  <2>1. PICK c : /\ QueueIs(c, links, orders, levels, other, j)
                 /\ levels[other][j].total_qty = TotalLeft(HeldOf(orders, c))
    BY DEF Sums, Totalled
  <2>2. CASE other # side \/ j # i
    <3>1. QueueIs(c, links', orders', levels', other, j)
      BY <2>1, <2>2 DEF QueueOut
    <3>2. \A s \in At(orders, other, j) : orders'[s] = orders[s]
      BY <1>1, <2>2 DEF At, IsAt
    <3>3. HeldOf(orders', c) = HeldOf(orders, c)
      BY <3>2, <2>1, HeldKept
    <3> QED BY <3>1, <3>3, <2>1, <2>2
  <2>3. CASE other = side /\ j = i
    <3>1. PICK k \in 1..Len(c) :
             /\ c[k] = slot
             /\ \E d : Without(d, c, k) /\ QueueIs(d, links', orders', levels', other, j)
      BY <2>1, <2>3 DEF QueueOut
    <3>2. PICK d : Without(d, c, k) /\ QueueIs(d, links', orders', levels', other, j)
      BY <3>1
    <3> DEFINE h  == HeldOf(orders, c)
               h2 == HeldOf(orders', d)
    <3>3. /\ h \in Seq(PooledOrder) /\ Len(h) = Len(c) /\ Orders(PooledOrder)
          /\ \A m \in 1..Len(c) : h[m] = orders[c[m]]
      BY <2>1, HeldParts
    <3>4. OrdersType(orders')
      BY <1>1 DEF OrdersType, WithoutSlot
    <3>5. /\ h2 \in Seq(PooledOrder) /\ Len(h2) = Len(d)
          /\ \A m \in 1..Len(d) : h2[m] = orders'[d[m]] /\ d[m] \in At(orders', other, j)
      BY <3>2, <3>4, HeldParts
    <3> HIDE DEF h, h2
    <3>6. Without(h2, h, k)
      <4>1. Len(d) = Len(c) - 1 /\ Len(c) \in Nat
        BY <2>1, <3>2, ListParts DEF Without, QueueIs
      <4>2. ASSUME NEW m \in 1..Len(d)
            PROVE  h2[m] = IF m < k THEN h[m] ELSE h[m + 1]
        <5>1. d[m] = (IF m < k THEN c[m] ELSE c[m + 1]) /\ m \in 1..Len(c) /\ m + 1 \in 1..Len(c)
          BY <3>2, <4>1 DEF Without
        <5>2. h2[m] = orders[d[m]]
          BY <3>5, <1>1 DEF At
        <5> QED BY <5>1, <5>2, <3>3
      <4> QED BY <4>1, <4>2, <3>3, <3>5 DEF Without
    <3>7. TotalLeft(h2) = TotalLeft(h) - h[k].remainQty
      BY <3>3, <3>5, <3>6, LeftWithout
    <3>8. h[k] = orders[slot]
      BY <3>1, <3>3
    <3> QED BY <3>2, <3>7, <3>8, <2>1, <2>3, <1>0 DEF h, h2
  <2> QED BY <2>2, <2>3
<1>4. Totalled(links', orders', levels')
  BY <1>3 DEF Totalled
<1> QED BY <1>2, <1>4 DEF Sums

\* The total goes down as what is left of an order does.
LoweredTo(side, i, had, has) ==
    levels'[side][i].total_qty = levels[side][i].total_qty - had + has

\* A trade that leaves the head of the level with something takes what is
\* traded off both.
LEMMA SumsLowered ==
    ASSUME OrdersType(orders), OrdersType(orders'), Sums,
           NEW slot \in DOMAIN orders, NEW side \in BookSide, NEW i \in LevelIdx,
           levels[side][i].head = slot, slot # kNil, DOMAIN orders' = DOMAIN orders,
           \A s \in DOMAIN orders :
              /\ orders'[s].side = orders[s].side /\ orders'[s].level = orders[s].level
              /\ s # slot => orders'[s] = orders[s],
           links' = links, orders_count' = orders_count,
           \A other \in BookSide, j \in LevelIdx :
              /\ levels'[other][j].head = levels[other][j].head
              /\ other # side \/ j # i => levels'[other][j] = levels[other][j],
           LoweredTo(side, i, orders[slot].remainQty, orders'[slot].remainQty)
    PROVE  Sums'
<1>1. Counted(orders', orders_count')
  <2>1. \A other : OfSide(orders', other) = OfSide(orders, other)
    BY DEF OfSide
  <2> QED BY <2>1 DEF Sums, Counted
<1>2. ASSUME NEW other \in BookSide, NEW j \in LevelIdx
      PROVE  \E c : /\ QueueIs(c, links', orders', levels', other, j)
                    /\ levels'[other][j].total_qty = TotalLeft(HeldOf(orders', c))
  <2>1. PICK c : /\ QueueIs(c, links, orders, levels, other, j)
                 /\ levels[other][j].total_qty = TotalLeft(HeldOf(orders, c))
    BY DEF Sums, Totalled
  <2>2. QueueIs(c, links, orders', levels', other, j)
    BY <2>1, QueuesByPlace
  <2> DEFINE h  == HeldOf(orders, c)
             h2 == HeldOf(orders', c)
  <2>3. /\ h \in Seq(PooledOrder) /\ Len(h) = Len(c) /\ Orders(PooledOrder)
        /\ \A m \in 1..Len(c) : h[m] = orders[c[m]] /\ c[m] \in At(orders, other, j)
    BY <2>1, HeldParts
  <2>4. /\ h2 \in Seq(PooledOrder) /\ Len(h2) = Len(c)
        /\ \A m \in 1..Len(c) : h2[m] = orders'[c[m]]
    BY <2>2, HeldParts
  <2>5. levels[other][j].total_qty = TotalLeft(h)
    BY <2>1
  <2> HIDE DEF h, h2
  <2>6. CASE other # side \/ j # i
    <3>1. \A s \in At(orders, other, j) : orders'[s] = orders[s]
      <4>1. slot \notin At(orders, other, j)
        <5>1. QueueIs(c, links, orders, levels, other, j) /\ slot \in At(orders, side, i)
          <6>1. PICK d : QueueIs(d, links, orders, levels, side, i)
            BY DEF Sums, Totalled
          <6>2. slot \in At(orders, side, i)
            <7>1. Len(d) # 0 /\ d[1] = slot
              BY <6>1 DEF QueueIs, IsList
            <7> QED BY <7>1, <6>1, ListParts DEF QueueIs
          <6> QED BY <2>1, <6>2
        <5> QED BY <5>1, <2>6 DEF At, IsAt
      <4> QED BY <4>1 DEF At
    <3>2. HeldOf(orders', c) = HeldOf(orders, c)
      BY <3>1, <2>1, HeldKept
    <3> QED BY <3>2, <2>1, <2>2, <2>6
  <2>7. CASE other = side /\ j = i
    <3>1. Len(c) # 0 /\ c[1] = slot /\ 1 \in 1..Len(c) /\ Len(c) \in Nat
      <4>1. levels[other][j].head = slot /\ slot # kNil
        BY <2>7
      <4>2. levels[other][j].head = IF Len(c) = 0 THEN kNil ELSE c[1]
        BY <2>1 DEF QueueIs, IsList
      <4>3. Len(c) # 0
        BY <4>1, <4>2
      <4> QED BY <4>1, <4>2, <4>3, <2>1, ListParts DEF QueueIs
    <3>2. \A k, m \in 1..Len(c) : c[k] = c[m] => k = m
      BY <2>1 DEF QueueIs, IsList
    <3>3. h # <<>> /\ Head(h) = orders[slot]
      BY <3>1, <2>3, EmptySeq, HeadTailProperties
    <3>4. h2[1] = orders'[slot] /\ orders'[slot] \in PooledOrder
      BY <3>1, <2>4, PlaceOfOrder
    <3>5. [h EXCEPT ![1] = orders'[slot]] = h2
      <4>1. \A m \in 1..Len(c) : m # 1 => h2[m] = h[m]
        BY <3>1, <3>2, <2>3, <2>4 DEF At
      <4>2. h = [m \in 1..Len(c) |-> h[m]] /\ h2 = [m \in 1..Len(c) |-> h2[m]]
        BY <2>3, <2>4, SeqDef, LenProperties
      <4> QED BY <4>1, <4>2, <3>4
    <3>6. TotalLeft([h EXCEPT ![1] = orders'[slot]]) =
              TotalLeft(h) - Head(h).remainQty + orders'[slot].remainQty
      BY <3>3, <3>4, <2>3, LeftFront
    <3>7. TotalLeft(h2) = TotalLeft(h) - orders[slot].remainQty + orders'[slot].remainQty
      BY <3>3, <3>5, <3>6
    <3> QED BY <3>7, <2>2, <2>5, <2>7 DEF h2, LoweredTo
  <2> QED BY <2>6, <2>7
<1>3. Totalled(links', orders', levels')
  BY <1>2 DEF Totalled
<1> QED BY <1>1, <1>3 DEF Sums

\* An order that joins adds one to the counter of its side, and what it has
\* left to the total of its level.
LEMMA SumsIn ==
    ASSUME OrdersType(orders), levels \in LevelsType, orders_count \in [BookSide -> Int], Sums,
           NEW slot \in Slot \ DOMAIN orders, NEW o \in PooledOrder,
           NEW side \in BookSide, NEW i \in LevelIdx, BookSideOf(o.side) = side, o.level = i,
           QueuePushed(slot, side, i), orders' = WithSlot(orders, slot, o),
           \A other \in BookSide, j \in LevelIdx :
              other # side \/ j # i => levels'[other][j] = levels[other][j],
           levels'[side][i].total_qty = levels[side][i].total_qty + o.remainQty,
           orders_count' = [orders_count EXCEPT ![side] = @ + 1]
    PROVE  Sums'
<1>1. /\ DOMAIN orders \subseteq Slot /\ DOMAIN orders' = DOMAIN orders \cup {slot}
      /\ orders'[slot] = o /\ \A s \in DOMAIN orders : orders'[s] = orders[s] /\ s # slot
  BY DEF WithSlot, OrdersType
<1>2. Counted(orders', orders_count')
  <2>1. /\ OfSide(orders', side) = OfSide(orders, side) \cup {slot}
        /\ \A other \in BookSide : other # side => OfSide(orders', other) = OfSide(orders, other)
    BY <1>1 DEF OfSide
  <2>2. IsFiniteSet(OfSide(orders, side)) /\ slot \notin OfSide(orders, side)
    BY <1>1, SlotsFinite, FS_Subset DEF OfSide
  <2>3. Cardinality(OfSide(orders', side)) = Cardinality(OfSide(orders, side)) + 1
    <3>1. Cardinality(OfSide(orders, side) \cup {slot}) = Cardinality(OfSide(orders, side)) + 1
      BY <2>2, FS_AddElement
    <3> QED BY <3>1, <2>1
  <2> QED BY <2>1, <2>3 DEF Sums, Counted
<1>3. ASSUME NEW other \in BookSide, NEW j \in LevelIdx
      PROVE  \E d : /\ QueueIs(d, links', orders', levels', other, j)
                    /\ levels'[other][j].total_qty = TotalLeft(HeldOf(orders', d))
  <2>1. PICK c : /\ QueueIs(c, links, orders, levels, other, j)
                 /\ levels[other][j].total_qty = TotalLeft(HeldOf(orders, c))
    BY DEF Sums, Totalled
  <2>2. HeldOf(orders', c) = HeldOf(orders, c)
    <3>1. \A s \in At(orders, other, j) : orders'[s] = orders[s]
      BY <1>1 DEF At
    <3> QED BY <3>1, <2>1, HeldKept
  <2>3. CASE other # side \/ j # i
    <3>1. QueueIs(c, links', orders', levels', other, j)
      BY <2>1, <2>3 DEF QueuePushed
    <3> QED BY <3>1, <2>1, <2>2, <2>3
  <2>4. CASE other = side /\ j = i
    <3>1. QueueIs(Append(c, slot), links', orders', levels', other, j)
      BY <2>1, <2>4 DEF QueuePushed
    <3>2. HeldOf(orders', Append(c, slot)) = Append(HeldOf(orders, c), o)
      <4> DEFINE T == At(orders, other, j) \cup {slot}
                 h == HeldOf(orders, c)
                 d == Append(c, slot)
                 g == HeldOf(orders', d)
      <4>1. c \in Seq(T) /\ slot \in T
        <5>1. c \in Seq(At(orders, other, j))
          BY <2>1 DEF QueueIs, IsList
        <5> QED BY <5>1, SeqDef
      <4>2. /\ d \in Seq(T) /\ Len(d) = Len(c) + 1 /\ d[Len(d)] = slot
            /\ \A m \in 1..Len(c) : d[m] = c[m]
        BY <4>1, AppendProperties
      <4>3. /\ h \in Seq(PooledOrder) /\ Len(h) = Len(c)
            /\ \A m \in 1..Len(c) : h[m] = orders[c[m]] /\ c[m] \in At(orders, other, j)
        BY <2>1, HeldParts
      <4>4. /\ Append(h, o) \in Seq(PooledOrder) /\ Len(Append(h, o)) = Len(c) + 1
            /\ Append(h, o)[Len(c) + 1] = o
            /\ \A m \in 1..Len(c) : Append(h, o)[m] = h[m]
        BY <4>3, AppendProperties
      <4>5. DOMAIN d = 1..Len(d) /\ Len(c) \in Nat
        BY <4>1, <4>2, LenProperties
      <4>6. g = [m \in 1..(Len(c) + 1) |-> orders'[d[m]]]
        BY <4>2, <4>5 DEF HeldOf
      <4> DEFINE a == Append(h, o)
                 n == Len(c)
      <4>7. a = [m \in 1..(n + 1) |-> a[m]]
        BY <4>4, SeqDef, LenProperties
      <4>8. ASSUME NEW m \in 1..(n + 1) PROVE a[m] = orders'[d[m]]
        <5>1. CASE m = n + 1
          BY <5>1, <4>2, <4>4, <1>1
        <5>2. CASE m # n + 1
          <6>1. m \in 1..n
            BY <5>2, <4>5
          <6> QED BY <6>1, <4>2, <4>3, <4>4, <1>1 DEF At
        <5> QED BY <5>1, <5>2
      <4> HIDE DEF a, g, d, h, n
      <4>9. [m \in 1..(n + 1) |-> a[m]] = [m \in 1..(n + 1) |-> orders'[d[m]]]
        BY <4>8
      <4>10. g = a
        BY <4>6, <4>7, <4>9 DEF n
      <4> QED BY <4>10 DEF g, a, d, h
    <3>3. TotalLeft(Append(HeldOf(orders, c), o)) = TotalLeft(HeldOf(orders, c)) + o.remainQty
      BY <2>1, HeldParts, LeftMore
    <3> QED BY <3>1, <3>2, <3>3, <2>1, <2>4
  <2> QED BY <2>3, <2>4
<1>4. Totalled(links', orders', levels')
  BY <1>3 DEF Totalled
<1> QED BY <1>2, <1>4 DEF Sums

\* The steps that leave pool and levels alone.
LEMMA SumsKept == ASSUME Sums, UNCHANGED <<pool, book>> PROVE Sums'
<1>1. /\ levels' = levels /\ orders_count' = orders_count
      /\ links' = links /\ orders' = orders
  BY DEF pool, book
<1> QED BY <1>1 DEF Sums

\* A trade: what is filled and what is left of the order make up what it had.
LEMMA SumsTrade == ASSUME BInv, Sums, TradeWithFront PROVE Sums'
<1> DEFINE side   == Opposite(ownSide)
           traded == [levels[side][cur] EXCEPT !.total_qty = @ - fillQty]
           gone   == UnlinkLevel(links, traded, top, left)
<1>1. /\ pc = "level" /\ remaining > 0 /\ top # kNil
      /\ Spent => /\ levels' = WithLevel(levels, side, cur, gone)
                  /\ orders_count' = [orders_count EXCEPT ![side] = @ - 1]
      /\ ~Spent => /\ levels' = WithLevel(levels, side, cur, traded)
                   /\ orders_count' = orders_count
  BY DEF TradeWithFront, WithLevel
<1>2. /\ side \in BookSide /\ cur \in LevelIdx
      /\ top \in DOMAIN orders /\ IsAt(orders, top, side, cur)
      /\ orders[top] \in PooledOrder /\ orders[top].remainQty \in Nat
      /\ fillQty \in Nat \ {0} /\ left \in Nat /\ left = orders[top].remainQty - fillQty
  <2>1. /\ side \in BookSide /\ cur \in LevelIdx
        /\ top \in DOMAIN orders /\ IsAt(orders, top, side, cur)
        /\ orders[top] \in PooledOrder /\ fillQty \in Nat \ {0} /\ left \in Nat
    BY <1>1, FrontOfLevel
  <2> QED BY <2>1 DEF left, PooledOrder
<1>3. /\ links \in LinksType /\ OrdersType(orders)
      /\ levels \in LevelsType /\ orders_count \in [BookSide -> Int]
      /\ top = levels[side][cur].head
  BY TypeParts DEF BInv, top
<1>4. /\ Spent => orders' = WithoutSlot(orders, top) /\ QueueOut(top, side, cur)
      /\ ~Spent => /\ DOMAIN orders' = DOMAIN orders /\ links' = links
                   /\ \A s \in DOMAIN orders : s # top => orders'[s] = orders[s]
                   /\ orders'[top] = [orders[top] EXCEPT !.remainQty = left]
                   /\ \A other \in BookSide, j \in LevelIdx :
                        levels'[other][j].head = levels[other][j].head
  BY QueuesAfterTrade
<1>5. OrdersType(orders')
  BY TradeStep DEF BInv, BookTypeOK, PoolTypeOK, OrdersType
<1> HIDE DEF side
<1>6. levels[side][cur] \in PoolLevel /\ levels[side][cur].total_qty \in Int
  BY <1>2, <1>3 DEF LevelsType, PoolLevel
<1>7. /\ traded \in PoolLevel
      /\ traded.total_qty = levels[side][cur].total_qty - fillQty
  <2> HIDE DEF fillQty
  <2> QED BY <1>2, <1>6 DEF PoolLevel
<1> DEFINE total == levels[side][cur].total_qty
           had   == orders[top].remainQty
<1>8. total - fillQty - left = total - had /\ total - fillQty = total - had + left
  <2>1. total \in Int /\ had \in Int /\ fillQty \in Int /\ left \in Int /\ left = had - fillQty
    BY <1>2, <1>6
  <2> HIDE DEF total, had, fillQty, left
  <2> QED BY <2>1
<1> HIDE DEF traded, fillQty
<1>9. CASE Spent
  <2>1. levels' = WithLevel(levels, side, cur, gone)
        /\ orders_count' = [orders_count EXCEPT ![side] = @ - 1]
    BY <1>1, <1>9
  <2>2. gone.total_qty = total - had
    <3>1. gone.total_qty = traded.total_qty - left
      BY DEF UnlinkLevel
    <3> QED BY <3>1, <1>7, <1>8
  <2>3. gone \in PoolLevel
    <3>1. left \in Int /\ top \in Slot
      BY <1>2, <1>3, PlaceOfOrder
    <3> HIDE DEF left
    <3> QED BY <3>1, <1>3, <1>7, UnlinkEnds
  <2> HIDE DEF gone
  <2>4. /\ levels'[side][cur] = gone
        /\ \A other \in BookSide, j \in LevelIdx :
             other # side \/ j # cur => levels'[other][j] = levels[other][j]
    BY <2>1, <2>3, <1>2, <1>3, SetLevel
  <2>5. TakenOff(side, cur, orders[top].remainQty)
    BY <2>1, <2>2, <2>4 DEF TakenOff
  <2>6. QueueOut(top, side, cur) /\ orders' = WithoutSlot(orders, top)
    BY <1>4, <1>9
  <2> HIDE DEF top, cur
  <2> QED BY ONLY Sums, <2>4, <2>5, <2>6, <1>2, <1>3, SumsOut
<1>10. CASE ~Spent
  <2>1. /\ levels' = WithLevel(levels, side, cur, traded)
        /\ orders'[top] = [orders[top] EXCEPT !.remainQty = left]
    BY <1>1, <1>4, <1>10
  <2>2. DOMAIN orders' = DOMAIN orders /\ links' = links /\ orders_count' = orders_count
    BY <1>1, <1>4, <1>10
  <2>3. /\ levels'[side][cur] = traded
        /\ \A other \in BookSide, j \in LevelIdx :
             other # side \/ j # cur => levels'[other][j] = levels[other][j]
    BY <2>1, <1>2, <1>3, <1>7, SetLevel
  <2> HIDE DEF left
  <2>4. /\ orders'[top].remainQty = left /\ orders'[top].side = orders[top].side
        /\ orders'[top].level = orders[top].level
    BY <2>1, <1>2 DEF PooledOrder
  <2>5. \A s \in DOMAIN orders :
           /\ orders'[s].side = orders[s].side /\ orders'[s].level = orders[s].level
           /\ s # top => orders'[s] = orders[s]
    BY <2>4, <1>4, <1>10
  <2>6. LoweredTo(side, cur, orders[top].remainQty, orders'[top].remainQty)
    BY <2>3, <2>4, <1>7, <1>8 DEF LoweredTo
  <2>7. top # kNil /\ top \in DOMAIN orders /\ levels[side][cur].head = top
    BY <1>1, <1>2, <1>3
  <2>8. \A other \in BookSide, j \in LevelIdx :
           /\ levels'[other][j].head = levels[other][j].head
           /\ other # side \/ j # cur => levels'[other][j] = levels[other][j]
    BY <2>3, <1>4, <1>10
  <2>9. side \in BookSide /\ cur \in LevelIdx /\ OrdersType(orders) /\ OrdersType(orders')
    BY <1>2, <1>3, <1>5
  <2> HIDE DEF top, cur
  <2> QED BY ONLY Sums, <2>2, <2>5, <2>6, <2>7, <2>8, <2>9, SumsLowered
<1> QED BY <1>9, <1>10

\* What is left of an order rests.
LEMMA SumsRest == ASSUME BInv, Sums, RestInSlot PROVE Sums'
<1> DEFINE i   == index(req.limit_price)
           o   == [ref |-> req.ref, remainQty |-> remaining, level |-> i, side |-> req.side]
           lvl == levels[ownSide][i]
<1>1. /\ levels' = WithLevel(levels, ownSide, i, PushBackLevel(lvl, free_head, remaining))
      /\ orders_count' = [orders_count EXCEPT ![ownSide] = @ + 1]
  BY DEF RestInSlot, WithLevel
<1>2. /\ i \in LevelIdx /\ ownSide \in BookSide
      /\ free_head \in Slot \ DOMAIN orders
      /\ orders' = WithSlot(orders, free_head, o)
      /\ OrdersType(orders')
      /\ \A other \in BookSide, j \in LevelIdx :
           other # ownSide \/ j # i => levels'[other][j] = levels[other][j]
      /\ QueuePushed(free_head, ownSide, i)
  BY SlotTaken
<1>3. OrdersType(orders) /\ levels \in LevelsType /\ orders_count \in [BookSide -> Int]
  BY TypeParts DEF BInv
<1>4. BookSideOf(o.side) = ownSide /\ o.level = i /\ o.remainQty = remaining
  BY DEF ownSide
<1>5. o \in PooledOrder
  <2>1. orders'[free_head] = o /\ free_head \in DOMAIN orders'
    BY <1>2 DEF WithSlot
  <2> QED BY <2>1, <1>2 DEF OrdersType
<1> HIDE DEF o, i
<1>6. levels'[ownSide][i].total_qty = levels[ownSide][i].total_qty + o.remainQty
  <2>1. levels'[ownSide][i] = PushBackLevel(lvl, free_head, remaining)
    BY <1>1, <1>2, <1>3 DEF WithLevel, LevelsType
  <2> QED BY <2>1, <1>4 DEF PushBackLevel
<1> QED BY <1>1, <1>2, <1>3, <1>4, <1>5, <1>6, SumsIn

\* cancel.
LEMMA SumsRemove == ASSUME BInv, Sums, NEW slot \in DOMAIN orders, RemoveOrder(slot) PROVE Sums'
<1> DEFINE o    == orders[slot]
           side == BookSideOf(o.side)
           i    == o.level
           lvl  == levels[side][i]
           new  == UnlinkLevel(links, lvl, slot, o.remainQty)
<1>1. /\ levels' = WithLevel(levels, side, i, new)
      /\ orders_count' = [orders_count EXCEPT ![side] = @ - 1]
  BY DEF RemoveOrder, WithLevel
<1>2. /\ links \in LinksType /\ OrdersType(orders)
      /\ levels \in LevelsType /\ orders_count \in [BookSide -> Int]
  BY TypeParts DEF BInv
<1>3. /\ side \in BookSide /\ i \in LevelIdx /\ IsAt(orders, slot, side, i)
      /\ orders' = WithoutSlot(orders, slot) /\ QueueOut(slot, side, i)
  BY QueuesAfterRemove
<1>4. lvl \in PoolLevel /\ slot \in Slot /\ o.remainQty \in Int
  BY <1>2, <1>3, PlaceOfOrder DEF LevelsType
<1>5. new.total_qty = levels[side][i].total_qty - orders[slot].remainQty
  BY DEF UnlinkLevel
<1>6. new \in PoolLevel
  <2> HIDE DEF lvl
  <2> QED BY <1>2, <1>4, UnlinkEnds
<1> HIDE DEF new, side, i
<1>7. /\ levels'[side][i] = new
      /\ \A other \in BookSide, j \in LevelIdx :
           other # side \/ j # i => levels'[other][j] = levels[other][j]
  BY <1>1, <1>2, <1>3, <1>6, SetLevel
<1>8. TakenOff(side, i, orders[slot].remainQty)
  BY <1>1, <1>5, <1>7 DEF TakenOff
<1> QED BY ONLY Sums, slot \in DOMAIN orders, <1>2, <1>3, <1>7, <1>8, SumsOut
=============================================================================
