------------------------------- MODULE RefTable -------------------------------
(***************************************************************************)
(* The ref table of FlatOrderBook: reference -> slot, by open addressing   *)
(* in a fixed array.  A walk starts at the home entry of the ref and looks *)
(* at kRefTableSize entries at most.  An entry that is erased becomes a    *)
(* tombstone and keeps its ref and slot.                                   *)
(***************************************************************************)
EXTENDS Integers, FiniteSets, FiniteSetsExt

CONSTANT kRefTableSize  \* entries; as the result of a search, "absent"

ASSUME TableAssumption == kRefTableSize \in Nat \ {0}

VARIABLES ref_table,       \* the entries
          ref_live,        \* how many are Occupied
          ref_tombstones   \* how many are Tombstones

table == <<ref_table, ref_live, ref_tombstones>>

EntryIdx == 0..(kRefTableSize - 1)
RefEntryState == {"Empty", "Occupied", "Tombstone"}
InState(s) == {h \in EntryIdx : ref_table[h].state = s}

TableInit ==
    /\ ref_table = [h \in EntryIdx |-> [ref |-> 0, slot |-> 0, state |-> "Empty"]]
    /\ ref_live = 0
    /\ ref_tombstones = 0

\* The n-th entry of a ref's walk, and the first entry on it that is in E.
probe(ref, n) == (ref + n) % kRefTableSize
FirstOn(ref, E) ==
    LET hits == {n \in EntryIdx : probe(ref, n) \in E}
    IN  IF hits = {} THEN kRefTableSize ELSE probe(ref, Min(hits))

\* Mutant of Holding: the ref of a tombstone is compared too.
HoldingOrHeld(ref) ==
    {h \in EntryIdx : ref_table[h].state # "Empty" /\ ref_table[h].ref = ref}

\* Where ref lives in the table: one entry at most, as WalksUnbroken says.
Holding(ref) == {h \in EntryIdx : ref_table[h].state = "Occupied" /\ ref_table[h].ref = ref}

\* Mutant of EndOfSearch: a search stops at a tombstone.
EndOfSearchAtTombstone(ref) ==
    FirstOn(ref, InState("Empty") \cup InState("Tombstone") \cup Holding(ref))

\* The walk of ref_find and of ref_erase ends at the first entry that is Empty
\* or holds the ref; it goes past the tombstones.
EndOfSearch(ref) == FirstOn(ref, InState("Empty") \cup Holding(ref))

ref_find(ref) ==
    LET h == EndOfSearch(ref) IN IF h \in Holding(ref) THEN h ELSE kRefTableSize

\* The walk of ref_insert ends at the first entry that is not Occupied.
FreeEntry(ref) == FirstOn(ref, InState("Empty") \cup InState("Tombstone"))

\* Mutant of ref_insert: a tombstone that is reused is still counted.
ref_insert_tombstone_counted(ref, slot) ==
    /\ ref_table' = [ref_table EXCEPT ![FreeEntry(ref)] =
           [ref |-> ref, slot |-> slot, state |-> "Occupied"]]
    /\ ref_live' = ref_live + 1
    /\ UNCHANGED ref_tombstones

\* ref_insert where there is a free entry: it returns true.
ref_insert(ref, slot) ==
    LET h == FreeEntry(ref)
    IN  /\ ref_table' = [ref_table EXCEPT ![h] =
               [ref |-> ref, slot |-> slot, state |-> "Occupied"]]
        /\ ref_live' = ref_live + 1
        /\ ref_tombstones' =
               IF ref_table[h].state = "Tombstone" THEN ref_tombstones - 1 ELSE ref_tombstones

\* Mutant of ref_erase: the entry is emptied, which breaks the walks through it.
ref_erase_to_empty(ref) ==
    /\ ref_find(ref) # kRefTableSize
    /\ ref_table' = [ref_table EXCEPT ![ref_find(ref)].state = "Empty"]
    /\ ref_live' = ref_live - 1
    /\ UNCHANGED ref_tombstones

ref_erase(ref) ==
    LET h == ref_find(ref)
    IN  IF h = kRefTableSize THEN UNCHANGED table
        ELSE /\ ref_table' = [ref_table EXCEPT ![h].state = "Tombstone"]
             /\ ref_live' = ref_live - 1
             /\ ref_tombstones' = ref_tombstones + 1
-----------------------------------------------------------------------------
\* No walk is broken: on the way from its home to the entry that holds it, a
\* ref meets no Empty entry and no entry that holds it too.
WalksUnbroken ==
    \A h \in InState("Occupied") :
        LET ref == ref_table[h].ref
        IN  \E n \in EntryIdx :
              /\ h = probe(ref, n)
              /\ \A k \in EntryIdx : k < n =>
                   probe(ref, k) \notin InState("Empty") \cup Holding(ref)

\* The two counters count what their names say.
CountersAgree ==
    /\ ref_live = Cardinality(InState("Occupied"))
    /\ ref_tombstones = Cardinality(InState("Tombstone"))
=============================================================================
