------------------------------- MODULE Bitmap --------------------------------
(***************************************************************************)
(* The occupancy bitmap of ArrayOrderBook and FlatOrderBook: one bit per   *)
(* level, in words of kWordBits bits (64 in the code).  A bitmap is a      *)
(* function from words to the set of bits that are 1 in each.              *)
(***************************************************************************)
EXTENDS Integers, FiniteSetsExt

CONSTANTS kLevels,   \* number of levels; as an index, "none"
          kWordBits  \* bits in a word

ASSUME BitmapAssumption ==
    kWordBits \in Nat \ {0} /\ kLevels \in Nat \ {0} /\ kLevels % kWordBits = 0

kWords == kLevels \div kWordBits
Words  == 0..(kWords - 1)
Bits   == 0..(kWordBits - 1)
LevelIdx == 0..(kLevels - 1)
BitmapType == [Words -> SUBSET Bits]

NoBits == [w \in Words |-> {}]

\* Mutant of ClearBit: the whole word is cleared.
ClearWord(bm, idx) == [bm EXCEPT ![idx \div kWordBits] = {}]

SetBit(bm, idx)   == [bm EXCEPT ![idx \div kWordBits] = @ \cup {idx % kWordBits}]
ClearBit(bm, idx) == [bm EXCEPT ![idx \div kWordBits] = @ \ {idx % kWordBits}]
IsSet(bm, idx)    == idx % kWordBits \in bm[idx \div kWordBits]

\* The first set bit at or above `from`, or kLevels: in the first word, only
\* the bits that the mask leaves, then the lowest bit (countr_zero) of the
\* first word that is not zero.
next_up(bm, from) ==
    LET first   == from \div kWordBits
        word(w) == IF w = first THEN {b \in bm[w] : b >= from % kWordBits} ELSE bm[w]
        nonzero == {w \in first..(kWords - 1) : word(w) # {}}
    IN  IF from >= kLevels \/ nonzero = {} THEN kLevels
        ELSE Min(nonzero) * kWordBits + Min(word(Min(nonzero)))

\* Mutant of next_down: the mask leaves out `from` itself.
next_below(bm, from) ==
    LET found == {i \in LevelIdx : i < from /\ IsSet(bm, i)}
    IN  IF from >= kLevels \/ found = {} THEN kLevels ELSE Max(found)

\* The first set bit at or below `from`, or kLevels: the same downwards, with
\* the highest bit (63 - countl_zero) of the word.
next_down(bm, from) ==
    LET first   == from \div kWordBits
        word(w) == IF w = first THEN {b \in bm[w] : b <= from % kWordBits} ELSE bm[w]
        nonzero == {w \in 0..first : word(w) # {}}
    IN  IF from >= kLevels \/ nonzero = {} THEN kLevels
        ELSE Max(nonzero) * kWordBits + Max(word(Max(nonzero)))
=============================================================================
