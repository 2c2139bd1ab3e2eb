----------------------------- MODULE Window_proofs -----------------------------
(***************************************************************************)
(* The bitmap searches find the nearest set bit, word boundaries or not,   *)
(* and on_level_occupied and on_level_emptied keep each hint at the best   *)
(* level of its bitmap, for every number of levels and every word size.    *)
(***************************************************************************)
EXTENDS Window, Lists_proofs

-----------------------------------------------------------------------------
(***************************************************************************)
(* Least and greatest members                                              *)
(***************************************************************************)
\* Min is that member.
LEMMA MinIsLeast ==
    ASSUME NEW S, S \subseteq Nat, S # {}
    PROVE  Min(S) \in S /\ \A k \in S : Min(S) <= k
  BY LeastNat DEF Min

\* A set of naturals that is bounded and not empty has a greatest, Max.
LEMMA MaxIsGreatest ==
    ASSUME NEW n \in Nat, NEW S, S \subseteq 0..n, S # {}
    PROVE  Max(S) \in S /\ \A k \in S : k <= Max(S)
<1> DEFINE T == {n - k : k \in S}
<1>1. T \subseteq Nat /\ T # {}
  <2>1. \A k \in S : k \in Nat /\ k <= n /\ n - k \in Nat
    OBVIOUS
  <2> QED BY <2>1
<1>2. PICK t \in T : \A k \in T : t <= k
  BY <1>1, LeastNat
<1>3. PICK m \in S : t = n - m
  BY <1>2
<1>4. \A k \in S : m >= k
  BY <1>2, <1>3
<1> QED BY <1>4 DEF Max
-----------------------------------------------------------------------------
(***************************************************************************)
(* Words and bits                                                          *)
(***************************************************************************)
\* The word of a level and its bit in there.
LEMMA WordAndBit ==
    ASSUME NEW i \in LevelIdx
    PROVE  /\ i \div kWordBits \in Words
           /\ i % kWordBits \in Bits
           /\ i = (i \div kWordBits) * kWordBits + (i % kWordBits)
<1>1. /\ kWordBits \in Nat \ {0} /\ kLevels \in Nat \ {0} /\ i \in Nat /\ i < kLevels
      /\ kLevels = kWords * kWordBits /\ kWords \in Nat
  BY BitmapAssumption DEF LevelIdx, kWords
<1>2. /\ i \div kWordBits \in Nat
      /\ i % kWordBits \in 0..(kWordBits - 1)
      /\ i = (i \div kWordBits) * kWordBits + (i % kWordBits)
  BY <1>1
<1>3. i \div kWordBits < kWords
  <2> SUFFICES ASSUME i \div kWordBits >= kWords PROVE FALSE
    BY <1>1, <1>2
  <2> DEFINE w == i \div kWordBits
  <2>1. w * kWordBits >= kWords * kWordBits
    BY <1>1, <1>2
  <2> QED BY <2>1, <1>1, <1>2
<1> QED BY <1>1, <1>2, <1>3 DEF Words, Bits

\* And back: a word and a bit are those of one level.
LEMMA LevelOfBit ==
    ASSUME NEW w \in Words, NEW b \in Bits
    PROVE  /\ w * kWordBits + b \in LevelIdx
           /\ (w * kWordBits + b) \div kWordBits = w
           /\ (w * kWordBits + b) % kWordBits = b
<1>1. /\ kWordBits \in Nat \ {0} /\ kLevels \in Nat \ {0}
      /\ kLevels = kWords * kWordBits /\ kWords \in Nat
      /\ w \in Nat /\ b \in Nat /\ w <= kWords - 1 /\ b <= kWordBits - 1
  BY BitmapAssumption DEF kWords, Words, Bits
<1>2. w * kWordBits <= (kWords - 1) * kWordBits /\ w * kWordBits \in Nat
  BY <1>1
<1>3. (kWords - 1) * kWordBits = kLevels - kWordBits
  BY <1>1
<1>4. w * kWordBits + b \in LevelIdx
  BY <1>1, <1>2, <1>3 DEF LevelIdx
<1>5. (w * kWordBits + b) \div kWordBits = w /\ (w * kWordBits + b) % kWordBits = b
  BY <1>1
<1> QED BY <1>4, <1>5

\* Words are ordered as numbers are.
LEMMA WordsOrdered ==
    ASSUME NEW x \in Words, NEW y \in Words
    PROVE  /\ x <= y => x < y \/ x = y
           /\ x >= y => y < x \/ y = x
           /\ x < y => x # y
  BY BitmapAssumption DEF Words, kWords

\* Levels are ordered by word, then by bit.
LEMMA WordOrder ==
    ASSUME NEW i \in LevelIdx, NEW j \in LevelIdx
    PROVE  i <= j <=> \/ i \div kWordBits < j \div kWordBits
                      \/ /\ i \div kWordBits = j \div kWordBits
                         /\ i % kWordBits <= j % kWordBits
<1> DEFINE v == i \div kWordBits
           a == i % kWordBits
           w == j \div kWordBits
           b == j % kWordBits
<1>1. /\ v \in Words /\ a \in Bits /\ i = v * kWordBits + a
      /\ w \in Words /\ b \in Bits /\ j = w * kWordBits + b
  BY WordAndBit
<1>2. kWordBits \in Nat \ {0}
  BY BitmapAssumption
<1> SUFFICES i <= j <=> (v < w \/ (v = w /\ a <= b))
  OBVIOUS
<1> HIDE DEF v, a, w, b
<1>3. /\ v \in Int /\ a \in Int /\ a >= 0 /\ a < kWordBits
      /\ w \in Int /\ b \in Int /\ b >= 0 /\ b < kWordBits
  BY <1>1, <1>2 DEF Words, Bits
<1>4. ASSUME NEW x \in Int, NEW y \in Int, x < y
      PROVE  x * kWordBits + kWordBits <= y * kWordBits
  <2>1. (x + 1) * kWordBits <= y * kWordBits
    BY <1>2, <1>4
  <2>2. (x + 1) * kWordBits = x * kWordBits + kWordBits
    BY <1>2
  <2> QED BY <2>1, <2>2
<1>5. v * kWordBits \in Int /\ w * kWordBits \in Int
  BY <1>2, <1>3
<1>6. CASE v < w
  <2>1. v * kWordBits + kWordBits <= w * kWordBits
    BY <1>3, <1>4, <1>6
  <2> DEFINE V == v * kWordBits
             W == w * kWordBits
  <2>2. V \in Int /\ W \in Int /\ V + kWordBits <= W /\ i = V + a /\ j = W + b
    BY <2>1, <1>1, <1>5
  <2> HIDE DEF V, W
  <2> QED BY <2>2, <1>2, <1>3, <1>6
<1>7. CASE v = w
  <2> DEFINE V == v * kWordBits
  <2>1. V \in Int /\ i = V + a /\ j = V + b
    BY <1>1, <1>5, <1>7
  <2> HIDE DEF V
  <2>2. i <= j <=> a <= b
    BY <2>1, <1>2, <1>3
  <2> QED BY <2>2, <1>3, <1>7
<1>8. CASE w < v
  <2>1. w * kWordBits + kWordBits <= v * kWordBits
    BY <1>3, <1>4, <1>8
  <2> DEFINE V == v * kWordBits
             W == w * kWordBits
  <2>2. V \in Int /\ W \in Int /\ W + kWordBits <= V /\ i = V + a /\ j = W + b
    BY <2>1, <1>1, <1>5
  <2> HIDE DEF V, W
  <2> QED BY <2>2, <1>2, <1>3, <1>8
<1> QED BY <1>3, <1>6, <1>7, <1>8
-----------------------------------------------------------------------------
(***************************************************************************)
(* The searches                                                            *)
(***************************************************************************)
\* next_up finds the lowest set bit at or above `from`; without one it
\* returns kLevels.
LEMMA NextUpIsLowest ==
    ASSUME NEW bm \in BitmapType, NEW from \in Nat
    PROVE  \/ /\ next_up(bm, from) = kLevels
              /\ \A i \in LevelIdx : IsSet(bm, i) => i < from
           \/ /\ next_up(bm, from) \in LevelIdx
              /\ next_up(bm, from) >= from
              /\ IsSet(bm, next_up(bm, from))
              /\ \A i \in LevelIdx : IsSet(bm, i) /\ i >= from => next_up(bm, from) <= i
<1> DEFINE first   == from \div kWordBits
           word(w) == IF w = first THEN {b \in bm[w] : b >= from % kWordBits} ELSE bm[w]
           nonzero == {w \in first..(kWords - 1) : word(w) # {}}
           m       == Min(nonzero)
           b       == Min(word(m))
<1>1. CASE from >= kLevels
  BY <1>1, BitmapAssumption DEF next_up, LevelIdx
<1>2. CASE from < kLevels
  <2>1. from \in LevelIdx
    BY <1>2, BitmapAssumption DEF LevelIdx
  <2>2. first \in Words /\ from % kWordBits \in Bits
    BY <2>1, WordAndBit
  <2>3. \A w \in Words : word(w) \subseteq Bits /\ word(w) \subseteq bm[w]
    BY DEF BitmapType
  <2>4. Words \subseteq Nat /\ Bits \subseteq Nat /\ kWords \in Int
    BY BitmapAssumption DEF Words, Bits, kWords
  <2>5. nonzero \subseteq Words
    BY <2>2, <2>4 DEF Words
  \* A set bit at or above `from` is in one of those words.
  <2>6. ASSUME NEW i \in LevelIdx, IsSet(bm, i), i >= from
        PROVE  /\ i \div kWordBits \in nonzero
               /\ i % kWordBits \in word(i \div kWordBits)
    <3>1. i \div kWordBits \in Words /\ i % kWordBits \in Bits
      BY WordAndBit
    <3>2. \/ first < i \div kWordBits
          \/ first = i \div kWordBits /\ from % kWordBits <= i % kWordBits
      BY <2>1, <2>6, WordOrder
    <3>3. i % kWordBits \in bm[i \div kWordBits]
      BY <2>6 DEF IsSet
    <3>4. i % kWordBits \in word(i \div kWordBits)
      <4>1. CASE first < i \div kWordBits
        <5>1. i \div kWordBits # first
          BY <4>1, <3>1, <2>2, WordsOrdered
        <5> QED BY <5>1, <3>3
      <4>2. CASE first = i \div kWordBits /\ from % kWordBits <= i % kWordBits
        BY <4>2, <3>3
      <4> QED BY <3>2, <4>1, <4>2
    <3>5. i \div kWordBits \in first..(kWords - 1)
      BY <3>1, <3>2, <2>2, <2>4 DEF Words
    <3> QED BY <3>4, <3>5
  <2>7. CASE nonzero = {}
    <3>1. next_up(bm, from) = kLevels
      BY <2>7 DEF next_up
    <3>2. \A i \in LevelIdx : IsSet(bm, i) => ~(i >= from)
      BY <2>6, <2>7
    <3> QED BY <3>1, <3>2 DEF LevelIdx
  <2>8. CASE nonzero # {}
    <3>1. next_up(bm, from) = m * kWordBits + b
      BY <2>8, <1>2, <2>1, BitmapAssumption DEF next_up, LevelIdx
    <3>2. m \in nonzero /\ \A w \in nonzero : m <= w
      <4>1. nonzero \subseteq Nat
        BY <2>4, <2>5
      <4> HIDE DEF nonzero
      <4> QED BY <4>1, <2>8, MinIsLeast
    <3> HIDE DEF m
    <3>3. m \in Words /\ word(m) # {} /\ m >= first
      BY <3>2, <2>2, <2>4, <2>5
    <3>4. b \in word(m) /\ \A c \in word(m) : b <= c
      <4>1. word(m) \subseteq Nat
        BY <2>3, <2>4, <3>3
      <4> HIDE DEF word
      <4> QED BY <4>1, <3>3, MinIsLeast
    <3> HIDE DEF b
    <3>5. b \in Bits /\ b \in bm[m] /\ (m = first => b >= from % kWordBits)
      BY <3>3, <3>4, <2>3
    <3> DEFINE r == m * kWordBits + b
    <3>6. r \in LevelIdx /\ r \div kWordBits = m /\ r % kWordBits = b
      BY <3>3, <3>5, LevelOfBit
    <3> HIDE DEF r, nonzero, word
    <3>7. IsSet(bm, r)
      BY <3>5, <3>6 DEF IsSet
    <3>8. from <= r
      <4>1. first < m \/ first = m
        <5> HIDE DEF first
        <5> QED BY <3>3, <2>2, WordsOrdered
      <4> HIDE DEF first
      <4> QED BY <4>1, <2>1, <3>5, <3>6, WordOrder DEF first
    <3>9. ASSUME NEW i \in LevelIdx, IsSet(bm, i), i >= from
          PROVE  r <= i
      <4>1. i \div kWordBits \in nonzero /\ i % kWordBits \in word(i \div kWordBits)
        BY <3>9, <2>6
      <4>2. m <= i \div kWordBits
        BY <4>1, <3>2
      <4>3. m = i \div kWordBits => b <= i % kWordBits
        BY <4>1, <3>4
      <4>4. m < i \div kWordBits \/ m = i \div kWordBits
        BY <4>2, <3>3, WordAndBit, WordsOrdered
      <4> QED BY <4>3, <4>4, <3>6, WordOrder
    <3>10. next_up(bm, from) = r
      BY <3>1 DEF r
    <3> QED BY <3>6, <3>7, <3>8, <3>9, <3>10, <2>1 DEF LevelIdx
  <2> QED BY <2>7, <2>8
<1> QED BY <1>1, <1>2, BitmapAssumption

\* next_down finds the highest set bit at or below `from`; without one it
\* returns kLevels.
LEMMA NextDownIsHighest ==
    ASSUME NEW bm \in BitmapType, NEW from \in LevelIdx
    PROVE  \/ /\ next_down(bm, from) = kLevels
              /\ \A i \in LevelIdx : IsSet(bm, i) => i > from
           \/ /\ next_down(bm, from) \in LevelIdx
              /\ next_down(bm, from) <= from
              /\ IsSet(bm, next_down(bm, from))
              /\ \A i \in LevelIdx : IsSet(bm, i) /\ i <= from => i <= next_down(bm, from)
<1> DEFINE first   == from \div kWordBits
           word(w) == IF w = first THEN {b \in bm[w] : b <= from % kWordBits} ELSE bm[w]
           nonzero == {w \in 0..first : word(w) # {}}
           m       == Max(nonzero)
           b       == Max(word(m))
<1>1. from < kLevels
  BY BitmapAssumption DEF LevelIdx
<1>2. first \in Words /\ from % kWordBits \in Bits
  BY WordAndBit
<1>3. \A w \in Words : word(w) \subseteq Bits /\ word(w) \subseteq bm[w]
  BY DEF BitmapType
<1>4. Words \subseteq Nat /\ Bits \subseteq Nat /\ kWords \in Int /\ kWordBits \in Nat \ {0}
  BY BitmapAssumption DEF Words, Bits, kWords
<1>5. nonzero \subseteq Words /\ nonzero \subseteq 0..first
  BY <1>2, <1>4 DEF Words
\* A set bit at or below `from` is in one of those words.
<1>6. ASSUME NEW i \in LevelIdx, IsSet(bm, i), i <= from
      PROVE  /\ i \div kWordBits \in nonzero
             /\ i % kWordBits \in word(i \div kWordBits)
  <2>1. i \div kWordBits \in Words /\ i % kWordBits \in Bits
    BY WordAndBit
  <2>2. \/ i \div kWordBits < first
        \/ i \div kWordBits = first /\ i % kWordBits <= from % kWordBits
    BY <1>6, WordOrder
  <2>3. i % kWordBits \in bm[i \div kWordBits]
    BY <1>6 DEF IsSet
  <2>4. i % kWordBits \in word(i \div kWordBits)
    <3>1. CASE i \div kWordBits < first
      <4>1. i \div kWordBits # first
        BY <3>1, <2>1, <1>2, WordsOrdered
      <4> QED BY <4>1, <2>3
    <3>2. CASE i \div kWordBits = first /\ i % kWordBits <= from % kWordBits
      BY <3>2, <2>3
    <3> QED BY <2>2, <3>1, <3>2
  <2>5. i \div kWordBits \in 0..first
    BY <2>1, <2>2, <1>2, <1>4 DEF Words
  <2> QED BY <2>4, <2>5
<1>7. CASE nonzero = {}
  <2>1. next_down(bm, from) = kLevels
    BY <1>7 DEF next_down
  <2>2. \A i \in LevelIdx : IsSet(bm, i) => ~(i <= from)
    BY <1>6, <1>7
  <2> QED BY <2>1, <2>2 DEF LevelIdx
<1>8. CASE nonzero # {}
  <2>1. next_down(bm, from) = m * kWordBits + b
    BY <1>8, <1>1, BitmapAssumption DEF next_down, LevelIdx
  <2>2. m \in nonzero /\ \A w \in nonzero : w <= m
    <3>1. first \in Nat
      BY <1>2, <1>4
    <3> HIDE DEF nonzero, first
    <3> QED BY <3>1, <1>5, <1>8, MaxIsGreatest
  <2> HIDE DEF m
  <2>3. m \in Words /\ word(m) # {} /\ m <= first
    BY <2>2, <1>2, <1>4, <1>5
  <2>4. b \in word(m) /\ \A c \in word(m) : c <= b
    <3>1. word(m) \subseteq 0..(kWordBits - 1) /\ kWordBits - 1 \in Nat
      BY <1>3, <1>4, <2>3 DEF Bits
    <3> HIDE DEF word
    <3> QED BY <3>1, <2>3, MaxIsGreatest
  <2> HIDE DEF b
  <2>5. b \in Bits /\ b \in bm[m] /\ (m = first => b <= from % kWordBits)
    BY <2>3, <2>4, <1>3
  <2> DEFINE r == m * kWordBits + b
  <2>6. r \in LevelIdx /\ r \div kWordBits = m /\ r % kWordBits = b
    BY <2>3, <2>5, LevelOfBit
  <2> HIDE DEF r, nonzero, word
  <2>7. IsSet(bm, r)
    BY <2>5, <2>6 DEF IsSet
  <2>8. r <= from
    <3>1. m < first \/ first = m
      <4> HIDE DEF first
      <4> QED BY <2>3, <1>2, WordsOrdered
    <3> HIDE DEF first
    <3> QED BY <3>1, <2>5, <2>6, WordOrder DEF first
  <2>9. ASSUME NEW i \in LevelIdx, IsSet(bm, i), i <= from
        PROVE  i <= r
    <3>1. i \div kWordBits \in nonzero /\ i % kWordBits \in word(i \div kWordBits)
      BY <2>9, <1>6
    <3>2. i \div kWordBits <= m
      BY <3>1, <2>2
    <3>3. m = i \div kWordBits => i % kWordBits <= b
      BY <3>1, <2>4
    <3>4. i \div kWordBits < m \/ m = i \div kWordBits
      BY <3>2, <2>3, WordAndBit, WordsOrdered
    <3> QED BY <3>3, <3>4, <2>6, WordOrder
  <2>10. next_down(bm, from) = r
    BY <2>1 DEF r
  <2> QED BY <2>6, <2>7, <2>8, <2>9, <2>10
<1> QED BY <1>7, <1>8
-----------------------------------------------------------------------------
(***************************************************************************)
(* The touch                                                               *)
(***************************************************************************)
\* Setting a bit and clearing one change that bit alone.
LEMMA OneBit ==
    ASSUME NEW bm \in BitmapType, NEW i \in LevelIdx
    PROVE  /\ SetBit(bm, i) \in BitmapType
           /\ ClearBit(bm, i) \in BitmapType
           /\ \A j \in LevelIdx : IsSet(SetBit(bm, i), j) <=> j = i \/ IsSet(bm, j)
           /\ \A j \in LevelIdx : IsSet(ClearBit(bm, i), j) <=> j # i /\ IsSet(bm, j)
<1> DEFINE v == i \div kWordBits
           a == i % kWordBits
<1>1. v \in Words /\ a \in Bits
  BY WordAndBit
<1>2. ASSUME NEW j \in LevelIdx
      PROVE  /\ j \div kWordBits \in Words /\ j % kWordBits \in Bits
             /\ j = i <=> j \div kWordBits = v /\ j % kWordBits = a
  <2>1. /\ j = (j \div kWordBits) * kWordBits + (j % kWordBits)
        /\ i = v * kWordBits + a
        /\ j \div kWordBits \in Words /\ j % kWordBits \in Bits
    BY WordAndBit
  <2> HIDE DEF v, a
  <2>2. j \div kWordBits = v /\ j % kWordBits = a => j = i
    BY <2>1
  <2> QED BY <2>1, <2>2 DEF v, a
<1>3. SetBit(bm, i) = [bm EXCEPT ![v] = bm[v] \cup {a}]
  BY DEF SetBit
<1>4. ClearBit(bm, i) = [bm EXCEPT ![v] = bm[v] \ {a}]
  BY DEF ClearBit
<1> HIDE DEF v, a
<1>5. SetBit(bm, i) \in BitmapType /\ ClearBit(bm, i) \in BitmapType
  BY <1>1, <1>3, <1>4 DEF BitmapType
<1>6. ASSUME NEW w \in Words, NEW c \in Bits
      PROVE  /\ c \in SetBit(bm, i)[w] <=> (w = v /\ c = a) \/ c \in bm[w]
             /\ c \in ClearBit(bm, i)[w] <=> ~(w = v /\ c = a) /\ c \in bm[w]
  BY <1>1, <1>3, <1>4 DEF BitmapType
<1>7. ASSUME NEW j \in LevelIdx
      PROVE  /\ IsSet(SetBit(bm, i), j) <=> j = i \/ IsSet(bm, j)
             /\ IsSet(ClearBit(bm, i), j) <=> j # i /\ IsSet(bm, j)
  <2> DEFINE w == j \div kWordBits
             c == j % kWordBits
  <2>1. w \in Words /\ c \in Bits /\ (j = i <=> w = v /\ c = a)
    BY <1>2
  <2>2. \A b : IsSet(b, j) <=> c \in b[w]
    BY DEF IsSet
  <2> HIDE DEF w, c
  <2> QED BY <2>1, <2>2, <1>6
<1> QED BY <1>5, <1>7

\* A hint is the best bit of a bitmap, or none when there is no bit.
BestBit(side, bm, hint) ==
    \/ hint = kNone /\ \A j \in LevelIdx : ~IsSet(bm, j)
    \/ /\ hint \in LevelIdx /\ IsSet(bm, hint)
       /\ \A j \in LevelIdx : IsSet(bm, j) => ~Better(side, j, hint)

\* TouchIsBest, one side at a time and of any bitmaps and hints.
LEMMA TouchMeans ==
    ASSUME NEW bms, NEW hints
    PROVE  (\A side \in BookSide :
               LET bits == {i \in LevelIdx : IsSet(bms[side], i)}
               IN  IF bits = {} THEN hints[side] = kNone
                   ELSE /\ hints[side] \in bits
                        /\ \A i \in bits : ~Better(side, i, hints[side]))
           <=> \A side \in BookSide : BestBit(side, bms[side], hints[side])
<1>1. ASSUME NEW side \in BookSide
      PROVE  (LET bits == {i \in LevelIdx : IsSet(bms[side], i)}
              IN  IF bits = {} THEN hints[side] = kNone
                  ELSE /\ hints[side] \in bits
                       /\ \A i \in bits : ~Better(side, i, hints[side]))
             <=> BestBit(side, bms[side], hints[side])
  <2> DEFINE bits == {i \in LevelIdx : IsSet(bms[side], i)}
  <2>1. kNone \notin LevelIdx
    BY BitmapAssumption DEF kNone, LevelIdx
  <2>2. CASE bits = {}
    <3>1. \A j \in LevelIdx : ~IsSet(bms[side], j)
      BY <2>2
    <3> QED BY <2>2, <3>1 DEF BestBit
  <2>3. CASE bits # {}
    <3>1. PICK j \in LevelIdx : IsSet(bms[side], j)
      BY <2>3
    <3>2. BestBit(side, bms[side], hints[side]) <=>
             /\ hints[side] \in LevelIdx /\ IsSet(bms[side], hints[side])
             /\ \A k \in LevelIdx : IsSet(bms[side], k) => ~Better(side, k, hints[side])
      BY <3>1, <2>1 DEF BestBit
    <3> QED BY <2>3, <3>2
  <2> QED BY <2>2, <2>3
<1> QED BY <1>1

\* And of the variables, before a step and after it.
LEMMA TouchBySide ==
    /\ TouchIsBest <=> \A side \in BookSide : BestBit(side, occupied[side], best_idx[side])
    /\ TouchIsBest' <=> \A side \in BookSide : BestBit(side, occupied'[side], best_idx'[side])
<1>1. TouchIsBest <=> \A side \in BookSide : BestBit(side, occupied[side], best_idx[side])
  BY TouchMeans DEF TouchIsBest
<1>2. TouchIsBest' <=> \A side \in BookSide : BestBit(side, occupied'[side], best_idx'[side])
  BY TouchMeans DEF TouchIsBest
<1> QED BY <1>1, <1>2

\* on_level_occupied sets one bit, keeps the hint at the best, and moves it
\* to the new level or leaves it.
LEMMA LevelOccupied ==
    ASSUME TouchTypeOK, TouchIsBest, NEW side \in BookSide, NEW i \in LevelIdx,
           on_level_occupied(side, i)
    PROVE  /\ TouchTypeOK' /\ TouchIsBest'
           /\ \A other \in BookSide, j \in LevelIdx :
                IsSet(occupied'[other], j) <=>
                    (other = side /\ j = i) \/ IsSet(occupied[other], j)
           /\ best_idx'[side] = i \/ best_idx'[side] = best_idx[side]
           /\ \A other \in BookSide : other # side => best_idx'[other] = best_idx[other]
<1> DEFINE old  == occupied[side]
           bits == SetBit(old, i)
           hint == IF best_idx[side] = kNone \/ Better(side, i, best_idx[side])
                   THEN i ELSE best_idx[side]
<1>1. old \in BitmapType /\ best_idx[side] \in LevelIdx \cup {kNone}
  BY DEF TouchTypeOK
<1>2. /\ bits \in BitmapType
      /\ \A j \in LevelIdx : IsSet(bits, j) <=> j = i \/ IsSet(old, j)
  <2> HIDE DEF old
  <2> QED BY <1>1, OneBit
<1>3. /\ occupied' = [occupied EXCEPT ![side] = bits]
      /\ best_idx' = [best_idx EXCEPT ![side] = hint]
  BY DEF on_level_occupied, TouchTypeOK
<1>4. BestBit(side, old, best_idx[side])
  BY TouchBySide
<1>5. hint = i \/ hint = best_idx[side]
  OBVIOUS
<1>6. BestBit(side, bits, hint)
  <2>0. /\ kNone \notin LevelIdx /\ LevelIdx \subseteq Nat
        /\ \A j, k \in Nat : Better(side, j, k) \/ ~Better(side, j, k)
    BY BitmapAssumption DEF kNone, LevelIdx
  <2>1. CASE best_idx[side] = kNone
    <3>1. \A j \in LevelIdx : IsSet(bits, j) <=> j = i
      BY <2>1, <2>0, <1>2, <1>4 DEF BestBit
    <3>2. hint = i /\ ~Better(side, i, i)
      BY <2>1, <2>0 DEF Better
    <3> QED BY <3>1, <3>2 DEF BestBit
  <2>2. CASE best_idx[side] # kNone
    <3> DEFINE h == best_idx[side]
    <3>1. h \in LevelIdx /\ IsSet(old, h) /\ \A j \in LevelIdx : IsSet(old, j) => ~Better(side, j, h)
      BY <2>2, <1>4 DEF BestBit
    <3>2. hint = IF Better(side, i, h) THEN i ELSE h
      BY <2>2
    <3> HIDE DEF h, hint, bits, old
    <3>3. CASE Better(side, i, h)
      <4>1. hint = i
        BY <3>2, <3>3
      <4>2. ASSUME NEW j \in LevelIdx, IsSet(bits, j) PROVE ~Better(side, j, i)
        BY <4>2, <3>1, <3>3, <2>0, <1>2 DEF Better
      <4> QED BY <4>1, <4>2, <1>2 DEF BestBit
    <3>4. CASE ~Better(side, i, h)
      <4>1. hint = h
        BY <3>2, <3>4
      <4>2. ASSUME NEW j \in LevelIdx, IsSet(bits, j) PROVE ~Better(side, j, h)
        BY <4>2, <3>1, <3>4, <1>2
      <4> QED BY <4>1, <4>2, <3>1, <1>2 DEF BestBit
    <3> QED BY <3>3, <3>4
  <2> QED BY <2>1, <2>2
<1> HIDE DEF bits, hint
<1>7. /\ occupied'[side] = bits /\ best_idx'[side] = hint
      /\ \A other \in BookSide : other # side =>
           occupied'[other] = occupied[other] /\ best_idx'[other] = best_idx[other]
  BY <1>3 DEF TouchTypeOK
<1>8. TouchTypeOK'
  BY <1>1, <1>2, <1>3, <1>5 DEF TouchTypeOK
<1>9. TouchIsBest'
  <2>1. \A other \in BookSide : BestBit(other, occupied'[other], best_idx'[other])
    BY <1>6, <1>7, TouchBySide
  <2> QED BY <2>1, TouchBySide
<1>10. \A other \in BookSide, j \in LevelIdx :
         IsSet(occupied'[other], j) <=> (other = side /\ j = i) \/ IsSet(occupied[other], j)
  BY <1>2, <1>7
<1> QED BY <1>5, <1>7, <1>8, <1>9, <1>10

\* on_level_emptied clears one bit and keeps the hint at the best, which is
\* none or one no better than before.
LEMMA LevelEmptied ==
    ASSUME TouchTypeOK, TouchIsBest, NEW side \in BookSide, NEW i \in LevelIdx,
           on_level_emptied(side, i)
    PROVE  /\ TouchTypeOK' /\ TouchIsBest'
           /\ \A other \in BookSide, j \in LevelIdx :
                IsSet(occupied'[other], j) <=>
                    ~(other = side /\ j = i) /\ IsSet(occupied[other], j)
           /\ \/ best_idx'[side] = kNone
              \/ /\ best_idx[side] \in LevelIdx /\ best_idx'[side] \in LevelIdx
                 /\ ~Better(side, best_idx'[side], best_idx[side])
           /\ \A other \in BookSide : other # side => best_idx'[other] = best_idx[other]
<1> DEFINE old  == occupied[side]
           bits == ClearBit(old, i)
           next == CASE side = Sell         -> next_up(bits, i + 1)
                     [] side = Buy /\ i = 0 -> kNone
                     [] side = Buy /\ i # 0 -> next_down(bits, i - 1)
           h    == best_idx[side]
           hint == IF h = i THEN next ELSE h
           GoodHint == /\ BestBit(side, bits, hint)
                       /\ hint = kNone \/ (h \in LevelIdx /\ hint \in LevelIdx /\ ~Better(side, hint, h))
<1>1. old \in BitmapType /\ h \in LevelIdx \cup {kNone}
  BY DEF TouchTypeOK
<1>2. /\ bits \in BitmapType
      /\ \A j \in LevelIdx : IsSet(bits, j) <=> j # i /\ IsSet(old, j)
  <2> HIDE DEF old
  <2> QED BY <1>1, OneBit
<1>3. /\ occupied' = [occupied EXCEPT ![side] = bits]
      /\ best_idx' = [best_idx EXCEPT ![side] = hint]
  <2>1. /\ occupied' = [occupied EXCEPT ![side] = bits]
        /\ best_idx' = IF h = i THEN [best_idx EXCEPT ![side] = next] ELSE best_idx
    BY DEF on_level_emptied
  <2> HIDE DEF next
  <2>2. h # i => best_idx = [best_idx EXCEPT ![side] = h]
    BY DEF TouchTypeOK
  <2> QED BY <2>1, <2>2
<1>4. BestBit(side, old, h)
  BY TouchBySide
<1>5. /\ kNone \notin LevelIdx /\ LevelIdx \subseteq Nat /\ i \in Nat /\ kNone = kLevels
  BY BitmapAssumption DEF kNone, LevelIdx
<1>6. ASSUME h # i PROVE GoodHint
  <2>1. hint = h
    BY <1>6
  <2>2. BestBit(side, bits, h)
    <3> HIDE DEF h, bits, old
    <3> QED BY <1>2, <1>4, <1>6 DEF BestBit
  <2>3. hint = kNone \/ (h \in LevelIdx /\ hint \in LevelIdx /\ ~Better(side, hint, h))
    <3>1. \A x \in Int : ~Better(side, x, x)
      BY DEF Better
    <3>2. \A x \in LevelIdx : x \in Int
      BY <1>5
    <3> HIDE DEF h, hint
    <3> QED BY <2>1, <3>1, <3>2, <1>1
  <2> QED BY <2>1, <2>2, <2>3
<1>7. ASSUME h = i PROVE GoodHint
  \* The level that goes was the touch: the others are behind it.
  <2>1. \A j \in LevelIdx : IsSet(bits, j) => j # i /\ ~Better(side, j, i)
    <3> HIDE DEF h, bits, old
    <3> QED BY <1>2, <1>4, <1>5, <1>7 DEF BestBit
  <2>2. hint = next
    BY <1>7
  <2>3. CASE side = Sell
    <3>1. next = next_up(bits, i + 1)
      BY <2>3 DEF Buy, Sell
    <3> HIDE DEF bits, next
    <3>2. \A j \in LevelIdx : IsSet(bits, j) => j >= i + 1
      BY <2>1, <2>3, <1>5 DEF Better, Buy, Sell
    <3>3. i + 1 \in Nat
      BY <1>5
    <3>4. \/ /\ next = kLevels
             /\ \A j \in LevelIdx : IsSet(bits, j) => j < i + 1
          \/ /\ next \in LevelIdx /\ next >= i + 1 /\ IsSet(bits, next)
             /\ \A j \in LevelIdx : IsSet(bits, j) /\ j >= i + 1 => next <= j
      BY <3>1, <3>3, <1>2, NextUpIsLowest
    <3>5. \A x, y : Better(side, x, y) <=> x < y
      BY <2>3 DEF Better, Buy, Sell
    <3>6. CASE next = kLevels /\ \A j \in LevelIdx : ~IsSet(bits, j)
      <4> HIDE DEF hint
      <4>1. BestBit(side, bits, next)
        BY <3>6, <1>5 DEF BestBit
      <4> QED BY <4>1, <3>6, <2>2, <1>5
    <3>7. CASE /\ next \in LevelIdx /\ IsSet(bits, next)
               /\ \A j \in LevelIdx : IsSet(bits, j) => ~(j < next)
               /\ ~(next < i)
      <4>1. BestBit(side, bits, next)
        BY <3>7, <3>5 DEF BestBit
      <4>2. h \in LevelIdx /\ next \in LevelIdx /\ ~Better(side, next, h)
        <5> HIDE DEF h
        <5> QED BY <3>7, <3>5, <1>7
      <4> HIDE DEF hint, h
      <4> QED BY <4>1, <4>2, <2>2
    <3> QED
      <4>1. CASE next = kLevels
        BY <4>1, <3>2, <3>4, <3>6, <1>5
      <4>2. CASE next # kLevels
        <5>1. /\ next \in LevelIdx /\ IsSet(bits, next) /\ next >= i + 1
              /\ \A j \in LevelIdx : IsSet(bits, j) => next <= j
          BY <4>2, <3>2, <3>4
        <5>2. next \in Int /\ i \in Int /\ \A j \in LevelIdx : j \in Int
          BY <5>1, <1>5
        <5>3. \A j \in LevelIdx : IsSet(bits, j) => ~(j < next)
          BY <5>1, <5>2
        <5>4. ~(next < i)
          BY <5>1, <5>2
        <5> QED BY <5>1, <5>3, <5>4, <3>7
      <4> QED BY <4>1, <4>2
  <2>4. CASE side = Buy /\ i = 0
    <3>1. next = kNone
      BY <2>4 DEF Buy, Sell
    <3> HIDE DEF bits, next
    <3>2. \A j \in LevelIdx : ~IsSet(bits, j)
      BY <2>1, <2>4, <1>5 DEF Better, Buy
    <3>3. BestBit(side, bits, next)
      BY <3>1, <3>2 DEF BestBit
    <3> HIDE DEF hint
    <3> QED BY <3>1, <3>3, <2>2
  <2>5. CASE side = Buy /\ i # 0
    <3>1. next = next_down(bits, i - 1)
      BY <2>5 DEF Buy, Sell
    <3> HIDE DEF bits, next
    <3>2. \A j \in LevelIdx : IsSet(bits, j) => j <= i - 1
      BY <2>1, <2>5, <1>5 DEF Better, Buy
    <3>3. i - 1 \in LevelIdx
      BY <2>5, BitmapAssumption DEF LevelIdx
    <3>4. \/ /\ next = kLevels
             /\ \A j \in LevelIdx : IsSet(bits, j) => j > i - 1
          \/ /\ next \in LevelIdx /\ next <= i - 1 /\ IsSet(bits, next)
             /\ \A j \in LevelIdx : IsSet(bits, j) /\ j <= i - 1 => j <= next
      BY <3>1, <3>3, <1>2, NextDownIsHighest
    <3>5. \A x, y : Better(side, x, y) <=> x > y
      BY <2>5 DEF Better, Buy
    <3>6. CASE next = kLevels /\ \A j \in LevelIdx : ~IsSet(bits, j)
      <4> HIDE DEF hint
      <4>1. BestBit(side, bits, next)
        BY <3>6, <1>5 DEF BestBit
      <4> QED BY <4>1, <3>6, <2>2, <1>5
    <3>7. CASE /\ next \in LevelIdx /\ IsSet(bits, next)
               /\ \A j \in LevelIdx : IsSet(bits, j) => ~(j > next)
               /\ ~(next > i)
      <4>1. BestBit(side, bits, next)
        BY <3>7, <3>5 DEF BestBit
      <4>2. h \in LevelIdx /\ next \in LevelIdx /\ ~Better(side, next, h)
        <5> HIDE DEF h
        <5> QED BY <3>7, <3>5, <1>7
      <4> HIDE DEF hint, h
      <4> QED BY <4>1, <4>2, <2>2
    <3> QED
      <4>1. CASE next = kLevels
        BY <4>1, <3>2, <3>4, <3>6, <1>5
      <4>2. CASE next # kLevels
        <5>1. /\ next \in LevelIdx /\ IsSet(bits, next) /\ next <= i - 1
              /\ \A j \in LevelIdx : IsSet(bits, j) => j <= next
          BY <4>2, <3>2, <3>4
        <5>2. next \in Int /\ i \in Int /\ \A j \in LevelIdx : j \in Int
          BY <5>1, <1>5
        <5>3. \A j \in LevelIdx : IsSet(bits, j) => ~(j > next)
          BY <5>1, <5>2
        <5>4. ~(next > i)
          BY <5>1, <5>2
        <5> QED BY <5>1, <5>3, <5>4, <3>7
      <4> QED BY <4>1, <4>2
  <2> QED BY <2>3, <2>4, <2>5 DEF BookSide
<1>8. GoodHint
  BY <1>6, <1>7
<1> HIDE DEF bits, hint
<1>9. /\ occupied'[side] = bits /\ best_idx'[side] = hint
      /\ \A other \in BookSide : other # side =>
           occupied'[other] = occupied[other] /\ best_idx'[other] = best_idx[other]
  BY <1>3 DEF TouchTypeOK
<1>10. TouchTypeOK'
  BY <1>2, <1>3, <1>8 DEF TouchTypeOK
<1>11. TouchIsBest'
  <2>1. \A other \in BookSide : BestBit(other, occupied'[other], best_idx'[other])
    BY <1>8, <1>9, TouchBySide
  <2> QED BY <2>1, TouchBySide
<1>12. \A other \in BookSide, j \in LevelIdx :
         IsSet(occupied'[other], j) <=> ~(other = side /\ j = i) /\ IsSet(occupied[other], j)
  BY <1>2, <1>9
<1> QED BY <1>8, <1>9, <1>10, <1>11, <1>12

\* Emptying a level moves no hint towards the other side.
LEMMA EmptiedNotCrossed ==
    ASSUME TouchTypeOK, TouchIsBest, NotCrossed, NEW side \in BookSide, NEW i \in LevelIdx,
           on_level_emptied(side, i)
    PROVE  NotCrossed'
<1>1. /\ \/ best_idx'[side] = kNone
         \/ /\ best_idx[side] \in LevelIdx /\ best_idx'[side] \in LevelIdx
            /\ ~Better(side, best_idx'[side], best_idx[side])
      /\ \A other \in BookSide : other # side => best_idx'[other] = best_idx[other]
  BY LevelEmptied
<1>2. /\ kNone \notin LevelIdx /\ \A x \in LevelIdx : x \in Int
      /\ best_idx[Buy] \in LevelIdx \cup {kNone} /\ best_idx[Sell] \in LevelIdx \cup {kNone}
  BY BitmapAssumption DEF kNone, LevelIdx, TouchTypeOK, BookSide
<1>3. CASE side = Buy
  <2>1. /\ best_idx'[Sell] = best_idx[Sell]
        /\ \/ best_idx'[Buy] = kNone
           \/ /\ best_idx[Buy] \in LevelIdx /\ best_idx'[Buy] \in LevelIdx
              /\ ~(best_idx'[Buy] > best_idx[Buy])
    BY <1>1, <1>3 DEF BookSide, Buy, Sell, Better
  <2> QED BY <2>1, <1>2 DEF NotCrossed
<1>4. CASE side = Sell
  <2>1. /\ best_idx'[Buy] = best_idx[Buy]
        /\ \/ best_idx'[Sell] = kNone
           \/ /\ best_idx[Sell] \in LevelIdx /\ best_idx'[Sell] \in LevelIdx
              /\ ~(best_idx'[Sell] < best_idx[Sell])
    BY <1>1, <1>4 DEF BookSide, Buy, Sell, Better
  <2> QED BY <2>1, <1>2 DEF NotCrossed
<1> QED BY <1>3, <1>4 DEF BookSide

-----------------------------------------------------------------------------
(***************************************************************************)
(* Prices and sides                                                        *)
(***************************************************************************)
\* Opposite is a side of the book, and not the same one.
LEMMA OppositeSide ==
    ASSUME NEW side
    PROVE  Opposite(side) \in BookSide /\ (side \in BookSide => Opposite(side) # side)
  BY DEF Opposite, BookSide, Buy, Sell

\* index() maps a price of the window to a level, and price_at maps it back.
LEMMA LevelOfPrice ==
    ASSUME NEW p \in Prices, HasIndex(p)
    PROVE  index(p) \in LevelIdx /\ priceAt(index(p)) = p
<1> DEFINE x == p - kBaseTicks
           q == x \div kTickSize
<1>1. /\ p \in Int /\ kBaseTicks \in Int /\ kTickSize \in Nat \ {0} /\ kLevels \in Nat \ {0}
      /\ x \in Nat /\ x % kTickSize = 0 /\ x <= (kLevels - 1) * kTickSize
  <2>1. /\ p \in Int /\ kBaseTicks \in Int /\ kTickSize \in Nat \ {0} /\ kLevels \in Nat \ {0}
    BY PricesAssumption, WindowAssumption, BitmapAssumption
  <2>2. (kLevels - 1) * kTickSize \in Int
    BY <2>1
  <2>3. p >= kBaseTicks /\ p <= kBaseTicks + (kLevels - 1) * kTickSize /\ x % kTickSize = 0
    BY DEF HasIndex, kCeilTicks
  <2> DEFINE top == (kLevels - 1) * kTickSize
  <2>4. top \in Int /\ p <= kBaseTicks + top
    BY <2>2, <2>3
  <2> HIDE DEF top
  <2>5. x \in Nat /\ x <= top
    BY <2>1, <2>3, <2>4
  <2> QED BY <2>1, <2>3, <2>5 DEF top
<1>2. index(p) = q
  BY DEF index
<1> HIDE DEF x
<1>3. q \in Nat /\ x = q * kTickSize
  BY <1>1
<1> HIDE DEF q
<1>4. q <= kLevels - 1
  <2> SUFFICES ASSUME q >= kLevels PROVE FALSE
    BY <1>1, <1>3
  <2>1. q * kTickSize >= kLevels * kTickSize
    BY <1>1, <1>3
  <2>2. (kLevels - 1) * kTickSize = kLevels * kTickSize - kTickSize /\ kLevels * kTickSize \in Int
    BY <1>1
  <2> DEFINE a == q * kTickSize
             b == kLevels * kTickSize
  <2>3. a \in Int /\ b \in Int /\ a >= b /\ a <= b - kTickSize
    BY <1>1, <1>3, <2>1, <2>2
  <2> HIDE DEF a, b
  <2> QED BY <2>3, <1>1
<1>5. priceAt(q) = p
  <2>1. priceAt(q) = kBaseTicks + x
    BY <1>3 DEF priceAt
  <2> QED BY <2>1, <1>1 DEF x
<1>6. q \in LevelIdx
  BY <1>1, <1>3, <1>4 DEF LevelIdx
<1> QED BY <1>2, <1>5, <1>6

\* A multiple of the tick divides to what it was a multiple of.
LEMMA MultipleOf ==
    ASSUME NEW i \in Nat, NEW k \in Nat \ {0}
    PROVE  (i * k) % k = 0 /\ (i * k) \div k = i
<1>1. (i * k + 0) \div k = i /\ (i * k + 0) % k = 0
  OBVIOUS
<1>2. i * k \in Nat
  OBVIOUS
<1>3. i * k + 0 = i * k
  BY <1>2
<1> QED BY <1>1, <1>3

\* Levels are as far apart as their indices.
LEMMA LevelsOrdered ==
    ASSUME NEW i \in LevelIdx, NEW j \in LevelIdx
    PROVE  /\ priceAt(i) \in Int
           /\ i < j <=> priceAt(i) < priceAt(j)
           /\ \A side : Better(side, priceAt(i), priceAt(j)) <=> Better(side, i, j)
<1>1. /\ kBaseTicks \in Int /\ kTickSize \in Nat \ {0} /\ i \in Nat /\ j \in Nat
  BY WindowAssumption, BitmapAssumption DEF LevelIdx
<1> DEFINE a == i * kTickSize
           b == j * kTickSize
<1>2. a \in Nat /\ b \in Nat
  BY <1>1
<1>3. i < j => a < b
  BY <1>1
<1>4. j < i => b < a
  BY <1>1
<1>5. i = j => a = b
  OBVIOUS
<1>6. priceAt(i) = kBaseTicks + a /\ priceAt(j) = kBaseTicks + b
  BY DEF priceAt
<1> HIDE DEF a, b
<1>7. /\ priceAt(i) \in Int /\ priceAt(j) \in Int
      /\ i < j <=> priceAt(i) < priceAt(j)
      /\ j < i <=> priceAt(j) < priceAt(i)
  BY <1>1, <1>2, <1>3, <1>4, <1>5, <1>6
<1> QED BY <1>1, <1>7 DEF Better

\* Every level has a price, and the price that level.
LEMMA PriceOfLevel ==
    ASSUME NEW i \in LevelIdx
    PROVE  HasIndex(priceAt(i)) /\ index(priceAt(i)) = i
<1>1. /\ kBaseTicks \in Int /\ kTickSize \in Nat \ {0} /\ i \in Nat /\ kLevels \in Nat \ {0}
      /\ i <= kLevels - 1 /\ kLevels - 1 \in LevelIdx /\ 0 \in LevelIdx
  BY WindowAssumption, BitmapAssumption DEF LevelIdx
<1> DEFINE a == i * kTickSize
<1>2. a \in Nat /\ a % kTickSize = 0 /\ a \div kTickSize = i
  BY <1>1, MultipleOf
<1>3. priceAt(i) <= kCeilTicks
  <2>1. priceAt(kLevels - 1) = kCeilTicks
    BY DEF priceAt, kCeilTicks
  <2>2. i < kLevels - 1 => priceAt(i) < priceAt(kLevels - 1)
    BY <1>1, LevelsOrdered
  <2>3. priceAt(i) \in Int /\ priceAt(kLevels - 1) \in Int
    BY <1>1, LevelsOrdered
  <2> QED BY <1>1, <2>1, <2>2, <2>3
<1>4. priceAt(i) = kBaseTicks + a
  BY DEF priceAt
<1> HIDE DEF a
<1>5. priceAt(i) >= kBaseTicks /\ priceAt(i) - kBaseTicks = a
  BY <1>1, <1>2, <1>4
<1> QED BY <1>2, <1>3, <1>5 DEF HasIndex, index

\* The prices that have an index are those of the levels.
LEMMA PricesOfLevels ==
    {p \in Prices : \E i \in LevelIdx : p = priceAt(i)} = {p \in Prices : HasIndex(p)}
<1>1. ASSUME NEW p \in Prices, HasIndex(p) PROVE \E i \in LevelIdx : p = priceAt(i)
  BY <1>1, LevelOfPrice
<1>2. ASSUME NEW i \in LevelIdx PROVE HasIndex(priceAt(i))
  BY PriceOfLevel
<1> HIDE DEF HasIndex, priceAt
<1> QED BY <1>1, <1>2

\* In indices as in prices: who comes first, and who may trade with whom.
LEMMA PricesAsLevels ==
    ASSUME NEW p \in Prices, HasIndex(p), NEW i \in LevelIdx
    PROVE  /\ \A side : Better(side, p, priceAt(i)) <=> Better(side, index(p), i)
           /\ \A side : Crosses(side, p, priceAt(i)) <=> Crosses(side, index(p), i)
<1> DEFINE j == index(p)
<1>1. j \in LevelIdx /\ priceAt(j) = p
  BY LevelOfPrice
<1>2. j \in Int /\ i \in Int
  BY <1>1, BitmapAssumption DEF LevelIdx
<1> HIDE DEF j
<1>3. /\ p \in Int /\ priceAt(i) \in Int
      /\ j < i <=> p < priceAt(i)
      /\ i < j <=> priceAt(i) < p
      /\ \A side : Better(side, p, priceAt(i)) <=> Better(side, j, i)
  BY <1>1, LevelsOrdered
<1>4. \A side : Crosses(side, p, priceAt(i)) <=> Crosses(side, j, i)
  BY <1>2, <1>3 DEF Crosses
<1> QED BY <1>3, <1>4 DEF j
=============================================================================
