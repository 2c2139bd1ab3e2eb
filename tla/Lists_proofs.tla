----------------------------- MODULE Lists_proofs -----------------------------
(***************************************************************************)
(* Lemmas about lists that all the other proofs rest on: least             *)
(* members of sets of naturals, functions defined round after round, a     *)
(* node taken out of a list, and what the quantities of a list add up to.  *)
(*                                                                         *)
(* A sum is defined by a recursive function, and there is no induction     *)
(* over data here.  What takes its place is a least counterexample: a set  *)
(* of naturals that is not empty has a least member (LeastNat).            *)
(***************************************************************************)
EXTENDS BookTypes, SequenceTheorems, WellFoundedInduction, TLAPS

\* A set of naturals that is not empty has a least member.
LEMMA LeastNat ==
    ASSUME NEW S, S \subseteq Nat, S # {}
    PROVE  \E m \in S : \A k \in S : m <= k
<1>1. PICK m \in S : \A k \in S : ~(<<k, m>> \in OpToRel(<, Nat))
  BY NatLessThanWellFounded, WFMin
<1>2. \A k \in S : ~(k < m)
  BY <1>1 DEF OpToRel
<1> QED BY <1>2
-----------------------------------------------------------------------------
(***************************************************************************)
(* Lists                                                                   *)
(***************************************************************************)
-----------------------------------------------------------------------------
(***************************************************************************)
(* Recursive functions of a number                                         *)
(***************************************************************************)
\* Induction, over a set: one that holds 0 and every successor of its members
\* holds every natural number.
LEMMA EveryNat ==
    ASSUME NEW S, 0 \in S, \A n \in Nat : n \in S => n + 1 \in S
    PROVE  \A n \in Nat : n \in S
<1> DEFINE Out == {n \in Nat : n \notin S}
<1>1. ASSUME Out # {} PROVE FALSE
  <2>1. PICK m \in Out : \A k \in Out : m <= k
    BY <1>1, LeastNat
  <2>2. m \in Nat /\ m # 0 /\ m - 1 \in Nat /\ ~(m <= m - 1)
    BY <2>1
  <2>3. m - 1 \in S
    BY <2>1, <2>2
  <2>4. (m - 1) + 1 \in S /\ (m - 1) + 1 = m
    BY <2>2, <2>3
  <2> QED BY <2>1, <2>4
<1> QED BY <1>1

\* g is what step makes of a, round after round, up to round n.
IsIterate(g, D, a, step, n) ==
    g \in [0..n -> D] /\ g[0] = a /\ \A k \in 1..n : g[k] = step[<<k, g[k - 1]>>]

LEMMA IterateMore ==
    ASSUME NEW D, NEW a \in D, NEW step \in [Nat \X D -> D], NEW n \in Nat,
           NEW g, IsIterate(g, D, a, step, n)
    PROVE  \E h : IsIterate(h, D, a, step, n + 1)
<1> DEFINE h == [k \in 0..(n + 1) |-> IF k = n + 1 THEN step[<<n + 1, g[n]>>] ELSE g[k]]
<1>1. /\ g \in [0..n -> D] /\ g[0] = a
      /\ \A k \in 1..n : g[k] = step[<<k, g[k - 1]>>]
  BY DEF IsIterate
<1>2. \A k \in 0..(n + 1) : k # n + 1 => k \in 0..n
  OBVIOUS
<1>3. n \in 0..n /\ n + 1 \in Nat
  OBVIOUS
<1>4. step[<<n + 1, g[n]>>] \in D
  <2>1. g[n] \in D
    BY <1>1, <1>3
  <2>2. <<n + 1, g[n]>> \in Nat \X D
    BY <2>1, <1>3
  <2> QED BY <2>2
<1>5. h \in [0..(n + 1) -> D]
  BY <1>1, <1>2, <1>4
<1>6. 0 \in 0..(n + 1) /\ 0 # n + 1
  OBVIOUS
<1>7. h[0] = a
  BY <1>1, <1>6
<1>8. ASSUME NEW k \in 1..(n + 1) PROVE h[k] = step[<<k, h[k - 1]>>]
  <2>1. k \in 0..(n + 1) /\ k - 1 \in 0..(n + 1) /\ k - 1 # n + 1
    OBVIOUS
  <2>2. h[k - 1] = g[k - 1]
    BY <2>1
  <2>3. CASE k = n + 1
    <3>1. k - 1 = n
      BY <2>3
    <3> QED BY <2>1, <2>2, <2>3, <3>1
  <2>4. CASE k # n + 1
    <3>1. k \in 1..n
      BY <2>4
    <3> QED BY <2>1, <2>2, <2>4, <3>1, <1>1
  <2> QED BY <2>3, <2>4
<1> HIDE DEF h
<1> QED BY <1>5, <1>7, <1>8 DEF IsIterate

LEMMA IterateSame ==
    ASSUME NEW D, NEW a, NEW step, NEW n \in Nat, NEW m \in Nat, n <= m,
           NEW g, IsIterate(g, D, a, step, n), NEW h, IsIterate(h, D, a, step, m)
    PROVE  \A k \in 0..n : g[k] = h[k]
<1> DEFINE S == {k \in Nat : k <= n => g[k] = h[k]}
<1>1. 0 \in S
  BY DEF IsIterate
<1>2. ASSUME NEW k \in Nat, k \in S PROVE k + 1 \in S
  <2>1. CASE k + 1 <= n
    <3>1. k + 1 \in 1..n /\ k + 1 \in 1..m /\ k <= n /\ (k + 1) - 1 = k
      BY <2>1
    <3>2. g[k] = h[k]
      BY <1>2, <3>1
    <3>3. g[k + 1] = step[<<k + 1, g[k]>>] /\ h[k + 1] = step[<<k + 1, h[k]>>]
      BY <3>1 DEF IsIterate
    <3> QED BY <3>2, <3>3
  <2> QED BY <2>1
<1> HIDE DEF S
<1>3. \A k \in Nat : k \in S
  BY <1>1, <1>2, EveryNat
<1> QED BY <1>3 DEF S

\* f is a at 0, and after that what step makes of its value before.
Iterates(f, D, a, step) ==
    f \in [Nat -> D] /\ f[0] = a /\ \A n \in Nat \ {0} : f[n] = step[<<n, f[n - 1]>>]

\* There is such a function.
LEMMA Iterate ==
    ASSUME NEW D, NEW a \in D, NEW step \in [Nat \X D -> D]
    PROVE  \E f : Iterates(f, D, a, step)
<1> DEFINE S == {n \in Nat : \E g : IsIterate(g, D, a, step, n)}
           part(n) == CHOOSE g : IsIterate(g, D, a, step, n)
           f == [n \in Nat |-> part(n)[n]]
<1>1. \A n \in Nat : n \in S
  <2>1. IsIterate([k \in 0..0 |-> a], D, a, step, 0)
    BY DEF IsIterate
  <2>2. 0 \in S
    BY <2>1
  <2>3. ASSUME NEW n \in Nat, n \in S PROVE n + 1 \in S
    <3>1. PICK g : IsIterate(g, D, a, step, n)
      BY <2>3
    <3> QED BY <3>1, IterateMore
  <2> HIDE DEF S
  <2> QED BY <2>2, <2>3, EveryNat
<1>2. \A n \in Nat : IsIterate(part(n), D, a, step, n)
  BY <1>1
<1> HIDE DEF part
<1>3. ASSUME NEW n \in Nat PROVE f[n] \in D
  <2>1. n \in 0..n
    OBVIOUS
  <2> QED BY <1>2, <2>1 DEF IsIterate
<1>4. f \in [Nat -> D]
  BY <1>3
<1>5. f[0] = a
  BY <1>2 DEF IsIterate
<1>6. ASSUME NEW n \in Nat \ {0} PROVE f[n] = step[<<n, f[n - 1]>>]
  <2>1. n - 1 \in Nat /\ n - 1 \in 0..(n - 1) /\ n \in 1..n /\ n - 1 <= n
    OBVIOUS
  <2>2. part(n)[n] = step[<<n, part(n)[n - 1]>>]
    BY <1>2, <2>1 DEF IsIterate
  <2>3. part(n - 1)[n - 1] = part(n)[n - 1]
    BY <1>2, <2>1, IterateSame
  <2> QED BY <2>1, <2>2, <2>3
<1> HIDE DEF f
<1>7. Iterates(f, D, a, step)
  BY <1>4, <1>5, <1>6 DEF Iterates
<1> QED BY <1>7
-----------------------------------------------------------------------------
\* A node taken out of a list leaves the others in their order: erase of a
\* std::list.
LEMMA NodeOut ==
    ASSUME NEW S, NEW s \in Seq(S), NEW i \in 1..Len(s)
    PROVE  LET t == SubSeq(s, 1, i - 1) \o SubSeq(s, i + 1, Len(s))
           IN  /\ t \in Seq(S)
               /\ Len(t) = Len(s) - 1
               /\ \A j \in 1..Len(t) : t[j] = IF j < i THEN s[j] ELSE s[j + 1]
<1> DEFINE a == SubSeq(s, 1, i - 1)
           b == SubSeq(s, i + 1, Len(s))
<1>0. Len(s) \in Nat /\ \A j \in 1..Len(s) : s[j] \in S
  BY ElementOfSeq, LenProperties
<1>1. a \in Seq(S) /\ Len(a) = i - 1 /\ \A j \in 1..(i - 1) : a[j] = s[j]
  BY <1>0, SubSeqProperties
<1>2. b \in Seq(S) /\ Len(b) = Len(s) - i /\ \A j \in 1..(Len(s) - i) : b[j] = s[i + j]
  BY <1>0, SubSeqProperties
<1> HIDE DEF a, b
<1>3. /\ a \o b \in Seq(S)
      /\ Len(a \o b) = Len(a) + Len(b)
      /\ \A j \in 1..(Len(a) + Len(b)) :
           (a \o b)[j] = IF j <= Len(a) THEN a[j] ELSE b[j - Len(a)]
  BY <1>1, <1>2, ConcatProperties
<1>4. Len(a \o b) = Len(s) - 1
  BY <1>0, <1>1, <1>2, <1>3
<1>5. ASSUME NEW j \in 1..Len(a \o b)
      PROVE  (a \o b)[j] = IF j < i THEN s[j] ELSE s[j + 1]
  <2>1. CASE j < i
    BY <2>1, <1>0, <1>1, <1>2, <1>3, <1>4
  <2>2. CASE ~(j < i)
    <3>1. j \in 1..(Len(a) + Len(b)) /\ j - Len(a) \in 1..(Len(s) - i) /\ ~(j <= Len(a))
      BY <2>2, <1>0, <1>1, <1>2, <1>4
    <3>2. (a \o b)[j] = b[j - Len(a)]
      BY <3>1, <1>3
    <3>3. b[j - Len(a)] = s[i + (j - Len(a))]
      BY <3>1, <1>2
    <3>4. i + (j - Len(a)) = j + 1
      BY <1>0, <1>1
    <3> QED BY <3>2, <3>3, <3>4, <2>2
  <2> QED BY <2>1, <2>2
<1> QED BY <1>3, <1>4, <1>5 DEF a, b
-----------------------------------------------------------------------------
(***************************************************************************)
(* Sums                                                                    *)
(***************************************************************************)
\* run[k] is the sum of the first k members of s, for k up to n.
IsRunning(run, s, n) ==
    /\ run \in [0..n -> Int]
    /\ run[0] = 0
    /\ \A k \in 1..n : run[k] = run[k - 1] + s[k]

Integers(s) == Len(s) \in Nat /\ \A k \in 1..Len(s) : s[k] \in Int

\* Every list of integers has its running sum.
LEMMA RunningExists ==
    ASSUME NEW s, Integers(s)
    PROVE  \E run : IsRunning(run, s, Len(s))
<1> DEFINE S == {n \in 0..Len(s) : ~ \E run : IsRunning(run, s, n)}
<1>0. Len(s) \in Nat /\ \A k \in 1..Len(s) : s[k] \in Int
  BY DEF Integers
<1>1. ASSUME S # {} PROVE FALSE
  <2>1. S \subseteq Nat
    BY <1>0
  <2>2. PICK m \in S : \A k \in S : m <= k
    BY <2>1, <1>1, LeastNat
  <2>3. m \in 0..Len(s) /\ m \in Nat
    BY <2>1
  <2>4. m # 0
    <3>1. IsRunning([k \in 0..0 |-> 0], s, 0)
      BY DEF IsRunning
    <3> QED BY <3>1
  <2>5. m - 1 \in 0..Len(s) /\ m \in 1..Len(s) /\ ~(m <= m - 1)
    BY <2>3, <2>4, <1>0
  <2>6. PICK run : IsRunning(run, s, m - 1)
    BY <2>2, <2>5
  <2> DEFINE more == [k \in 0..m |-> IF k = m THEN run[m - 1] + s[m] ELSE run[k]]
  <2>7. run[m - 1] + s[m] \in Int /\ \A k \in 0..m : k # m => k \in 0..(m - 1)
    BY <2>3, <2>5, <2>6, <1>0 DEF IsRunning
  <2>8. more \in [0..m -> Int]
    BY <2>6, <2>7 DEF IsRunning
  <2>9. more[0] = 0
    BY <2>3, <2>4, <2>6 DEF IsRunning
  <2>10. ASSUME NEW k \in 1..m PROVE more[k] = more[k - 1] + s[k]
    <3>1. k \in 0..m /\ k - 1 \in 0..m /\ k - 1 # m
      BY <2>3
    <3>2. CASE k = m
      BY <3>1, <3>2
    <3>3. CASE k # m
      <4>1. k \in 1..(m - 1)
        BY <3>3, <2>3
      <4> QED BY <4>1, <3>1, <3>3, <2>6 DEF IsRunning
    <3> QED BY <3>2, <3>3
  <2> HIDE DEF more
  <2>11. IsRunning(more, s, m)
    BY <2>8, <2>9, <2>10 DEF IsRunning
  <2> QED BY <2>11, <2>2
<1>2. Len(s) \in 0..Len(s)
  BY <1>0
<1> QED BY <1>1, <1>2

\* The sum is where it ends, whichever way it was found.
LEMMA RunningTotal ==
    ASSUME NEW s, Len(s) \in Nat, NEW run, IsRunning(run, s, Len(s))
    PROVE  Total(s) = run[Len(s)]
<1> DEFINE F(f) == [n \in 0..Len(s) |-> IF n = 0 THEN 0 ELSE f[n - 1] + s[n]]
           up   == CHOOSE f : f = F(f)
<1>1. run = F(run)
  BY DEF IsRunning
<1>2. up = F(up)
  BY <1>1
<1>3. Total(s) = up[Len(s)]
  BY DEF Total
<1> DEFINE S == {n \in 0..Len(s) : up[n] # run[n]}
<1>4. ASSUME S # {} PROVE FALSE
  <2>1. S \subseteq Nat
    OBVIOUS
  <2>2. PICK m \in S : \A k \in S : m <= k
    BY <2>1, <1>4, LeastNat
  <2>3. m \in 0..Len(s) /\ m \in Nat
    BY <2>1
  <2>4. up[m] = IF m = 0 THEN 0 ELSE up[m - 1] + s[m]
    BY <2>3, <1>2
  <2>5. run[m] = IF m = 0 THEN 0 ELSE run[m - 1] + s[m]
    BY <2>3, <1>1
  <2>6. m # 0 => m - 1 \in 0..Len(s) /\ ~(m <= m - 1)
    BY <2>3
  <2>7. m # 0 => up[m - 1] = run[m - 1]
    BY <2>6, <2>2
  <2> QED BY <2>2, <2>4, <2>5, <2>7
<1> HIDE DEF up
<1>5. up[Len(s)] = run[Len(s)]
  BY <1>4
<1> QED BY <1>3, <1>5

\* Nothing adds up to nothing.
LEMMA TotalEmpty == ASSUME NEW s, Integers(s), Len(s) = 0 PROVE Total(s) = 0
<1>1. IsRunning([k \in 0..0 |-> 0], s, Len(s))
  BY DEF IsRunning
<1> QED BY <1>1, RunningTotal

\* A sum of integers is an integer.
LEMMA TotalType == ASSUME NEW s, Integers(s) PROVE Total(s) \in Int
<1>1. PICK run : IsRunning(run, s, Len(s))
  BY RunningExists
<1>2. Len(s) \in Nat /\ Total(s) = run[Len(s)]
  BY <1>1, RunningTotal DEF Integers
<1> QED BY <1>1, <1>2 DEF IsRunning

\* One more at the end adds that one.
LEMMA TotalMore ==
    ASSUME NEW s, Integers(s), NEW t, Integers(t), Len(t) = Len(s) + 1,
           \A k \in 1..Len(s) : t[k] = s[k]
    PROVE  Total(t) = Total(s) + t[Len(t)]
<1>0. Len(s) \in Nat /\ Len(t) \in Nat
  BY DEF Integers
<1>1. PICK run : IsRunning(run, t, Len(t))
  BY RunningExists
<1> DEFINE run2 == [k \in 0..Len(s) |-> run[k]]
<1>2. IsRunning(run2, s, Len(s))
  <2>1. \A k \in 0..Len(s) : k \in 0..Len(t)
    BY <1>0
  <2>2. \A k \in 1..Len(s) : k \in 1..Len(t) /\ k \in 0..Len(s) /\ k - 1 \in 0..Len(s)
    BY <1>0
  <2> QED BY <2>1, <2>2, <1>0, <1>1 DEF IsRunning
<1>3. Total(s) = run2[Len(s)] /\ Total(t) = run[Len(t)]
  BY <1>0, <1>1, <1>2, RunningTotal
<1>4. run[Len(t)] = run[Len(s)] + t[Len(t)]
  <2>1. Len(t) \in 1..Len(t) /\ Len(t) - 1 = Len(s)
    BY <1>0
  <2> QED BY <2>1, <1>1 DEF IsRunning
<1> QED BY <1>0, <1>3, <1>4

\* t is s without its i-th member.
Without(t, s, i) ==
    /\ Len(t) = Len(s) - 1
    /\ \A k \in 1..Len(t) : t[k] = IF k < i THEN s[k] ELSE s[k + 1]

\* There is one such sequence: what erase leaves, or pop_front.
LEMMA WithoutIs ==
    ASSUME NEW S, NEW s \in Seq(S), NEW i \in 1..Len(s), NEW t \in Seq(S), Without(t, s, i)
    PROVE  /\ t = SubSeq(s, 1, i - 1) \o SubSeq(s, i + 1, Len(s))
           /\ i = 1 => s # <<>> /\ t = Tail(s)
<1> DEFINE r == SubSeq(s, 1, i - 1) \o SubSeq(s, i + 1, Len(s))
<1>1. /\ r \in Seq(S) /\ Len(r) = Len(s) - 1
      /\ \A k \in 1..Len(r) : r[k] = IF k < i THEN s[k] ELSE s[k + 1]
  BY NodeOut
<1>2. s # <<>> /\ Len(s) \in Nat
  BY EmptySeq, LenProperties
<1>3. /\ Tail(s) \in Seq(S) /\ Len(Tail(s)) = Len(s) - 1
      /\ \A k \in 1..Len(Tail(s)) : Tail(s)[k] = s[k + 1]
  BY <1>2, HeadTailProperties
<1> HIDE DEF r
<1>4. Len(t) = Len(s) - 1 /\ \A k \in 1..Len(t) : t[k] = IF k < i THEN s[k] ELSE s[k + 1]
  BY DEF Without
<1>5. t = r
  BY <1>1, <1>4, SeqEqual
<1>6. ASSUME i = 1 PROVE t = Tail(s)
  <2>1. \A k \in 1..Len(t) : t[k] = Tail(s)[k]
    BY <1>2, <1>3, <1>4, <1>6
  <2> QED BY <2>1, <1>3, <1>4, SeqEqual
<1> QED BY <1>2, <1>5, <1>6 DEF r

\* The running sum without the i-th.
LEMMA RunningLess ==
    ASSUME NEW s, Integers(s), NEW i \in 1..Len(s), NEW t, Without(t, s, i),
           NEW run, IsRunning(run, s, Len(s))
    PROVE  \E run2 : IsRunning(run2, t, Len(t)) /\ run2[Len(t)] = run[Len(s)] - s[i]
<1> DEFINE n == Len(s)
<1>0. /\ n \in Nat /\ \A k \in 1..n : s[k] \in Int
      /\ i \in 1..n /\ Len(t) = n - 1 /\ IsRunning(run, s, n)
      /\ \A k \in 1..(n - 1) : t[k] = IF k < i THEN s[k] ELSE s[k + 1]
  BY DEF Integers, Without
<1> HIDE DEF n
<1> DEFINE run2 == [k \in 0..(n - 1) |-> IF k < i THEN run[k] ELSE run[k + 1] - s[i]]
<1>1. /\ run[0] = 0 /\ \A k \in 0..n : run[k] \in Int
      /\ \A k \in 1..n : run[k] = run[k - 1] + s[k]
  BY <1>0 DEF IsRunning
<1>2. s[i] \in Int /\ i >= 1 /\ i <= n /\ i \in Int /\ n \in Int
  BY <1>0
<1>3. run2 \in [0..(n - 1) -> Int] /\ run2[0] = 0
  <2>1. ASSUME NEW k \in 0..(n - 1) PROVE k \in 0..n /\ k + 1 \in 0..n
    BY <1>2
  <2>2. \A k \in 0..(n - 1) : run[k] \in Int /\ run[k + 1] - s[i] \in Int
    BY <2>1, <1>1, <1>2
  <2>3. 0 \in 0..(n - 1) /\ 0 < i
    BY <1>2
  <2> QED BY <2>2, <2>3, <1>1
<1>4. ASSUME NEW k \in 1..(n - 1) PROVE run2[k] = run2[k - 1] + t[k]
  <2>1. /\ k \in 0..(n - 1) /\ k - 1 \in 0..(n - 1) /\ k \in 1..n /\ k + 1 \in 1..n
        /\ (k - 1) + 1 = k /\ (k + 1) - 1 = k /\ k \in Int
        /\ t[k] = IF k < i THEN s[k] ELSE s[k + 1]
    BY <1>0
  <2>2. /\ run[k] = run[k - 1] + s[k] /\ run[k + 1] = run[k] + s[k + 1]
        /\ run[k - 1] \in Int /\ s[k] \in Int /\ s[k + 1] \in Int
    BY <2>1, <1>0, <1>1
  <2>3. CASE k < i
    BY <2>1, <2>2, <2>3, <1>2
  <2>4. CASE k = i
    <3>1. run2[k] = run[k + 1] - s[k] /\ run2[k - 1] = run[k - 1] /\ t[k] = s[k + 1]
      BY <2>1, <2>4
    <3> HIDE DEF run2
    <3> QED BY <3>1, <2>2
  <2>5. CASE k > i
    <3>1. run2[k] = run[k + 1] - s[i] /\ run2[k - 1] = run[k] - s[i] /\ t[k] = s[k + 1]
      BY <2>1, <2>5, <1>2
    <3> HIDE DEF run2
    <3> QED BY <3>1, <2>2, <1>2
  <2> QED BY <2>1, <2>3, <2>4, <2>5, <1>2
<1>5. run2[n - 1] = run[n] - s[i]
  <2>1. run[n] = run[n - 1] + s[n] /\ run[n - 1] \in Int /\ s[n] \in Int
    BY <1>0, <1>1, <1>2
  <2>2. n - 1 < i => i = n
    BY <1>2
  <2> QED BY <2>1, <2>2, <1>2
<1> HIDE DEF run2
<1>6. IsRunning(run2, t, n - 1)
  BY <1>3, <1>4 DEF IsRunning
<1> QED BY <1>0, <1>5, <1>6 DEF n

\* One taken out takes that one off.
LEMMA TotalLess ==
    ASSUME NEW s, Integers(s), NEW i \in 1..Len(s), NEW t, Without(t, s, i), Integers(t)
    PROVE  Total(t) = Total(s) - s[i]
<1>1. PICK run : IsRunning(run, s, Len(s))
  BY RunningExists
<1>2. \E run2 : IsRunning(run2, t, Len(t)) /\ run2[Len(t)] = run[Len(s)] - s[i]
  BY <1>1, RunningLess
<1> QED BY <1>1, <1>2, RunningTotal DEF Integers

\* The running sum with the i-th changed.
LEMMA RunningChanged ==
    ASSUME NEW n \in Nat, NEW s, NEW t, \A k \in 1..n : s[k] \in Int /\ t[k] \in Int,
           NEW i \in 1..n, \A k \in 1..n : k # i => t[k] = s[k],
           NEW run, IsRunning(run, s, n)
    PROVE  IsRunning([k \in 0..n |-> IF k < i THEN run[k] ELSE run[k] - s[i] + t[i]], t, n)
<1> DEFINE run2 == [k \in 0..n |-> IF k < i THEN run[k] ELSE run[k] - s[i] + t[i]]
<1>1. /\ run[0] = 0 /\ \A k \in 0..n : run[k] \in Int
      /\ \A k \in 1..n : run[k] = run[k - 1] + s[k]
  BY DEF IsRunning
<1>2. s[i] \in Int /\ t[i] \in Int /\ i >= 1 /\ i <= n /\ i \in Int
  OBVIOUS
<1>3. run2 \in [0..n -> Int] /\ run2[0] = 0
  BY <1>1, <1>2
<1>4. ASSUME NEW k \in 1..n PROVE run2[k] = run2[k - 1] + t[k]
  <2>1. k \in 0..n /\ k - 1 \in 0..n /\ k \in Int
    OBVIOUS
  <2>2. run[k] = run[k - 1] + s[k] /\ run[k - 1] \in Int /\ s[k] \in Int
    BY <2>1, <1>1
  <2>3. CASE k < i
    BY <2>1, <2>2, <2>3, <1>2
  <2>4. CASE k = i
    <3>1. run2[k] = run[k] - s[k] + t[k] /\ run2[k - 1] = run[k - 1]
      BY <2>1, <2>4
    <3> HIDE DEF run2
    <3> QED BY <3>1, <2>2, <2>4, <1>2
  <2>5. CASE k > i
    <3>1. run2[k] = run[k] - s[i] + t[i] /\ run2[k - 1] = run[k - 1] - s[i] + t[i]
          /\ t[k] = s[k]
      BY <2>1, <2>5, <1>2
    <3> HIDE DEF run2
    <3> QED BY <3>1, <2>2, <1>2
  <2> QED BY <2>1, <2>3, <2>4, <2>5, <1>2
<1> HIDE DEF run2
<1>5. IsRunning(run2, t, n)
  BY <1>3, <1>4 DEF IsRunning
<1> QED BY <1>5 DEF run2

\* One changed changes the sum by as much.
LEMMA TotalChanged ==
    ASSUME NEW s, Integers(s), NEW t, Integers(t), NEW i \in 1..Len(s), Len(t) = Len(s),
           \A k \in 1..Len(s) : k # i => t[k] = s[k]
    PROVE  Total(t) = Total(s) - s[i] + t[i]
<1>1. /\ Len(s) \in Nat /\ Len(s) \in 0..Len(s) /\ ~(Len(s) < i)
      /\ \A k \in 1..Len(s) : s[k] \in Int /\ t[k] \in Int
  BY DEF Integers
<1>2. PICK run : IsRunning(run, s, Len(s))
  BY RunningExists
<1> DEFINE run2 == [k \in 0..Len(s) |-> IF k < i THEN run[k] ELSE run[k] - s[i] + t[i]]
<1>3. IsRunning(run2, t, Len(t))
  BY <1>1, <1>2, RunningChanged
<1>4. run2[Len(t)] = run[Len(s)] - s[i] + t[i]
  BY <1>1
<1> HIDE DEF run2
<1> QED BY <1>1, <1>2, <1>3, <1>4, RunningTotal

\* Quantities above 0 add up to one above 0, if there are any.
LEMMA TotalPositive ==
    ASSUME NEW s, Len(s) \in Nat \ {0}, \A k \in 1..Len(s) : s[k] \in Nat \ {0}
    PROVE  Total(s) > 0
<1>0. Integers(s) /\ Len(s) \in Nat /\ Len(s) # 0 /\ \A k \in 1..Len(s) : s[k] \in Nat \ {0}
  BY DEF Integers
<1>1. PICK run : IsRunning(run, s, Len(s))
  BY <1>0, RunningExists
<1>2. /\ run[0] = 0 /\ \A k \in 0..Len(s) : run[k] \in Int
      /\ \A k \in 1..Len(s) : run[k] = run[k - 1] + s[k]
  BY <1>1 DEF IsRunning
<1> DEFINE S == {k \in 1..Len(s) : ~(run[k] > 0)}
<1>3. ASSUME S # {} PROVE FALSE
  <2>1. S \subseteq Nat
    BY <1>0
  <2>2. PICK m \in S : \A k \in S : m <= k
    BY <2>1, <1>3, LeastNat
  <2>3. m \in 1..Len(s) /\ m \in Nat /\ m - 1 \in 0..Len(s) /\ ~(m <= m - 1)
    BY <2>1
  <2>4. run[m - 1] \in Int /\ run[m - 1] >= 0
    <3>1. CASE m = 1
      BY <3>1, <1>2
    <3>2. CASE m # 1
      <4>1. m - 1 \in 1..Len(s)
        BY <3>2, <2>3
      <4>2. run[m - 1] > 0
        BY <4>1, <2>2, <2>3
      <4>3. run[m - 1] \in Int
        BY <2>3, <1>2
      <4> HIDE DEF S
      <4> QED BY <4>2, <4>3
    <3> QED BY <3>1, <3>2
  <2>5. run[m] = run[m - 1] + s[m] /\ s[m] \in Nat \ {0}
    BY <2>3, <1>0, <1>2
  <2>6. run[m] > 0
    BY <2>4, <2>5
  <2> QED BY <2>2, <2>6
<1>4. run[Len(s)] > 0
  BY <1>0, <1>3
<1> QED BY <1>0, <1>1, <1>4, RunningTotal
-----------------------------------------------------------------------------
(***************************************************************************)
(* What the orders of a list have left                                     *)
(***************************************************************************)
Lefts(orders) == [i \in DOMAIN orders |-> orders[i].remainQty]

\* S is a set of orders.
Orders(S) == \A o \in S : o.remainQty \in Nat \ {0}

\* The quantities of a list of orders.
LEMMA LeftsOfOrders ==
    ASSUME NEW S, Orders(S), NEW orders \in Seq(S)
    PROVE  /\ Integers(Lefts(orders))
           /\ Len(orders) \in Nat /\ Len(Lefts(orders)) = Len(orders)
           /\ \A i \in 1..Len(orders) :
                Lefts(orders)[i] = orders[i].remainQty /\ orders[i].remainQty \in Nat \ {0}
           /\ TotalLeft(orders) = Total(Lefts(orders))
<1>1. Len(orders) \in Nat /\ DOMAIN orders = 1..Len(orders) /\ \A i \in 1..Len(orders) : orders[i] \in S
  BY LenProperties, ElementOfSeq
<1>2. \A i \in 1..Len(orders) :
        Lefts(orders)[i] = orders[i].remainQty /\ orders[i].remainQty \in Nat \ {0}
  BY <1>1 DEF Lefts, Orders
<1>3. Lefts(orders) \in [1..Len(orders) -> Int]
  BY <1>1, <1>2 DEF Lefts
<1>4. Len(Lefts(orders)) = Len(orders)
  <2>1. Lefts(orders) \in Seq(Int)
    BY <1>1, <1>3, SeqDef
  <2> QED BY <2>1, <1>1, <1>3, LenProperties
<1> QED BY <1>1, <1>2, <1>4 DEF Integers, TotalLeft, Lefts

\* It is an integer, above 0 if there are orders and 0 if there are none.
LEMMA LeftType ==
    ASSUME NEW S, Orders(S), NEW orders \in Seq(S)
    PROVE  /\ TotalLeft(orders) \in Int
           /\ orders = <<>> => TotalLeft(orders) = 0
           /\ orders # <<>> => TotalLeft(orders) > 0
<1>1. TotalLeft(orders) \in Int
  BY LeftsOfOrders, TotalType
<1>2. ASSUME orders = <<>> PROVE TotalLeft(orders) = 0
  <2>1. Len(Lefts(orders)) = 0
    BY <1>2, LeftsOfOrders, EmptySeq
  <2> QED BY <2>1, LeftsOfOrders, TotalEmpty
<1>3. ASSUME orders # <<>> PROVE TotalLeft(orders) > 0
  <2>1. Len(orders) # 0
    BY <1>3, EmptySeq
  <2>2. Len(Lefts(orders)) \in Nat \ {0}
    BY <2>1, LeftsOfOrders
  <2>3. \A i \in 1..Len(Lefts(orders)) : Lefts(orders)[i] \in Nat \ {0}
    BY LeftsOfOrders
  <2> QED BY <2>2, <2>3, LeftsOfOrders, TotalPositive
<1> QED BY <1>1, <1>2, <1>3

\* push_back adds what the order has left.
LEMMA LeftMore ==
    ASSUME NEW S, Orders(S), NEW orders \in Seq(S), NEW o \in S
    PROVE  TotalLeft(Append(orders, o)) = TotalLeft(orders) + o.remainQty
<1> DEFINE more == Append(orders, o)
<1>1. /\ more \in Seq(S) /\ Len(more) = Len(orders) + 1 /\ more[Len(more)] = o
      /\ \A i \in 1..Len(orders) : more[i] = orders[i]
  BY AppendProperties
<1> HIDE DEF more
<1>2. /\ Integers(Lefts(orders)) /\ Integers(Lefts(more)) /\ Len(orders) \in Nat
      /\ Len(Lefts(orders)) = Len(orders) /\ Len(Lefts(more)) = Len(more)
      /\ \A i \in 1..Len(orders) : Lefts(orders)[i] = orders[i].remainQty
      /\ \A i \in 1..Len(more) : Lefts(more)[i] = more[i].remainQty
      /\ TotalLeft(orders) = Total(Lefts(orders)) /\ TotalLeft(more) = Total(Lefts(more))
  BY <1>1, LeftsOfOrders
<1>3. \A i \in 1..Len(orders) : i \in 1..Len(more)
  BY <1>1, <1>2
<1>4. Len(more) \in 1..Len(more)
  BY <1>1, <1>2
<1>5. \A i \in 1..Len(Lefts(orders)) : Lefts(more)[i] = Lefts(orders)[i]
  BY <1>1, <1>2, <1>3
<1>6. Total(Lefts(more)) = Total(Lefts(orders)) + Lefts(more)[Len(Lefts(more))]
  BY <1>1, <1>2, <1>5, TotalMore
<1> QED BY <1>1, <1>2, <1>4, <1>6 DEF more

\* A node taken out takes off what it had left.
LEMMA LeftWithout ==
    ASSUME NEW S, Orders(S), NEW orders \in Seq(S), NEW i \in 1..Len(orders),
           NEW rest \in Seq(S), Without(rest, orders, i)
    PROVE  TotalLeft(rest) = TotalLeft(orders) - orders[i].remainQty
<1>1. /\ Integers(Lefts(orders)) /\ Integers(Lefts(rest)) /\ Len(orders) \in Nat
      /\ Len(Lefts(orders)) = Len(orders) /\ Len(Lefts(rest)) = Len(rest)
      /\ \A k \in 1..Len(orders) : Lefts(orders)[k] = orders[k].remainQty
      /\ \A k \in 1..Len(rest) : Lefts(rest)[k] = rest[k].remainQty
      /\ TotalLeft(orders) = Total(Lefts(orders)) /\ TotalLeft(rest) = Total(Lefts(rest))
  BY LeftsOfOrders
<1>2. Without(Lefts(rest), Lefts(orders), i)
  <2>1. ASSUME NEW k \in 1..Len(rest)
        PROVE  Lefts(rest)[k] = IF k < i THEN Lefts(orders)[k] ELSE Lefts(orders)[k + 1]
    <3>1. k \in 1..Len(orders) /\ k + 1 \in 1..Len(orders)
      BY <1>1 DEF Without
    <3>2. rest[k] = IF k < i THEN orders[k] ELSE orders[k + 1]
      BY DEF Without
    <3> QED BY <3>1, <3>2, <1>1
  <2> QED BY <2>1, <1>1 DEF Without
<1>3. Total(Lefts(rest)) = Total(Lefts(orders)) - Lefts(orders)[i]
  BY <1>1, <1>2, TotalLess
<1> QED BY <1>1, <1>3

\* pop_front.
LEMMA LeftTail ==
    ASSUME NEW S, Orders(S), NEW orders \in Seq(S), orders # <<>>
    PROVE  TotalLeft(Tail(orders)) = TotalLeft(orders) - Head(orders).remainQty
<1>1. /\ Tail(orders) \in Seq(S) /\ Len(Tail(orders)) = Len(orders) - 1
      /\ \A k \in 1..Len(Tail(orders)) : Tail(orders)[k] = orders[k + 1]
      /\ 1 \in 1..Len(orders) /\ Head(orders) = orders[1] /\ Len(orders) \in Nat
  BY HeadTailProperties, LenProperties
<1>2. Without(Tail(orders), orders, 1)
  BY <1>1 DEF Without
<1> QED BY <1>1, <1>2, LeftWithout

\* erase.
LEMMA LeftOut ==
    ASSUME NEW S, Orders(S), NEW orders \in Seq(S), NEW i \in 1..Len(orders)
    PROVE  TotalLeft(SubSeq(orders, 1, i - 1) \o SubSeq(orders, i + 1, Len(orders))) =
               TotalLeft(orders) - orders[i].remainQty
<1> DEFINE rest == SubSeq(orders, 1, i - 1) \o SubSeq(orders, i + 1, Len(orders))
<1>1. rest \in Seq(S) /\ Without(rest, orders, i)
  BY NodeOut DEF Without
<1> HIDE DEF rest
<1>2. TotalLeft(rest) = TotalLeft(orders) - orders[i].remainQty
  BY <1>1, LeftWithout
<1> QED BY <1>2 DEF rest

\* A trade with the front takes off what is traded.
LEMMA LeftFront ==
    ASSUME NEW S, Orders(S), NEW orders \in Seq(S), orders # <<>>, NEW o \in S
    PROVE  TotalLeft([orders EXCEPT ![1] = o]) =
               TotalLeft(orders) - Head(orders).remainQty + o.remainQty
<1> DEFINE new == [orders EXCEPT ![1] = o]
<1>1. /\ 1 \in 1..Len(orders) /\ Head(orders) = orders[1]
      /\ new \in Seq(S) /\ Len(new) = Len(orders)
      /\ \A k \in 1..Len(orders) : new[k] = IF k = 1 THEN o ELSE orders[k]
  <2>1. 1 \in 1..Len(orders) /\ Head(orders) = orders[1]
    BY HeadTailProperties
  <2> QED BY <2>1, ExceptSeq
<1> HIDE DEF new
<1>2. /\ Integers(Lefts(orders)) /\ Integers(Lefts(new)) /\ Len(orders) \in Nat
      /\ Len(Lefts(orders)) = Len(orders) /\ Len(Lefts(new)) = Len(orders)
      /\ \A k \in 1..Len(orders) : /\ Lefts(orders)[k] = orders[k].remainQty
                                   /\ Lefts(new)[k] = new[k].remainQty
      /\ TotalLeft(orders) = Total(Lefts(orders)) /\ TotalLeft(new) = Total(Lefts(new))
  BY <1>1, LeftsOfOrders
<1>3. \A k \in 1..Len(Lefts(orders)) : k # 1 => Lefts(new)[k] = Lefts(orders)[k]
  BY <1>1, <1>2
<1>4. Total(Lefts(new)) = Total(Lefts(orders)) - Lefts(orders)[1] + Lefts(new)[1]
  BY <1>1, <1>2, <1>3, TotalChanged
<1> QED BY <1>1, <1>2, <1>4 DEF new
=============================================================================
