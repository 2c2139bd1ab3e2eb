--------------------------- MODULE BookDemo_proofs ----------------------------
(***************************************************************************)
(* What book_demo tells of its script is right, for every script, every    *)
(* book and every price: the prices it reads, prints and rounds, the       *)
(* verdict it prints of an order, its ladder, and its summary.             *)
(*                                                                         *)
(* The first half is about common::Price and knows no state.  The second   *)
(* is about the program with the book it calls.  The steps of a book with  *)
(* a window, or a pool, are steps of the map, and two more that turn an    *)
(* order away; so one argument serves the four books.  It follows what     *)
(* every order holds (Held) through a trade, a rest and a cancel, in the   *)
(* terms of Sets below, and IInv adds up what they hold.  At the end are   *)
(* the book by itself and the ladder, which is a walk with an invariant.   *)
(***************************************************************************)
EXTENDS BookDemo, Lists_proofs, FiniteSetTheorems
-----------------------------------------------------------------------------
(***************************************************************************)
(* Rounding to a tick                                                      *)
(*                                                                         *)
(* It is right for every price and every tick size above 0, on both sides  *)
(* of zero, where C++ division truncates and floor does not.               *)
(***************************************************************************)
\* Division with remainder, of any integer by a positive one.
LEMMA DivMod ==
    ASSUME NEW m \in Int, NEW n \in Nat \ {0}
    PROVE  /\ m \div n \in Int
           /\ m % n \in 0..(n - 1)
           /\ m = (m \div n) * n + (m % n)
  OBVIOUS

\* A multiple leaves nothing.
LEMMA MultipleMod ==
    ASSUME NEW k \in Int, NEW n \in Nat \ {0}
    PROVE  (k * n) % n = 0
  OBVIOUS

\* ... and what leaves nothing is a multiple.
LEMMA ModMultiple ==
    ASSUME NEW m \in Int, NEW n \in Nat \ {0}, m % n = 0
    PROVE  \E k \in Int : m = k * n
<1> DEFINE k == m \div n
<1>1. k \in Int /\ m = k * n + (m % n)
  BY DivMod
<1> HIDE DEF k
<1>2. m = k * n
  BY <1>1
<1> QED BY <1>1, <1>2

\* Quotient and Remainder are the division of C++: the remainder has the sign
\* of the dividend and is smaller than the divisor.
LEMMA Truncation ==
    ASSUME NEW m \in Int, NEW n \in Nat \ {0}
    PROVE  /\ Quotient(m, n) \in Int
           /\ Remainder(m, n) \in Int
           /\ m = Quotient(m, n) * n + Remainder(m, n)
           /\ m >= 0 => Remainder(m, n) \in 0..(n - 1)
           /\ m <= 0 => -Remainder(m, n) \in 0..(n - 1)
<1>1. CASE m >= 0
  <2> DEFINE k == m \div n
             r == m % n
  <2>1. k \in Int /\ r \in 0..(n - 1) /\ m = k * n + r
    BY DivMod
  <2>2. Quotient(m, n) = k
    BY <1>1 DEF Quotient
  <2>3. m = 0 => r = 0
    OBVIOUS
  <2> HIDE DEF k, r
  <2>4. Remainder(m, n) = r
    BY <2>1, <2>2 DEF Remainder
  <2> QED BY <1>1, <2>1, <2>2, <2>3, <2>4
<1>2. CASE m < 0
  <2> DEFINE k == (-m) \div n
             r == (-m) % n
  <2>1. k \in Int /\ r \in 0..(n - 1) /\ -m = k * n + r
    BY <1>2, DivMod
  <2>2. Quotient(m, n) = -k
    BY <1>2 DEF Quotient
  <2> HIDE DEF k, r
  <2>3. (-k) * n = -(k * n) /\ k * n \in Int
    BY <2>1
  <2>4. Remainder(m, n) = -r
    BY <2>1, <2>2, <2>3 DEF Remainder
  <2> QED BY <1>2, <2>1, <2>2, <2>3, <2>4
<1> QED BY <1>1, <1>2

\* What is left of a multiple of n, plus a remainder that is smaller than n.
LEMMA QuotientOfSum ==
    ASSUME NEW m \in Int, NEW n \in Nat \ {0}, NEW k \in Int, NEW r \in Int,
           m = k * n + r,
           \/ m >= 0 /\ r \in 0..(n - 1)
           \/ m <= 0 /\ -r \in 0..(n - 1)
    PROVE  Quotient(m, n) = k
<1> DEFINE q == Quotient(m, n)
           s == Remainder(m, n)
<1>1. /\ q \in Int /\ s \in Int /\ m = q * n + s
      /\ m >= 0 => s \in 0..(n - 1)
      /\ m <= 0 => -s \in 0..(n - 1)
  BY Truncation
<1> HIDE DEF q, s
<1>2. (q - k) * n = r - s
  BY <1>1
<1>3. r - s < n /\ s - r < n
  BY <1>1
<1>4. CASE q - k >= 1
  <2>1. (q - k) * n >= n
    BY <1>4, <1>1
  <2> QED BY <1>2, <1>3, <2>1, <1>1
<1>5. CASE q - k <= -1
  <2>1. (q - k) * n <= -n
    BY <1>5, <1>1
  <2> QED BY <1>2, <1>3, <2>1, <1>1
<1>6. q = k
  BY <1>1, <1>4, <1>5
<1> QED BY <1>6 DEF q

\* round_down_to_tick is the greatest multiple of the tick size at or below
\* the price (price.hpp: "toward -infinity", also for a price below 0).
THEOREM RoundDownIsFloor ==
    \A ticks \in Int, tick_size \in Nat \ {0} :
        IsFloor(round_down_to_tick(ticks, tick_size), ticks, tick_size)
<1> SUFFICES ASSUME NEW t \in Int, NEW n \in Nat \ {0}
             PROVE  IsFloor(round_down_to_tick(t, n), t, n)
  OBVIOUS
<1> DEFINE q == Quotient(t, n)
           r == Remainder(t, n)
<1>1. /\ q \in Int /\ r \in Int /\ t = q * n + r
      /\ t >= 0 => r \in 0..(n - 1)
      /\ t <= 0 => -r \in 0..(n - 1)
  BY Truncation
<1>2. CASE t >= 0 \/ r = 0
  <2>1. round_down_to_tick(t, n) = q * n
    BY <1>2 DEF round_down_to_tick
  <2> HIDE DEF q, r
  <2>2. (q * n) % n = 0
    BY <1>1, MultipleMod
  <2>3. q * n <= t /\ t < q * n + n
    BY <1>1, <1>2
  <2> QED BY <2>1, <2>2, <2>3 DEF IsFloor
<1>3. CASE t < 0 /\ r # 0
  <2>1. round_down_to_tick(t, n) = Quotient(t - n, n) * n
    BY <1>3 DEF round_down_to_tick
  <2> HIDE DEF q, r
  <2>2. t - n = (q - 1) * n + r /\ q - 1 \in Int
    BY <1>1
  <2>3. Quotient(t - n, n) = q - 1
    BY <1>1, <1>3, <2>2, QuotientOfSum
  <2>4. ((q - 1) * n) % n = 0
    BY <1>1, MultipleMod
  <2>5. (q - 1) * n <= t /\ t < (q - 1) * n + n
    BY <1>1, <1>3, <2>2
  <2> QED BY <2>1, <2>3, <2>4, <2>5 DEF IsFloor
<1> QED BY <1>2, <1>3

\* round_up_to_tick is the least multiple at or above it.
THEOREM RoundUpIsCeiling ==
    \A ticks \in Int, tick_size \in Nat \ {0} :
        IsCeiling(round_up_to_tick(ticks, tick_size), ticks, tick_size)
<1> SUFFICES ASSUME NEW t \in Int, NEW n \in Nat \ {0}
             PROVE  IsCeiling(round_up_to_tick(t, n), t, n)
  OBVIOUS
<1> DEFINE q == Quotient(t, n)
           r == Remainder(t, n)
<1>1. /\ q \in Int /\ r \in Int /\ t = q * n + r
      /\ t >= 0 => r \in 0..(n - 1)
      /\ t <= 0 => -r \in 0..(n - 1)
  BY Truncation
<1>2. CASE t <= 0 \/ r = 0
  <2>1. round_up_to_tick(t, n) = q * n
    BY <1>2 DEF round_up_to_tick
  <2> HIDE DEF q, r
  <2>2. (q * n) % n = 0
    BY <1>1, MultipleMod
  <2>3. t <= q * n /\ q * n < t + n
    BY <1>1, <1>2
  <2> QED BY <2>1, <2>2, <2>3 DEF IsCeiling
<1>3. CASE t > 0 /\ r # 0
  <2>1. round_up_to_tick(t, n) = Quotient(t + n, n) * n
    BY <1>3 DEF round_up_to_tick
  <2> HIDE DEF q, r
  <2>2. t + n = (q + 1) * n + r /\ q + 1 \in Int
    BY <1>1
  <2>3. Quotient(t + n, n) = q + 1
    BY <1>1, <1>3, <2>2, QuotientOfSum
  <2>4. ((q + 1) * n) % n = 0
    BY <1>1, MultipleMod
  <2>5. t <= (q + 1) * n /\ (q + 1) * n < t + n
    BY <1>1, <1>3, <2>2
  <2> QED BY <2>1, <2>3, <2>4, <2>5 DEF IsCeiling
<1> QED BY <1>2, <1>3

\* is_on_tick, which compares the two, is divisibility.
THEOREM OnTickIsMultiple ==
    \A ticks \in Int, tick_size \in Nat \ {0} :
        is_on_tick(ticks, tick_size) <=> ticks % tick_size = 0
<1> SUFFICES ASSUME NEW t \in Int, NEW n \in Nat \ {0}
             PROVE  is_on_tick(t, n) <=> t % n = 0
  OBVIOUS
<1> DEFINE d == round_down_to_tick(t, n)
           u == round_up_to_tick(t, n)
<1>1. IsFloor(d, t, n) /\ IsCeiling(u, t, n)
  BY RoundDownIsFloor, RoundUpIsCeiling
<1>2. d \in Int /\ u \in Int
  <2>1. /\ Quotient(t, n) \in Int /\ Quotient(t - n, n) \in Int
        /\ Quotient(t + n, n) \in Int
    BY Truncation
  <2> QED BY <2>1 DEF round_down_to_tick, round_up_to_tick
<1> HIDE DEF d, u
<1>3. ASSUME d = u PROVE t % n = 0
  BY <1>1, <1>2, <1>3 DEF IsFloor, IsCeiling
<1>4. ASSUME t % n = 0 PROVE d = t /\ u = t
  <2>1. PICK a \in Int : t = a * n
    BY <1>4, ModMultiple
  <2>2. PICK b \in Int : d = b * n
    BY <1>1, <1>2, ModMultiple DEF IsFloor
  <2>3. PICK c \in Int : u = c * n
    BY <1>1, <1>2, ModMultiple DEF IsCeiling
  <2>4. ASSUME NEW x \in Int, NEW y \in Int, x * n <= y * n, y * n < x * n + n
        PROVE  x = y
    <3>1. (y - x) * n = y * n - x * n
      OBVIOUS
    <3>2. CASE y - x >= 1
      BY <2>4, <3>1, <3>2
    <3>3. CASE y - x <= -1
      BY <2>4, <3>1, <3>3
    <3> QED BY <3>2, <3>3
  <2>5. b = a
    BY <1>1, <2>1, <2>2, <2>4 DEF IsFloor
  <2>6. a = c
    BY <1>1, <2>1, <2>3, <2>4 DEF IsCeiling
  <2> QED BY <2>1, <2>2, <2>3, <2>5, <2>6
<1>5. is_on_tick(t, n) <=> d = u
  BY DEF is_on_tick, d, u
<1> QED BY <1>3, <1>4, <1>5
-----------------------------------------------------------------------------
(***************************************************************************)
(* Reading a price                                                         *)
(***************************************************************************)
\* The powers of ten.
LEMMA Powers ==
    /\ kPow10 \in [Nat -> Int]
    /\ kPow10[0] = 1
    /\ \A n \in Nat : kPow10[n + 1] = 10 * kPow10[n]
    /\ \A n \in Nat : kPow10[n] > 0
<1> DEFINE step == [at \in Nat \X Int |-> 10 * at[2]]
<1>1. step \in [Nat \X Int -> Int]
  OBVIOUS
<1>0. \E f : Iterates(f, Int, 1, step)
  <2> HIDE DEF step
  <2>1. 1 \in Int
    OBVIOUS
  <2> QED BY <1>1, <2>1, Iterate, Zenon
<1>2. PICK f : /\ f \in [Nat -> Int] /\ f[0] = 1
               /\ \A n \in Nat \ {0} : f[n] = step[<<n, f[n - 1]>>]
  BY <1>0 DEF Iterates
<1>3. ASSUME NEW n \in Nat \ {0} PROVE f[n] = 10 * f[n - 1] /\ n - 1 \in Nat
  <2>1. n - 1 \in Nat /\ f[n - 1] \in Int
    BY <1>2
  <2>2. <<n, f[n - 1]>> \in Nat \X Int /\ <<n, f[n - 1]>>[2] = f[n - 1]
    BY <2>1
  <2> QED BY <1>2, <2>1, <2>2
<1> HIDE DEF step
<1>4. f = [n \in Nat |-> IF n = 0 THEN 1 ELSE 10 * f[n - 1]]
  BY <1>2, <1>3
<1>5. kPow10 = [n \in Nat |-> IF n = 0 THEN 1 ELSE 10 * kPow10[n - 1]]
  <2> DEFINE Is(g) == g = [n \in Nat |-> IF n = 0 THEN 1 ELSE 10 * g[n - 1]]
  <2>1. Is(f)
    BY <1>4
  <2>2. kPow10 = CHOOSE g : Is(g)
    BY DEF kPow10
  <2> HIDE DEF Is
  <2>3. Is(kPow10)
    BY <2>1, <2>2
  <2> QED BY <2>3 DEF Is
<1>6. kPow10[0] = 1
  BY <1>5
<1>7. ASSUME NEW n \in Nat PROVE kPow10[n + 1] = 10 * kPow10[n]
  <2>1. n + 1 \in Nat /\ n + 1 # 0 /\ (n + 1) - 1 = n
    OBVIOUS
  <2> QED BY <1>5, <2>1
<1> DEFINE S == {n \in Nat : kPow10[n] \in Int /\ kPow10[n] > 0}
<1>8. \A n \in Nat : n \in S
  <2>1. 0 \in S
    BY <1>6
  <2>2. ASSUME NEW n \in Nat, n \in S PROVE n + 1 \in S
    <3>1. kPow10[n] \in Int /\ kPow10[n] > 0
      BY <2>2
    <3>2. 10 * kPow10[n] \in Int /\ 10 * kPow10[n] > 0
      BY <3>1
    <3> QED BY <3>2, <1>7
  <2> HIDE DEF S
  <2> QED BY <2>1, <2>2, EveryNat
<1>9. \A n \in Nat : kPow10[n] \in Int /\ kPow10[n] > 0
  BY <1>8
<1>10. kPow10 \in [Nat -> Int]
  BY <1>5, <1>9
<1> QED BY <1>6, <1>7, <1>9, <1>10

\* A digit stands for a number below ten, and is neither a sign nor a dot.
LEMMA DigitIs ==
    ASSUME NEW c, IsDigit(c)
    PROVE  Digit(c) \in 0..9 /\ c \notin Signs /\ c # "." /\ c # "-"
<1>1. PICK d \in DOMAIN Digits : Digits[d] = c
  BY DEF IsDigit
<1>2. DOMAIN Digits = 1..10
  BY DEF Digits
<1>3. d - 1 \in 0..9 /\ (d - 1) + 1 = d
  BY <1>2
<1>4. Digits[(d - 1) + 1] = c
  BY <1>1, <1>3
<1>5. \E e \in 0..9 : Digits[e + 1] = c
  BY <1>3, <1>4
<1>6. Digit(c) \in 0..9
  BY <1>5 DEF Digit
<1>7. c \in {"0", "1", "2", "3", "4", "5", "6", "7", "8", "9"}
  BY <1>1, <1>2 DEF Digits
<1> QED BY <1>6, <1>7 DEF Signs

\* The digit of a character is the place of the character in the table.
LEMMA DigitAt ==
    ASSUME NEW d \in 0..9
    PROVE  IsDigit(Digits[d + 1]) /\ Digit(Digits[d + 1]) = d
<1>1. DOMAIN Digits = 1..10 /\ d + 1 \in 1..10
  BY DEF Digits
<1>2. IsDigit(Digits[d + 1])
  BY <1>1 DEF IsDigit
<1>3. \A e \in 0..9 : Digits[e + 1] = Digits[d + 1] => e = d
  BY DEF Digits
<1>4. Digit(Digits[d + 1]) = d
  BY <1>3 DEF Digit
<1> QED BY <1>2, <1>4

ScanType == [malformed : BOOLEAN, i : Nat, dot_count : Nat, post_dot_count : Int,
             ifNegative : BOOLEAN, integral_part : Nat, decimal_part : Nat]

\* The fields after one round.
Shifted(part, c) == IF IsDigit(c) THEN part * 10 + Digit(c) ELSE part
HasDot(at, c) == c = "." \/ at.post_dot_count >= 0

LEMMA ScanIs ==
    ASSUME NEW at \in ScanType, NEW c
    PROVE  /\ Scan(at, c) \in ScanType
           /\ Scan(at, c).malformed = (\/ at.malformed
                                       \/ ~IsDigit(c) /\ c \notin Signs \cup {"."}
                                       \/ c \in Signs /\ at.i # 0)
           /\ Scan(at, c).i = at.i + 1
           /\ Scan(at, c).dot_count = at.dot_count + (IF c = "." THEN 1 ELSE 0)
           /\ Scan(at, c).post_dot_count = at.post_dot_count + (IF HasDot(at, c) THEN 1 ELSE 0)
           /\ Scan(at, c).ifNegative = (at.ifNegative \/ c = "-")
           /\ Scan(at, c).integral_part = IF HasDot(at, c) THEN at.integral_part
                                          ELSE Shifted(at.integral_part, c)
           /\ Scan(at, c).decimal_part = IF HasDot(at, c) THEN Shifted(at.decimal_part, c) ELSE 0
<1>1. \A part \in Nat : Shifted(part, c) \in Nat
  <2> SUFFICES ASSUME NEW part \in Nat PROVE Shifted(part, c) \in Nat
    OBVIOUS
  <2>1. CASE IsDigit(c)
    <3>1. Digit(c) \in Nat
      BY <2>1, DigitIs
    <3>2. part * 10 + Digit(c) \in Nat
      BY <3>1
    <3> QED BY <2>1, <3>2 DEF Shifted
  <2> QED BY <2>1 DEF Shifted
<1> DEFINE new == [malformed |-> \/ at.malformed
                                 \/ ~IsDigit(c) /\ c \notin Signs \cup {"."}
                                 \/ c \in Signs /\ at.i # 0,
                   i |-> at.i + 1,
                   dot_count |-> at.dot_count + (IF c = "." THEN 1 ELSE 0),
                   post_dot_count |-> at.post_dot_count + (IF HasDot(at, c) THEN 1 ELSE 0),
                   ifNegative |-> at.ifNegative \/ c = "-",
                   integral_part |-> IF HasDot(at, c) THEN at.integral_part
                                     ELSE Shifted(at.integral_part, c),
                   decimal_part |-> IF HasDot(at, c) THEN Shifted(at.decimal_part, c) ELSE 0]
<1>2. Scan(at, c) = new
  BY Zenon DEF Scan, HasDot, Shifted
<1>3. /\ at.malformed \in BOOLEAN /\ at.i \in Nat /\ at.dot_count \in Nat
      /\ at.post_dot_count \in Int /\ at.ifNegative \in BOOLEAN
      /\ at.integral_part \in Nat /\ at.decimal_part \in Nat
  BY DEF ScanType
<1>4. /\ new.i \in Nat /\ new.dot_count \in Nat /\ new.post_dot_count \in Int
      /\ new.integral_part \in Nat /\ new.decimal_part \in Nat
      /\ new.malformed \in BOOLEAN /\ new.ifNegative \in BOOLEAN
  BY <1>1, <1>3
<1>5. new \in ScanType
  BY <1>4 DEF ScanType
<1> QED BY <1>2, <1>5

LEMMA ScanKeeps == ASSUME NEW at \in ScanType, NEW c PROVE Scan(at, c) \in ScanType
  BY ScanIs

\* The states of the loop over a text, round after round.
IsScan(at, text) ==
    /\ at \in [0..Len(text) -> ScanType]
    /\ at[0] = BeforeText
    /\ \A k \in 1..Len(text) : at[k] = Scan(at[k - 1], text[k])

LEMMA BeforeIs == BeforeText \in ScanType
  BY DEF BeforeText, ScanType

LEMMA ScannedIs ==
    ASSUME NEW text, Len(text) \in Nat
    PROVE  \E at : IsScan(at, text) /\ Scanned(text) = at[Len(text)]
<1> DEFINE len == Len(text)
           step == [x \in Nat \X ScanType |->
                       IF x[1] \in 1..len THEN Scan(x[2], text[x[1]]) ELSE x[2]]
           Is(u) == u = [n \in 0..len |-> IF n = 0 THEN BeforeText ELSE Scan(u[n - 1], text[n])]
<1>1. step \in [Nat \X ScanType -> ScanType]
  BY ScanIs
<1>2. PICK f : Iterates(f, ScanType, BeforeText, step)
  <2> HIDE DEF step
  <2> QED BY <1>1, BeforeIs, Iterate, Zenon
<1>3. f \in [Nat -> ScanType] /\ f[0] = BeforeText
  BY <1>2 DEF Iterates
<1>4. ASSUME NEW k \in 1..len PROVE f[k] = Scan(f[k - 1], text[k])
  <2>1. k \in Nat \ {0} /\ k - 1 \in Nat
    OBVIOUS
  <2>2. f[k] = step[<<k, f[k - 1]>>]
    BY <1>2, <2>1 DEF Iterates
  <2>3. /\ <<k, f[k - 1]>> \in Nat \X ScanType
        /\ <<k, f[k - 1]>>[1] = k /\ <<k, f[k - 1]>>[2] = f[k - 1]
    BY <1>3, <2>1
  <2> QED BY <2>2, <2>3
<1> HIDE DEF step
<1> DEFINE g == [n \in 0..len |-> f[n]]
<1>5. Is(g)
  <2>1. ASSUME NEW n \in 0..len, n # 0 PROVE g[n] = Scan(g[n - 1], text[n])
    <3>1. n \in 1..len /\ n - 1 \in 0..len
      BY <2>1
    <3> QED BY <3>1, <1>4
  <2>2. 0 \in 0..len
    OBVIOUS
  <2>3. g[0] = BeforeText
    BY <1>3, <2>2
  <2> QED BY <2>1, <2>3
<1> DEFINE u == CHOOSE u : Is(u)
<1>6. Is(u)
  BY <1>5
<1>7. Scanned(text) = u[len]
  BY DEF Scanned
<1> HIDE DEF u
<1>8. u[0] = BeforeText
  BY <1>6
<1>9. \A k \in 1..len : u[k] = Scan(u[k - 1], text[k])
  BY <1>6
<1> DEFINE S == {n \in Nat : n <= len => u[n] \in ScanType}
<1>10. \A n \in Nat : n \in S
  <2>1. 0 \in S
    BY <1>8, BeforeIs
  <2>2. ASSUME NEW n \in Nat, n \in S PROVE n + 1 \in S
    <3>1. ASSUME n + 1 <= len PROVE u[n + 1] \in ScanType
      <4>1. n + 1 \in 1..len /\ (n + 1) - 1 = n /\ n <= len
        BY <3>1
      <4>2. u[n] \in ScanType /\ u[n + 1] = Scan(u[n], text[n + 1])
        BY <1>9, <2>2, <4>1
      <4> QED BY <4>2, ScanKeeps
    <3> QED BY <3>1
  <2> HIDE DEF S
  <2> QED BY <2>1, <2>2, EveryNat
<1>11. u \in [0..len -> ScanType]
  BY <1>6, <1>10
<1>12. IsScan(u, text)
  BY <1>8, <1>9, <1>11 DEF IsScan
<1> QED BY <1>7, <1>12

\* f is where the only dot of a text is, or one past its end.
OneDot(text, f) ==
    f \in 1..(Len(text) + 1) /\ \A j \in 1..Len(text) : text[j] = "." <=> j = f

\* Before position f there is no dot; at it there is, unless it is past the end.
FirstDot(text, f) ==
    /\ f \in 1..(Len(text) + 1)
    /\ \A j \in 1..Len(text) : j < f => text[j] # "."
    /\ f <= Len(text) => text[f] = "."

Misplaced(text, j) ==
    (~IsDigit(text[j]) /\ text[j] \notin Signs \cup {"."}) \/ (text[j] \in Signs /\ j # 1)

\* What the loop has found after k characters.
Found(at, text, f, k) ==
    /\ at[k].i = k
    /\ at[k].malformed <=> \E j \in 1..k : Misplaced(text, j)
    /\ at[k].post_dot_count = IF k < f THEN -1 ELSE k - f
    /\ at[k].dot_count <= 1 <=> \A j \in 1..k : text[j] = "." => j = f
    /\ k < f => at[k].dot_count = 0
    /\ k >= f => at[k].dot_count >= 1
    /\ at[k].ifNegative <=> \E j \in 1..k : text[j] = "-"

LEMMA FoundFirst ==
    ASSUME NEW at, NEW text, Len(text) \in Nat, IsScan(at, text), NEW f, FirstDot(text, f)
    PROVE  Found(at, text, f, 0)
<1>1. at[0] = BeforeText
  BY DEF IsScan
<1>2. /\ at[0].i = 0 /\ at[0].malformed = FALSE /\ at[0].post_dot_count = -1
      /\ at[0].dot_count = 0 /\ at[0].ifNegative = FALSE
  BY <1>1 DEF BeforeText
<1>3. f \in Nat /\ 0 < f
  BY DEF FirstDot
<1>4. \A j \in 1..0 : FALSE
  OBVIOUS
<1> QED BY <1>2, <1>3, <1>4 DEF Found

LEMMA FoundNext ==
    ASSUME NEW at, NEW text, Len(text) \in Nat, IsScan(at, text), NEW f, FirstDot(text, f),
           NEW k \in 1..Len(text), Found(at, text, f, k - 1)
    PROVE  Found(at, text, f, k)
<1> DEFINE c   == text[k]
           old == at[k - 1]
           new == at[k]
<1>1. k \in Nat /\ k - 1 \in Nat /\ k - 1 \in 0..Len(text) /\ f \in Nat
  BY DEF FirstDot
<1>2. old \in ScanType /\ new = Scan(old, c)
  BY <1>1 DEF IsScan
<1>3. \A j \in Int : j \in 1..k <=> j \in 1..(k - 1) \/ j = k
  BY <1>1
<1>4. /\ old.i \in Nat /\ old.dot_count \in Nat /\ old.post_dot_count \in Int
      /\ old.malformed \in BOOLEAN /\ old.ifNegative \in BOOLEAN
  BY <1>2 DEF ScanType
<1>5. /\ new.malformed = (\/ old.malformed
                          \/ ~IsDigit(c) /\ c \notin Signs \cup {"."}
                          \/ c \in Signs /\ old.i # 0)
      /\ new.i = old.i + 1
      /\ new.dot_count = old.dot_count + (IF c = "." THEN 1 ELSE 0)
      /\ new.post_dot_count = old.post_dot_count + (IF HasDot(old, c) THEN 1 ELSE 0)
      /\ new.ifNegative = (old.ifNegative \/ c = "-")
  <2> HIDE DEF c, old, new
  <2>1. /\ Scan(old, c).malformed = (\/ old.malformed
                                     \/ ~IsDigit(c) /\ c \notin Signs \cup {"."}
                                     \/ c \in Signs /\ old.i # 0)
        /\ Scan(old, c).i = old.i + 1
        /\ Scan(old, c).dot_count = old.dot_count + (IF c = "." THEN 1 ELSE 0)
        /\ Scan(old, c).post_dot_count = old.post_dot_count + (IF HasDot(old, c) THEN 1 ELSE 0)
        /\ Scan(old, c).ifNegative = (old.ifNegative \/ c = "-")
    BY <1>2, ScanIs, Zenon
  <2> QED BY <1>2, <2>1, Zenon
<1>6. /\ old.i = k - 1
      /\ old.malformed <=> \E j \in 1..(k - 1) : Misplaced(text, j)
      /\ old.post_dot_count = IF k - 1 < f THEN -1 ELSE k - 1 - f
      /\ old.dot_count <= 1 <=> \A j \in 1..(k - 1) : text[j] = "." => j = f
      /\ k - 1 < f => old.dot_count = 0
      /\ k - 1 >= f => old.dot_count >= 1
      /\ old.ifNegative <=> \E j \in 1..(k - 1) : text[j] = "-"
  BY DEF Found
<1>7. (c = "." => k >= f) /\ (k = f => c = ".")
  BY <1>1 DEF FirstDot
<1> HIDE DEF c, old, new
<1>8. new.i = k
  BY <1>1, <1>4, <1>5, <1>6
<1>9. new.malformed <=> \E j \in 1..k : Misplaced(text, j)
  <2>1. Misplaced(text, k) <=> \/ ~IsDigit(c) /\ c \notin Signs \cup {"."}
                               \/ c \in Signs /\ old.i # 0
    BY <1>1, <1>6 DEF Misplaced, c
  <2>2. new.malformed <=> old.malformed \/ Misplaced(text, k)
    BY <1>4, <1>5, <2>1
  <2> QED BY <1>3, <1>6, <2>2
<1>10. new.ifNegative <=> \E j \in 1..k : text[j] = "-"
  <2>1. new.ifNegative <=> old.ifNegative \/ text[k] = "-"
    BY <1>4, <1>5 DEF c
  <2> QED BY <1>3, <1>6, <2>1
<1>11. new.post_dot_count = IF k < f THEN -1 ELSE k - f
  <2>1. HasDot(old, c) <=> k >= f
    BY <1>1, <1>6, <1>7 DEF HasDot
  <2>2. CASE k < f
    BY <2>1, <2>2, <1>1, <1>4, <1>5, <1>6
  <2>3. CASE k = f
    BY <2>1, <2>3, <1>1, <1>4, <1>5, <1>6
  <2>4. CASE k > f
    BY <2>1, <2>4, <1>1, <1>4, <1>5, <1>6
  <2> QED BY <2>2, <2>3, <2>4, <1>1
<1>12. k < f => new.dot_count = 0
  BY <1>1, <1>4, <1>5, <1>6, <1>7
<1>13. k >= f => new.dot_count >= 1
  BY <1>1, <1>4, <1>5, <1>6, <1>7
<1>14. new.dot_count <= 1 <=> \A j \in 1..k : text[j] = "." => j = f
  <2>1. CASE c # "."
    <3>1. new.dot_count = old.dot_count /\ text[k] # "."
      BY <2>1, <1>4, <1>5 DEF c
    <3> QED BY <3>1, <1>3, <1>6
  <2>2. CASE c = "." /\ k = f
    <3>1. new.dot_count = 1
      BY <2>2, <1>1, <1>4, <1>5, <1>6
    <3>2. old.dot_count <= 1
      BY <2>2, <1>1, <1>6
    <3> QED BY <3>1, <3>2, <2>2, <1>3, <1>6
  <2>3. CASE c = "." /\ k # f
    <3>1. new.dot_count >= 2
      BY <2>3, <1>1, <1>4, <1>5, <1>6, <1>7
    <3>2. text[k] = "." /\ k # f /\ k \in 1..k
      BY <2>3, <1>1 DEF c
    <3>3. ~(new.dot_count <= 1)
      BY <3>1, <1>4, <1>5
    <3> QED BY <3>2, <3>3
  <2> QED BY <2>1, <2>2, <2>3
<1> QED BY <1>8, <1>9, <1>10, <1>11, <1>12, <1>13, <1>14 DEF Found, new

LEMMA FoundIs ==
    ASSUME NEW at, NEW text, Len(text) \in Nat, IsScan(at, text), NEW f, FirstDot(text, f)
    PROVE  \A k \in 0..Len(text) : Found(at, text, f, k)
<1> DEFINE S == {k \in Nat : k <= Len(text) => Found(at, text, f, k)}
<1>1. 0 \in S
  BY FoundFirst
<1>2. ASSUME NEW k \in Nat, k \in S PROVE k + 1 \in S
  <2>1. ASSUME k + 1 <= Len(text) PROVE Found(at, text, f, k + 1)
    <3>1. k + 1 \in 1..Len(text) /\ (k + 1) - 1 = k /\ k <= Len(text)
      BY <2>1
    <3>2. Found(at, text, f, k)
      BY <1>2, <3>1
    <3> QED BY <3>1, <3>2, FoundNext
  <2> QED BY <2>1
<1> HIDE DEF S
<1>3. \A k \in Nat : k \in S
  BY <1>1, <1>2, EveryNat
<1> QED BY <1>3 DEF S

\* A text is a list of whatever characters.
IsText(text) == \E S : text \in Seq(S)

LEMMA TextIs ==
    ASSUME NEW text, IsText(text)
    PROVE  /\ Len(text) \in Nat /\ DOMAIN text = 1..Len(text)
           /\ text # <<>> => Len(text) \in Nat \ {0}
<1>1. PICK S : text \in Seq(S)
  BY DEF IsText
<1> QED BY <1>1, EmptySeq, LenProperties

\* The text without its sign is the text some places on.
Shift(text) == IF text[1] \in Signs THEN 1 ELSE 0

LEMMA BodyIs ==
    ASSUME NEW text, IsText(text), text # <<>>
    PROVE  /\ Len(text) \in Nat \ {0} /\ Shift(text) \in 0..1
           /\ IsText(WithoutSign(text))
           /\ DOMAIN WithoutSign(text) = 1..Len(WithoutSign(text))
           /\ Len(WithoutSign(text)) = Len(text) - Shift(text)
           /\ \A i \in 1..(Len(text) - Shift(text)) : WithoutSign(text)[i] = text[i + Shift(text)]
<1>0. Len(text) \in Nat \ {0}
  BY TextIs
<1>1. CASE text[1] \in Signs
  <2>1. Shift(text) = 1 /\ WithoutSign(text) = Tail(text)
    BY <1>1 DEF Shift, WithoutSign
  <2>2. PICK S : text \in Seq(S)
    BY DEF IsText
  <2>3. /\ Tail(text) \in Seq(S)
        /\ Len(Tail(text)) = Len(text) - 1
        /\ \A i \in 1..Len(Tail(text)) : Tail(text)[i] = text[i + 1]
    BY <2>2, HeadTailProperties
  <2>4. DOMAIN Tail(text) = 1..Len(Tail(text)) /\ IsText(Tail(text))
    BY <2>3, LenProperties DEF IsText
  <2> QED BY <1>0, <2>1, <2>3, <2>4
<1>2. CASE text[1] \notin Signs
  <2>1. Shift(text) = 0 /\ WithoutSign(text) = text
    BY <1>2 DEF Shift, WithoutSign
  <2>2. DOMAIN text = 1..Len(text)
    BY TextIs
  <2>3. Len(text) - 0 = Len(text) /\ \A i \in 1..Len(text) : i + 0 = i
    BY <1>0
  <2> QED BY <1>0, <2>1, <2>2, <2>3
<1> QED BY <1>1, <1>2

LEMMA OneLong == ASSUME NEW S, NEW c \in S PROVE <<c>> \in Seq(S) /\ Len(<<c>>) = 1
  OBVIOUS

\* A text that is no number though its characters are all in place.
Bare(text) == Len(text) = 1 /\ text[1] \in Signs \cup {"."}

LEMMA BareIs ==
    ASSUME NEW text, IsText(text)
    PROVE  text \notin {<<>>, <<".">>, <<"+">>, <<"-">>} <=> text # <<>> /\ ~Bare(text)
<1>0. PICK S : text \in Seq(S)
  BY DEF IsText
<1>1. ASSUME NEW c PROVE text = <<c>> <=> Len(text) = 1 /\ text[1] = c
  <2>0. <<c>>[1] = c
    OBVIOUS
  <2>1. <<c>> \in Seq({c}) /\ Len(<<c>>) = 1
    BY OneLong
  <2>2. ASSUME Len(text) = 1, text[1] = c PROVE text = <<c>>
    <3>0. \A i \in 1..1 : i = 1
      OBVIOUS
    <3>1. \A i \in 1..1 : text[i] = <<c>>[i]
      BY <2>0, <2>2, <3>0, Zenon
    <3>2. 1 \in 1..1
      OBVIOUS
    <3>3. c \in S
      BY <1>0, <2>2, <3>2, LenProperties
    <3>4. <<c>> \in Seq(S)
      BY <3>3, OneLong
    <3> QED BY <1>0, <2>1, <2>2, <3>1, <3>4, SeqEqual
  <2> QED BY <2>0, <2>1, <2>2
<1> QED BY <1>1 DEF Bare, Signs

\* Where the loop's tests leave a text whose one dot is at f.
LEMMA PriceIs ==
    ASSUME NEW text, IsText(text), text # <<>>, NEW f, OneDot(text, f)
    PROVE  IsPrice(text) <=> /\ \A j \in 1..Len(text) : ~Misplaced(text, j)
                             /\ ~Bare(text)
                             /\ Len(text) - f <= kDecimals
<1>0. Len(text) \in Nat
  BY TextIs
<1>1. FirstDot(text, f) /\ f \in Nat /\ f <= Len(text) + 1
  BY <1>0 DEF OneDot, FirstDot
<1>2. PICK at : IsScan(at, text) /\ Scanned(text) = at[Len(text)]
  BY <1>0, ScannedIs
<1>3. Found(at, text, f, Len(text))
  <2>1. Len(text) \in 0..Len(text)
    BY <1>0
  <2> QED BY <1>0, <1>1, <1>2, <2>1, FoundIs
<1>4. Scanned(text).post_dot_count = Len(text) - f
  BY <1>0, <1>1, <1>2, <1>3 DEF Found
<1>5. Scanned(text).dot_count <= 1
  BY <1>2, <1>3 DEF Found, OneDot
<1>6. ~Scanned(text).malformed <=> \A j \in 1..Len(text) : ~Misplaced(text, j)
  BY <1>2, <1>3 DEF Found
<1> QED BY <1>4, <1>5, <1>6 DEF IsPrice, Bare

LEMMA FirstDotExists ==
    ASSUME NEW text, Len(text) \in Nat
    PROVE  \E f : FirstDot(text, f)
<1> DEFINE S == {j \in 1..(Len(text) + 1) : j = Len(text) + 1 \/ text[j] = "."}
<1>0. Len(text) + 1 \in S
  OBVIOUS
<1>1. S \subseteq Nat /\ S # {}
  BY <1>0
<1>2. PICK f \in S : \A k \in S : f <= k
  BY <1>1, LeastNat
<1>3. f \in 1..(Len(text) + 1) /\ f \in Nat
  BY <1>1
<1>4. \A j \in 1..Len(text) : j < f => text[j] # "."
  BY <1>2, <1>3
<1>5. f <= Len(text) => text[f] = "."
  BY <1>2, <1>3
<1> QED BY <1>3, <1>4, <1>5 DEF FirstDot

LEMMA PriceOneDot ==
    ASSUME NEW text, IsText(text), IsPrice(text)
    PROVE  \E f : OneDot(text, f)
<1>0. Len(text) \in Nat
  BY TextIs
<1>1. PICK f : FirstDot(text, f)
  BY <1>0, FirstDotExists
<1>2. PICK at : IsScan(at, text) /\ Scanned(text) = at[Len(text)]
  BY <1>0, ScannedIs
<1>3. Found(at, text, f, Len(text))
  <2>1. Len(text) \in 0..Len(text)
    BY <1>0
  <2> QED BY <1>0, <1>1, <1>2, <2>1, FoundIs
<1>4. \A j \in 1..Len(text) : text[j] = "." => j = f
  BY <1>2, <1>3 DEF Found, IsPrice
<1>5. \A j \in 1..Len(text) : j = f => text[j] = "."
  BY <1>0, <1>1 DEF FirstDot
<1>6. OneDot(text, f)
  BY <1>1, <1>4, <1>5 DEF OneDot, FirstDot
<1> QED BY <1>6

LEMMA DotAtIs ==
    ASSUME NEW body, Len(body) \in Nat, DOMAIN body = 1..Len(body), NEW d, OneDot(body, d)
    PROVE  DotAt(body) = d
<1>1. CASE d = Len(body) + 1
  <2>1. ~Contains(body, ".")
    BY <1>1 DEF OneDot, Contains
  <2> QED BY <1>1, <2>1 DEF DotAt
<1>2. CASE d # Len(body) + 1
  <2>1. d \in 1..Len(body)
    BY <1>2 DEF OneDot
  <2>2. \A i \in DOMAIN body : body[i] = "." <=> i = d
    BY DEF OneDot
  <2>3. Contains(body, ".")
    BY <2>1, <2>2 DEF Contains
  <2>4. (CHOOSE i \in DOMAIN body : body[i] = ".") = d
    BY <2>1, <2>2
  <2> QED BY <2>3, <2>4 DEF DotAt
<1> QED BY <1>1, <1>2

\* A sign is no dot, so the dot of the text is the dot of the body.
LEMMA BodyDot ==
    ASSUME NEW text, IsText(text), text # <<>>, NEW f, OneDot(text, f)
    PROVE  /\ DotAt(WithoutSign(text)) = f - Shift(text)
           /\ f - Shift(text) \in 1..(Len(WithoutSign(text)) + 1)
<1> DEFINE body == WithoutSign(text)
           o    == Shift(text)
<1>1. /\ Len(text) \in Nat \ {0} /\ o \in 0..1
      /\ DOMAIN body = 1..Len(body) /\ Len(body) = Len(text) - o
      /\ \A i \in 1..(Len(text) - o) : body[i] = text[i + o]
  BY BodyIs
<1>2. o = 1 => text[1] # "."
  BY DEF Shift, Signs
<1> HIDE DEF body, o
<1>3. f \in 1..(Len(text) + 1) /\ \A j \in 1..Len(text) : text[j] = "." <=> j = f
  BY DEF OneDot
<1>4. f - o \in 1..(Len(body) + 1)
  BY <1>1, <1>2, <1>3
<1>5. ASSUME NEW i \in 1..Len(body) PROVE body[i] = "." <=> i = f - o
  <2>1. i + o \in 1..Len(text) /\ i \in 1..(Len(text) - o)
    BY <1>1
  <2>2. body[i] = text[i + o]
    BY <1>1, <2>1
  <2>3. i + o = f <=> i = f - o
    BY <1>1, <1>3
  <2> QED BY <1>3, <2>1, <2>2, <2>3
<1>6. OneDot(body, f - o)
  BY <1>4, <1>5 DEF OneDot
<1>7. Len(body) \in Nat
  BY <1>1
<1>8. DotAt(body) = f - o
  BY <1>1, <1>6, <1>7, DotAtIs
<1> QED BY <1>4, <1>8 DEF body, o

LEMMA DecimalIs ==
    ASSUME NEW text, IsText(text), text # <<>>, NEW f, OneDot(text, f)
    PROVE  IsDecimal(text) <=> /\ \A j \in 1..Len(text) : ~Misplaced(text, j)
                               /\ ~Bare(text)
                               /\ Len(text) - f <= kDecimals
<1> DEFINE body == WithoutSign(text)
           o    == Shift(text)
           d    == DotAt(body)
<1>1. /\ Len(text) \in Nat \ {0} /\ o \in 0..1
      /\ DOMAIN body = 1..Len(body) /\ Len(body) = Len(text) - o
      /\ \A i \in 1..(Len(text) - o) : body[i] = text[i + o]
  BY BodyIs
<1>2. /\ o = 1 => text[1] \in Signs
      /\ o = 0 => text[1] \notin Signs
  BY DEF Shift
<1>3. d = f - o
  BY BodyDot
<1>4. IsDecimal(text) <=> /\ ~Bare(text)
                          /\ \A i \in DOMAIN body : i = d \/ IsDigit(body[i])
                          /\ Len(body) - d <= kDecimals
  BY BareIs DEF IsDecimal
<1> HIDE DEF body, o, d
<1>5. f \in 1..(Len(text) + 1) /\ \A j \in 1..Len(text) : text[j] = "." <=> j = f
  BY DEF OneDot
<1>6. Len(body) - d = Len(text) - f
  BY <1>1, <1>3, <1>5
<1>7. ASSUME NEW i \in 1..Len(body)
      PROVE  /\ i + o \in 1..Len(text)
             /\ i = d \/ IsDigit(body[i]) <=> ~Misplaced(text, i + o)
  <2>1. i + o \in 1..Len(text) /\ i \in 1..(Len(text) - o) /\ (i + o = f <=> i = d)
    BY <1>1, <1>3, <1>5
  <2>2. body[i] = text[i + o]
    BY <1>1, <2>1
  <2>3. text[i + o] = "." <=> i = d
    BY <1>5, <2>1
  <2>4. i + o = 1 => o = 0
    BY <1>1
  <2>5. i + o = 1 => text[i + o] \notin Signs
    BY <2>4, <1>2
  <2>6. IsDigit(text[i + o]) => text[i + o] \notin Signs
    BY DigitIs
  <2>7. "." \notin Signs
    BY DEF Signs
  <2> QED BY <2>1, <2>2, <2>3, <2>5, <2>6, <2>7 DEF Misplaced
<1>8. ASSUME NEW j \in 1..Len(text)
      PROVE  ~Misplaced(text, j) \/ \E i \in 1..Len(body) : i + o = j
  <2>1. CASE j > o
    <3>1. j - o \in 1..Len(body) /\ (j - o) + o = j
      BY <1>1, <2>1
    <3> QED BY <3>1
  <2>2. CASE j <= o
    <3>1. j = 1 /\ o = 1
      BY <1>1, <2>2
    <3>2. text[1] \in Signs
      BY <1>2, <3>1
    <3> QED BY <3>1, <3>2 DEF Misplaced
  <2> QED BY <2>1, <2>2, <1>1
<1>9. (\A i \in 1..Len(body) : i = d \/ IsDigit(body[i]))
         <=> (\A j \in 1..Len(text) : ~Misplaced(text, j))
  BY <1>7, <1>8
<1> QED BY <1>1, <1>4, <1>6, <1>9

LEMMA DecimalOneDot ==
    ASSUME NEW text, IsText(text), IsDecimal(text)
    PROVE  \E f : OneDot(text, f)
<1> DEFINE body == WithoutSign(text)
           o    == Shift(text)
           d    == DotAt(body)
<1>0. text # <<>>
  BY DEF IsDecimal
<1>1. /\ Len(text) \in Nat \ {0} /\ o \in 0..1
      /\ DOMAIN body = 1..Len(body) /\ Len(body) = Len(text) - o
      /\ \A i \in 1..(Len(text) - o) : body[i] = text[i + o]
  BY <1>0, BodyIs
<1>2. /\ o = 1 => text[1] \in Signs
      /\ "." \notin Signs
  BY DEF Shift, Signs
<1>3. \A i \in 1..Len(body) : i = d \/ IsDigit(body[i])
  BY <1>1 DEF IsDecimal
<1>4. /\ d \in 1..(Len(body) + 1)
      /\ d <= Len(body) => body[d] = "."
  <2>1. CASE Contains(body, ".")
    <3>1. d \in DOMAIN body /\ body[d] = "."
      BY <2>1, <1>1 DEF DotAt, Contains
    <3> QED BY <3>1, <1>1
  <2>2. CASE ~Contains(body, ".")
    BY <2>2, <1>1 DEF DotAt
  <2> QED BY <2>1, <2>2
<1> HIDE DEF body, o, d
<1>5. ASSUME NEW j \in 1..Len(text) PROVE text[j] = "." <=> j = d + o
  <2>1. CASE j > o
    <3>1. j - o \in 1..Len(body) /\ j - o \in 1..(Len(text) - o) /\ (j - o) + o = j
      BY <1>1, <2>1
    <3>2. body[j - o] = text[j]
      BY <1>1, <3>1
    <3>3. j - o = d <=> j = d + o
      BY <1>1, <1>4
    <3>4. d = j - o => body[j - o] = "."
      BY <1>4, <3>1
    <3>5. d # j - o => body[j - o] # "."
      BY <1>3, <3>1, DigitIs
    <3> QED BY <3>2, <3>3, <3>4, <3>5
  <2>2. CASE j <= o
    <3>1. j = 1 /\ o = 1 /\ j # d + o
      BY <1>1, <1>4, <2>2
    <3> QED BY <3>1, <1>2
  <2> QED BY <2>1, <2>2, <1>1
<1>6. d + o \in 1..(Len(text) + 1)
  BY <1>1, <1>4
<1>7. OneDot(text, d + o)
  BY <1>5, <1>6 DEF OneDot
<1> QED BY <1>7

\* from_string accepts a text exactly when it is a decimal: one pass that
\* counts dots and remembers where it is, against what the text looks like.
THEOREM PriceIsDecimal == \A text : IsText(text) => (IsPrice(text) <=> IsDecimal(text))
<1> SUFFICES ASSUME NEW text, IsText(text) PROVE IsPrice(text) <=> IsDecimal(text)
  OBVIOUS
<1>1. IsPrice(text) => text # <<>>
  BY DEF IsPrice
<1>2. IsDecimal(text) => text # <<>>
  BY DEF IsDecimal
<1>3. ASSUME NEW f, OneDot(text, f), text # <<>> PROVE IsPrice(text) <=> IsDecimal(text)
  BY <1>3, PriceIs, DecimalIs
<1> QED BY <1>1, <1>2, <1>3, PriceOneDot, DecimalOneDot

\* One digit more, in the loop and place by place.
LEMMA DigitMore ==
    ASSUME NEW x \in Int, NEW c \in Int, NEW p \in Int, NEW q \in Int, p = 10 * q
    PROVE  (x * 10 + c) * q = x * p + c * q
  OBVIOUS

\* The character at place i of a body, with its place value.
Term(body, d, i) == IF i = d THEN 0 ELSE Digit(body[i]) * PlaceValue(body, i)

\* What the loop has read of a body of which n characters are behind it, when
\* value is what they come to.
ReadSoFar(state, d, n, value) ==
    IF n < d
    THEN /\ state.integral_part * kPow10[kDecimals + d - 1 - n] = value
         /\ state.decimal_part = 0
    ELSE state.integral_part * kPow10[kDecimals] + state.decimal_part * kPow10[kDecimals - (n - d)]
            = value

\* A text of which the loop has found nothing wrong.
Accepted(text, f) ==
    /\ IsText(text) /\ text # <<>>
    /\ OneDot(text, f)
    /\ \A j \in 1..Len(text) : ~Misplaced(text, j)
    /\ Len(text) - f <= kDecimals

LEMMA ReadDigitBefore ==
    ASSUME NEW old \in ScanType, NEW c, IsDigit(c), ~HasDot(old, c),
           NEW d \in Nat, NEW n \in Nat, n + 1 < d, NEW value \in Int, ReadSoFar(old, d, n, value)
    PROVE  ReadSoFar(Scan(old, c), d, n + 1, value + Digit(c) * kPow10[kDecimals + d - (n + 2)])
<1> DEFINE p == kPow10[kDecimals + d - 1 - n]
           q == kPow10[kDecimals + d - (n + 2)]
           x == old.integral_part
           y == Digit(c)
<1>0. kDecimals \in Nat
  BY DecimalsAssumption
<1>1. /\ kDecimals + d - (n + 2) \in Nat
      /\ kDecimals + d - 1 - n = (kDecimals + d - (n + 2)) + 1
      /\ kDecimals + d - 1 - (n + 1) = kDecimals + d - (n + 2)
      /\ n < d
  BY <1>0
<1>2. p = 10 * q /\ p \in Int /\ q \in Int
  BY <1>1, Powers
<1>3. x \in Int /\ y \in Int
  BY DigitIs DEF ScanType
<1>4. x * p = value
  BY <1>1 DEF ReadSoFar
<1>5. Scan(old, c).integral_part = x * 10 + y /\ Scan(old, c).decimal_part = 0
  BY ScanIs DEF Shifted
<1> HIDE DEF p, q, x, y
<1>6. (x * 10 + y) * q = value + y * q
  BY <1>2, <1>3, <1>4, DigitMore
<1>7. Scan(old, c).integral_part * q = value + y * q
  BY <1>5, <1>6
<1> USE DEF q, y
<1>8. Scan(old, c).integral_part * kPow10[kDecimals + d - 1 - (n + 1)]
         = value + Digit(c) * kPow10[kDecimals + d - (n + 2)]
  BY <1>1, <1>7
<1> QED BY <1>5, <1>8 DEF ReadSoFar

LEMMA ReadDot ==
    ASSUME NEW old \in ScanType, NEW d \in Nat, NEW n \in Nat, n + 1 = d,
           NEW value \in Int, ReadSoFar(old, d, n, value)
    PROVE  ReadSoFar(Scan(old, "."), d, n + 1, value)
<1>0. kDecimals \in Nat
  BY DecimalsAssumption
<1>1. /\ kDecimals + d - 1 - n = kDecimals
      /\ kDecimals - (n + 1 - d) = kDecimals
      /\ n < d /\ ~(n + 1 < d)
  BY <1>0
<1>2. ~IsDigit(".")
  BY DigitIs
<1>3. HasDot(old, ".")
  BY DEF HasDot
<1>4. Scan(old, ".").integral_part = old.integral_part /\ Scan(old, ".").decimal_part = old.decimal_part
  BY <1>2, <1>3, ScanIs DEF Shifted
<1>5. old.integral_part * kPow10[kDecimals] = value /\ old.decimal_part = 0
  BY <1>1 DEF ReadSoFar
<1>6. kPow10[kDecimals] \in Int
  BY <1>0, Powers
<1>7. value + 0 * kPow10[kDecimals] = value
  BY <1>6
<1> QED BY <1>1, <1>4, <1>5, <1>7 DEF ReadSoFar

LEMMA ReadDigitAfter ==
    ASSUME NEW old \in ScanType, NEW c, IsDigit(c), HasDot(old, c),
           NEW d \in Nat, NEW n \in Nat, n >= d, n + 1 - d <= kDecimals,
           NEW value \in Int, ReadSoFar(old, d, n, value)
    PROVE  ReadSoFar(Scan(old, c), d, n + 1, value + Digit(c) * kPow10[kDecimals + d - (n + 1)])
<1> DEFINE p == kPow10[kDecimals - (n - d)]
           q == kPow10[kDecimals + d - (n + 1)]
           x == old.decimal_part
           y == Digit(c)
           z == old.integral_part * kPow10[kDecimals]
<1>0. kDecimals \in Nat
  BY DecimalsAssumption
<1>1. /\ kDecimals + d - (n + 1) \in Nat
      /\ kDecimals - (n - d) = (kDecimals + d - (n + 1)) + 1
      /\ kDecimals - ((n + 1) - d) = kDecimals + d - (n + 1)
      /\ ~(n < d) /\ ~(n + 1 < d)
  BY <1>0
<1>2. p = 10 * q /\ p \in Int /\ q \in Int
  BY <1>1, Powers
<1>3. x \in Int /\ y \in Int /\ old.integral_part \in Int /\ kPow10[kDecimals] \in Int
  BY <1>0, Powers, DigitIs DEF ScanType
<1>4. z + x * p = value
  BY <1>1 DEF ReadSoFar
<1>5. /\ Scan(old, c).integral_part = old.integral_part
      /\ Scan(old, c).decimal_part = x * 10 + y
  BY ScanIs DEF Shifted
<1>6. z \in Int
  BY <1>3
<1> HIDE DEF p, q, x, y, z
<1>7. (x * 10 + y) * q = x * p + y * q
  BY <1>2, <1>3, DigitMore
<1>8. x * p \in Int /\ y * q \in Int
  BY <1>2, <1>3
<1>9. z + (x * 10 + y) * q = value + y * q
  BY <1>4, <1>6, <1>7, <1>8
<1>10. z + Scan(old, c).decimal_part * q = value + y * q
  BY <1>5, <1>9
<1> USE DEF q, y, z
<1>11. Scan(old, c).integral_part * kPow10[kDecimals]
          + Scan(old, c).decimal_part * kPow10[kDecimals - ((n + 1) - d)]
          = value + Digit(c) * kPow10[kDecimals + d - (n + 1)]
  BY <1>1, <1>5, <1>10
<1> QED BY <1>1, <1>11 DEF ReadSoFar

LEMMA AcceptedParts ==
    ASSUME NEW text, NEW f, Accepted(text, f)
    PROVE  LET body == WithoutSign(text)
               o    == Shift(text)
               d    == DotAt(body)
           IN  /\ Len(text) \in Nat \ {0} /\ o \in 0..1
               /\ DOMAIN body = 1..Len(body)
               /\ Len(body) \in Nat /\ Len(body) + o = Len(text)
               /\ \A i \in 1..Len(body) : body[i] = text[i + o]
               /\ d \in 1..(Len(body) + 1) /\ d + o = f
               /\ Len(body) - d <= kDecimals
               /\ \A i \in 1..Len(body) : IF i = d THEN body[i] = "." ELSE IsDigit(body[i])
               /\ o = 1 <=> text[1] \in Signs
<1> DEFINE body == WithoutSign(text)
           o    == Shift(text)
           d    == DotAt(body)
<1>0. IsText(text) /\ text # <<>> /\ OneDot(text, f)
  BY DEF Accepted
<1>1. /\ Len(text) \in Nat \ {0} /\ o \in 0..1
      /\ DOMAIN body = 1..Len(body) /\ Len(body) = Len(text) - o
      /\ \A i \in 1..(Len(text) - o) : body[i] = text[i + o]
  BY <1>0, BodyIs
<1>2. d = f - o /\ f - o \in 1..(Len(body) + 1)
  BY <1>0, BodyDot
<1>3. /\ f \in 1..(Len(text) + 1)
      /\ \A j \in 1..Len(text) : text[j] = "." <=> j = f
      /\ \A j \in 1..Len(text) : ~Misplaced(text, j)
      /\ Len(text) - f <= kDecimals
  BY DEF Accepted, OneDot
<1>4. /\ o = 1 <=> text[1] \in Signs
      /\ "." \notin Signs
  BY DEF Shift, Signs
<1> HIDE DEF body, o, d
<1>5. Len(body) \in Nat /\ Len(body) + o = Len(text) /\ d + o = f /\ Len(body) - d <= kDecimals
  <2>0. kDecimals \in Nat
    BY DecimalsAssumption
  <2> QED BY <2>0, <1>1, <1>2, <1>3
<1>6. ASSUME NEW i \in 1..Len(body) PROVE IF i = d THEN body[i] = "." ELSE IsDigit(body[i])
  <2>1. i + o \in 1..Len(text) /\ i \in 1..(Len(text) - o) /\ (i + o = f <=> i = d)
    BY <1>1, <1>2, <1>3
  <2>2. body[i] = text[i + o]
    BY <1>1, <2>1
  <2>3. i + o = 1 => o = 0
    BY <1>1
  <2>4. i + o = 1 => text[i + o] \notin Signs
    BY <2>3, <1>1, <1>4
  <2>5. ~Misplaced(text, i + o)
    BY <1>3, <2>1
  <2>6. text[i + o] = "." \/ IsDigit(text[i + o])
    BY <2>4, <2>5 DEF Misplaced
  <2> QED BY <1>3, <2>1, <2>2, <2>6
<1>7. \A i \in 1..Len(body) : body[i] = text[i + o]
  BY <1>1, <1>5
<1>8. d \in 1..(Len(body) + 1)
  BY <1>2
<1> QED BY <1>1, <1>4, <1>5, <1>6, <1>7, <1>8 DEF body, o, d

\* A sign leaves both numbers at zero.
LEMMA BeforeBody ==
    ASSUME NEW text, Len(text) \in Nat \ {0}, NEW at, IsScan(at, text),
           NEW o \in 0..1, o = 1 => text[1] \in Signs
    PROVE  at[o].integral_part = 0 /\ at[o].decimal_part = 0
<1>0. at[0] = BeforeText /\ \A k \in 1..Len(text) : at[k] = Scan(at[k - 1], text[k])
  BY DEF IsScan
<1>1. CASE o = 0
  BY <1>0, <1>1 DEF BeforeText
<1>2. CASE o = 1
  <2>1. at[1] = Scan(BeforeText, text[1])
    <3>1. 1 \in 1..Len(text) /\ 1 - 1 = 0
      OBVIOUS
    <3> QED BY <3>1, <1>0
  <2>2. text[1] \in Signs /\ text[1] # "." /\ ~IsDigit(text[1])
    BY <1>2, DigitIs DEF Signs
  <2>3. ~HasDot(BeforeText, text[1])
    BY <2>2 DEF HasDot, BeforeText
  <2>4. /\ Scan(BeforeText, text[1]).integral_part = BeforeText.integral_part
        /\ Scan(BeforeText, text[1]).decimal_part = 0
    BY <2>2, <2>3, BeforeIs, ScanIs DEF Shifted
  <2>5. BeforeText.integral_part = 0
    BY DEF BeforeText
  <2> QED BY <1>2, <2>1, <2>4, <2>5
<1> QED BY <1>1, <1>2

\* The loop over the characters of a body, against their running sum.
LEMMA ReadUpTo ==
    ASSUME NEW text, NEW f, Accepted(text, f),
           NEW at, IsScan(at, text), NEW run, NEW s,
           \A i \in 1..Len(WithoutSign(text)) :
               s[i] = Term(WithoutSign(text), DotAt(WithoutSign(text)), i),
           IsRunning(run, s, Len(WithoutSign(text)))
    PROVE  ReadSoFar(at[Len(text)], DotAt(WithoutSign(text)), Len(WithoutSign(text)),
                     run[Len(WithoutSign(text))])
<1> DEFINE body == WithoutSign(text)
           o    == Shift(text)
           d    == DotAt(body)
           len  == Len(body)
<1>1. /\ Len(text) \in Nat \ {0} /\ o \in 0..1
      /\ len \in Nat /\ len + o = Len(text)
      /\ \A i \in 1..len : body[i] = text[i + o]
      /\ d \in 1..(len + 1) /\ d + o = f
      /\ len - d <= kDecimals
      /\ \A i \in 1..len : IF i = d THEN body[i] = "." ELSE IsDigit(body[i])
      /\ o = 1 <=> text[1] \in Signs
  BY AcceptedParts
<1>2. FirstDot(text, f)
  BY <1>1 DEF Accepted, OneDot, FirstDot
<1>3. \A k \in 0..Len(text) : Found(at, text, f, k)
  BY <1>1, <1>2, FoundIs
<1>4. /\ run \in [0..len -> Int] /\ run[0] = 0
      /\ \A i \in 1..len : run[i] = run[i - 1] + Term(body, d, i)
  BY DEF IsRunning
<1>5. /\ at \in [0..Len(text) -> ScanType] /\ at[0] = BeforeText
      /\ \A k \in 1..Len(text) : at[k] = Scan(at[k - 1], text[k])
  BY DEF IsScan
<1>6. kDecimals \in Nat
  BY DecimalsAssumption
<1> HIDE DEF body, o, d, len
<1> DEFINE S == {n \in Nat : n <= len => ReadSoFar(at[n + o], d, n, run[n])}
<1>7. 0 \in S
  <2>1. at[o].integral_part = 0 /\ at[o].decimal_part = 0
    BY <1>1, BeforeBody
  <2>2. kDecimals + d - 1 - 0 \in Nat /\ 0 < d
    BY <1>1, <1>6
  <2>3. kPow10[kDecimals + d - 1 - 0] \in Int
    BY <2>2, Powers
  <2>4. 0 * kPow10[kDecimals + d - 1 - 0] = 0
    BY <2>3
  <2>5. ReadSoFar(at[o], d, 0, 0)
    BY <2>1, <2>2, <2>4 DEF ReadSoFar
  <2>6. 0 + o = o
    BY <1>1
  <2> QED BY <2>5, <2>6, <1>4
<1>8. ASSUME NEW n \in Nat, n \in S PROVE n + 1 \in S
  <2> SUFFICES ASSUME n + 1 <= len PROVE ReadSoFar(at[(n + 1) + o], d, n + 1, run[n + 1])
    OBVIOUS
  <2> DEFINE old == at[n + o]
             c   == body[n + 1]
  <2>1. /\ n + 1 \in 1..len /\ n \in 0..len /\ (n + 1) - 1 = n /\ n <= len
        /\ (n + 1) + o \in 1..Len(text) /\ ((n + 1) + o) - 1 = n + o
        /\ n + o \in 0..Len(text)
        /\ n + o < f <=> n < d
    <3>1. n + 1 <= len /\ n \in Nat
      OBVIOUS
    <3>2. /\ o \in 0..1 /\ len \in Nat /\ len + o = Len(text)
          /\ d \in 1..(len + 1) /\ d + o = f
      BY <1>1
    <3> QED BY ONLY <3>1, <3>2
  <2>2. old \in ScanType /\ at[(n + 1) + o] = Scan(old, c)
    <3>1. c = text[(n + 1) + o]
      BY <1>1, <2>1
    <3>2. at[(n + 1) + o] = Scan(at[((n + 1) + o) - 1], text[(n + 1) + o])
      BY <1>5, <2>1
    <3>3. at[n + o] \in ScanType
      BY <1>5, <2>1
    <3> QED BY <3>1, <3>2, <3>3, <2>1
  <2>3. ReadSoFar(old, d, n, run[n]) /\ run[n] \in Int
    BY <1>4, <1>8, <2>1
  <2>4. run[n + 1] = run[n] + Term(body, d, n + 1)
    BY <1>4, <2>1
  <2>5. old.post_dot_count = IF n < d THEN -1 ELSE (n + o) - f
    <3>1. Found(at, text, f, n + o)
      BY <1>3, <2>1
    <3>2. old.post_dot_count = IF n + o < f THEN -1 ELSE (n + o) - f
      BY <3>1 DEF Found
    <3> QED BY <2>1, <3>2
  <2>6. IF n + 1 = d THEN c = "." ELSE IsDigit(c) /\ c # "."
    <3>1. IF n + 1 = d THEN c = "." ELSE IsDigit(c)
      BY <1>1, <2>1
    <3> QED BY <3>1, DigitIs
  <2>7. d \in Nat
    BY <1>1
  <2> HIDE DEF old, c
  <2>8. CASE n + 1 < d
    <3>1. n + 1 # d /\ n < d
      BY <2>7, <2>8
    <3>2. IsDigit(c) /\ ~HasDot(old, c)
      BY <2>5, <2>6, <3>1 DEF HasDot
    <3>3. ReadSoFar(Scan(old, c), d, n + 1,
                    run[n] + Digit(c) * kPow10[kDecimals + d - (n + 2)])
      BY <2>2, <2>3, <2>7, <2>8, <3>2, ReadDigitBefore
    <3>4. (n + 1) + 1 = n + 2
      OBVIOUS
    <3>5. Term(body, d, n + 1) = Digit(c) * kPow10[kDecimals + d - (n + 2)]
      BY <2>8, <3>1, <3>4 DEF Term, PlaceValue, c, d
    <3> QED BY <2>2, <2>4, <3>3, <3>5
  <2>9. CASE n + 1 = d
    <3>1. ReadSoFar(Scan(old, "."), d, n + 1, run[n])
      BY <2>2, <2>3, <2>7, <2>9, ReadDot
    <3>2. Term(body, d, n + 1) = 0 /\ run[n] + 0 = run[n]
      BY <2>3, <2>9 DEF Term
    <3> QED BY <2>2, <2>4, <2>6, <2>9, <3>1, <3>2
  <2>10. CASE n + 1 > d
    <3>1. n + 1 # d /\ ~(n < d) /\ n >= d /\ ~(n + 1 < d)
      BY <2>7, <2>10
    <3>2. (n + o) - f >= 0
      BY <1>1, <3>1
    <3>3. IsDigit(c) /\ HasDot(old, c)
      BY <2>5, <2>6, <3>1, <3>2 DEF HasDot
    <3>4. n + 1 - d <= kDecimals
      BY <1>1, <1>6, <2>1
    <3>5. ReadSoFar(Scan(old, c), d, n + 1,
                    run[n] + Digit(c) * kPow10[kDecimals + d - (n + 1)])
      BY <2>2, <2>3, <2>7, <3>1, <3>3, <3>4, ReadDigitAfter
    <3>6. Term(body, d, n + 1) = Digit(c) * kPow10[kDecimals + d - (n + 1)]
      BY <3>1 DEF Term, PlaceValue, c, d
    <3> QED BY <2>2, <2>4, <3>5, <3>6
  <2> QED BY <2>7, <2>8, <2>9, <2>10
<1> HIDE DEF S
<1>9. len \in S
  BY <1>1, <1>7, <1>8, EveryNat
<1>10. ReadSoFar(at[len + o], d, len, run[len])
  BY <1>1, <1>9 DEF S
<1>11. ReadSoFar(at[Len(text)], d, len, run[len])
  BY <1>1, <1>10
<1> QED BY <1>11 DEF body, d, len

\* What from_string makes of a text is what its digits say, place by place:
\* two numbers, one multiplied by kPriceScale and one by what its length calls
\* for, and the sign put back at the end.
THEOREM LimitIsTicks ==
    \A text : IsText(text) /\ IsPrice(text) =>
                from_string(text) = TicksOf(text) /\ from_string(text) \in Int
<1> SUFFICES ASSUME NEW text, IsText(text), IsPrice(text)
             PROVE  from_string(text) = TicksOf(text) /\ from_string(text) \in Int
  OBVIOUS
<1> DEFINE body  == WithoutSign(text)
           o     == Shift(text)
           d     == DotAt(body)
           len   == Len(body)
           s     == [i \in DOMAIN body |-> Term(body, d, i)]
<1>1. text # <<>> /\ Len(text) \in Nat
  BY TextIs DEF IsPrice
<1>2. PICK f : OneDot(text, f)
  BY PriceOneDot
<1>3. (\A j \in 1..Len(text) : ~Misplaced(text, j)) /\ Len(text) - f <= kDecimals
  BY <1>1, <1>2, PriceIs
<1>4. Accepted(text, f)
  BY <1>1, <1>2, <1>3 DEF Accepted
<1>5. /\ Len(text) \in Nat \ {0} /\ o \in 0..1
      /\ DOMAIN body = 1..len
      /\ len \in Nat /\ len + o = Len(text)
      /\ d \in 1..(len + 1) /\ d + o = f
      /\ len - d <= kDecimals
      /\ \A i \in 1..len : IF i = d THEN body[i] = "." ELSE IsDigit(body[i])
  BY <1>4, AcceptedParts
<1>6. kDecimals \in Nat
  BY DecimalsAssumption
<1>7. ASSUME NEW i \in 1..len PROVE Term(body, d, i) \in Int
  <2> HIDE DEF body, o, d, len, s
  <2>1. CASE i = d
    BY <2>1 DEF Term
  <2>2. CASE i # d
    <3>1. Digit(body[i]) \in Int
      BY <2>2, <1>5, DigitIs
    <3>2. kDecimals + d - (IF i < d THEN i + 1 ELSE i) \in Nat
      <4>1. i \in Int /\ i <= len /\ len \in Int /\ d \in Int /\ len - d <= kDecimals
        BY <1>5
      <4> QED BY ONLY <4>1, <2>2, <1>6
    <3>3. PlaceValue(body, i) \in Int
      BY <3>2, Powers DEF PlaceValue, d
    <3>4. Digit(body[i]) * PlaceValue(body, i) \in Int
      BY <3>1, <3>3
    <3> QED BY <2>2, <3>4 DEF Term
  <2> QED BY <2>1, <2>2
<1>8. Len(s) = len /\ \A i \in 1..len : s[i] = Term(body, d, i)
  <2> HIDE DEF body, d, len
  <2> QED BY <1>5
<1>9. Integers(s)
  <2> HIDE DEF s, body, d, len
  <2> QED BY <1>5, <1>7, <1>8 DEF Integers
<1>10. PICK run : IsRunning(run, s, len)
  <2> HIDE DEF s, body, d, len
  <2> QED BY <1>8, <1>9, RunningExists
<1>11. Total(s) = run[len] /\ run[len] \in Int
  <2> HIDE DEF s, body, d, len
  <2>1. Total(s) = run[len]
    BY <1>5, <1>8, <1>10, RunningTotal
  <2>2. len \in 0..len
    BY <1>5
  <2> QED BY <1>10, <2>1, <2>2 DEF IsRunning
<1>12. PICK at : IsScan(at, text) /\ Scanned(text) = at[Len(text)]
  BY <1>1, ScannedIs
<1>13. ReadSoFar(Scanned(text), d, len, run[len])
  <2> HIDE DEF s
  <2> QED BY <1>4, <1>8, <1>10, <1>12, ReadUpTo
<1>14. Found(at, text, f, Len(text))
  <2>1. FirstDot(text, f)
    BY <1>5, <1>2 DEF OneDot, FirstDot
  <2>2. Len(text) \in 0..Len(text)
    BY <1>1
  <2> QED BY <1>1, <1>12, <2>1, <2>2, FoundIs
<1>15. Scanned(text).ifNegative <=> text[1] = "-"
  <2>1. Scanned(text).ifNegative <=> \E j \in 1..Len(text) : text[j] = "-"
    BY <1>12, <1>14 DEF Found
  <2>2. ASSUME NEW j \in 1..Len(text), text[j] = "-" PROVE j = 1
    <3>1. ~IsDigit(text[j]) /\ text[j] \in Signs
      BY <2>2, DigitIs DEF Signs
    <3> QED BY <3>1, <1>3 DEF Misplaced
  <2>3. 1 \in 1..Len(text)
    BY <1>5
  <2> QED BY <2>1, <2>2, <2>3
<1> DEFINE state    == Scanned(text)
           decimals == IF state.post_dot_count >= 0
                       THEN state.decimal_part * kPow10[kDecimals - state.post_dot_count] ELSE 0
           temp     == state.integral_part * kPriceScale + decimals
<1>16. from_string(text) = IF state.ifNegative THEN -temp ELSE temp
  BY Zenon DEF from_string
<1>17. state.post_dot_count = len - d
  <2>1. state.post_dot_count = IF Len(text) < f THEN -1 ELSE Len(text) - f
    BY <1>12, <1>14 DEF Found
  <2> HIDE DEF state, body, d, len, o
  <2>2. /\ o \in 0..1 /\ len \in Nat /\ len + o = Len(text)
        /\ d \in 1..(len + 1) /\ d + o = f
    BY <1>5
  <2> QED BY ONLY <2>1, <2>2
<1>18. state \in ScanType
  <2>1. Len(text) \in 0..Len(text)
    BY <1>1
  <2> QED BY <1>12, <2>1 DEF IsScan
<1>19. state.integral_part \in Int /\ state.decimal_part \in Int
  <2> HIDE DEF state
  <2> QED BY <1>18 DEF ScanType
<1>20. temp = run[len]
  <2> HIDE DEF state, body, d, len, o
  <2>0. d \in Int /\ len \in Int /\ d <= len + 1
    BY <1>5
  <2>1. CASE len < d
    <3>1. kDecimals + d - 1 - len = kDecimals /\ ~(len - d >= 0)
      BY <2>0, <2>1, <1>6
    <3>2. state.integral_part * kPriceScale = run[len]
      BY <2>1, <3>1, <1>13 DEF ReadSoFar, kPriceScale, state
    <3>3. decimals = 0
      BY <3>1, <1>17
    <3> QED BY <3>2, <3>3, <1>11
  <2>2. CASE ~(len < d)
    <3>1. len - d >= 0
      BY <2>0, <2>2
    <3>2. decimals = state.decimal_part * kPow10[kDecimals - (len - d)]
      BY <3>1, <1>17
    <3>3. state.integral_part * kPriceScale + state.decimal_part * kPow10[kDecimals - (len - d)]
             = run[len]
      BY <2>2, <1>13 DEF ReadSoFar, kPriceScale, state
    <3> QED BY <3>2, <3>3
  <2> QED BY <2>1, <2>2
<1>21. TicksOf(text) = IF text[1] = "-" THEN -Total(s) ELSE Total(s)
  <2>1. s = [i \in DOMAIN body |-> IF i = DotAt(body) THEN 0
                                   ELSE Digit(body[i]) * PlaceValue(body, i)]
    BY DEF Term
  <2> QED BY <2>1, Zenon DEF TicksOf
<1> HIDE DEF temp, s, len, state
<1>22. from_string(text) = TicksOf(text)
  BY <1>11, <1>15, <1>16, <1>20, <1>21 DEF state
<1>23. from_string(text) \in Int
  BY <1>11, <1>16, <1>20
<1> QED BY <1>22, <1>23
-----------------------------------------------------------------------------
(***************************************************************************)
(* Printing a price, and reading it back                                   *)
(***************************************************************************)
\* One level of the recursion of Decimal, on a table of what is below.
Digitwise(g) ==
    [n \in Nat |-> IF n < 10 THEN <<Digits[n + 1]>>
                   ELSE Append(g[n \div 10], Digits[(n % 10) + 1])]

LEMMA Tenth ==
    ASSUME NEW n \in Nat, ~(n < 10)
    PROVE  n \div 10 \in Nat /\ n \div 10 < n /\ n = (n \div 10) * 10 + (n % 10) /\ n % 10 \in 0..9
  OBVIOUS

\* What a printed price is made of.
Char == {Digits[d] : d \in 1..10} \cup {"-", "."}

LEMMA DigitChar == ASSUME NEW d \in 0..9 PROVE Digits[d + 1] \in Char
  BY DEF Char

LEMMA DigitwiseIs ==
    ASSUME NEW g \in [Nat -> Seq(Char)]
    PROVE  Digitwise(g) \in [Nat -> Seq(Char)]
<1> SUFFICES ASSUME NEW n \in Nat
             PROVE  (IF n < 10 THEN <<Digits[n + 1]>>
                     ELSE Append(g[n \div 10], Digits[(n % 10) + 1])) \in Seq(Char)
  BY DEF Digitwise
<1>1. CASE n < 10
  <2>1. n \in 0..9
    BY <1>1
  <2>2. Digits[n + 1] \in Char
    BY <2>1, DigitChar
  <2> QED BY <1>1, <2>2, OneLong
<1>2. CASE ~(n < 10)
  <2>1. n \div 10 \in Nat /\ n % 10 \in 0..9
    BY <1>2, Tenth
  <2>2. g[n \div 10] \in Seq(Char) /\ Digits[(n % 10) + 1] \in Char
    BY <2>1, DigitChar
  <2>3. Append(g[n \div 10], Digits[(n % 10) + 1]) \in Seq(Char)
    BY <2>2, AppendProperties
  <2> QED BY <1>2, <2>3
<1> QED BY <1>1, <1>2

\* Digitwise, round after round, settles the text of n after n + 1 of them.
LEMMA Settles ==
    ASSUME NEW f \in [Nat -> [Nat -> Seq(Char)]],
           \A k \in Nat : f[k + 1] = Digitwise(f[k])
    PROVE  \A n \in Nat : \A k, l \in Nat : n < k /\ n < l => f[k][n] = f[l][n]
<1> DEFINE Settled(n) == \A k, l \in Nat : n < k /\ n < l => f[k][n] = f[l][n]
           S == {m \in Nat : \A n \in Nat : n < m => Settled(n)}
<1>1. 0 \in S
  OBVIOUS
<1>2. ASSUME NEW m \in Nat, m \in S PROVE m + 1 \in S
  <2>1. ASSUME NEW k \in Nat, NEW l \in Nat, m < k, m < l PROVE f[k][m] = f[l][m]
    <3>1. k - 1 \in Nat /\ l - 1 \in Nat /\ (k - 1) + 1 = k /\ (l - 1) + 1 = l
      BY <2>1
    <3>2. f[k] = Digitwise(f[k - 1]) /\ f[l] = Digitwise(f[l - 1])
      BY <3>1
    <3>3. CASE m < 10
      BY <3>2, <3>3 DEF Digitwise
    <3>4. CASE ~(m < 10)
      <4>1. m \div 10 \in Nat /\ m \div 10 < m
        BY <3>4, Tenth
      <4>2. m \div 10 < k - 1 /\ m \div 10 < l - 1
        <5> DEFINE t == m \div 10
        <5>1. t \in Nat /\ t < m
          BY <4>1
        <5> HIDE DEF t
        <5>2. t < k - 1 /\ t < l - 1
          BY <5>1, <2>1
        <5> QED BY <5>2 DEF t
      <4>3. Settled(m \div 10)
        BY <1>2, <4>1
      <4>4. f[k - 1][m \div 10] = f[l - 1][m \div 10]
        BY <3>1, <4>2, <4>3
      <4>5. /\ f[k][m] = Append(f[k - 1][m \div 10], Digits[(m % 10) + 1])
            /\ f[l][m] = Append(f[l - 1][m \div 10], Digits[(m % 10) + 1])
        BY <3>2, <3>4 DEF Digitwise
      <4> QED BY <4>4, <4>5
    <3> QED BY <3>3, <3>4
  <2>2. Settled(m)
    BY <2>1
  <2> HIDE DEF Settled
  <2>3. \A n \in Nat : n < m + 1 => n < m \/ n = m
    OBVIOUS
  <2> QED BY <1>2, <2>2, <2>3
<1> HIDE DEF S
<1>3. \A m \in Nat : m \in S
  BY <1>1, <1>2, EveryNat
<1> USE DEF S
<1> HIDE DEF Settled
<1>4. ASSUME NEW n \in Nat PROVE Settled(n)
  <2>1. n + 1 \in Nat /\ n < n + 1
    OBVIOUS
  <2>2. n + 1 \in S
    BY <1>3, <2>1
  <2> QED BY <2>1, <2>2
<1> QED BY <1>4 DEF Settled

LEMMA DecimalExists == Decimal = Digitwise(Decimal)
<1> DEFINE D == [Nat -> Seq(Char)]
           a == [n \in Nat |-> <<>>]
           step == [x \in Nat \X D |-> Digitwise(x[2])]
<1>1. a \in D
  <2>1. <<>> \in Seq(Char)
    BY EmptySeq
  <2> QED BY <2>1
<1>2. step \in [Nat \X D -> D]
  BY DigitwiseIs
<1>3. PICK f : Iterates(f, D, a, step)
  <2> HIDE DEF D, a, step
  <2> QED BY <1>1, <1>2, Iterate, Zenon
<1>4. f \in [Nat -> D]
  BY <1>3 DEF Iterates
<1>5. ASSUME NEW k \in Nat PROVE f[k + 1] = Digitwise(f[k])
  <2>1. k + 1 \in Nat \ {0} /\ (k + 1) - 1 = k
    OBVIOUS
  <2> HIDE DEF D, step
  <2>2. f[k + 1] = step[<<k + 1, f[k]>>]
    BY <1>3, <2>1 DEF Iterates
  <2>3. /\ <<k + 1, f[k]>> \in Nat \X D
        /\ <<k + 1, f[k]>>[2] = f[k]
    BY <1>4, <2>1
  <2> USE DEF step
  <2> QED BY <2>2, <2>3
<1> HIDE DEF a, step
<1>6. \A n \in Nat : \A k, l \in Nat : n < k /\ n < l => f[k][n] = f[l][n]
  BY <1>4, <1>5, Settles
<1> DEFINE g == [n \in Nat |-> f[n + 1][n]]
<1>7. ASSUME NEW n \in Nat PROVE g[n] = Digitwise(g)[n]
  <2>1. n + 1 \in Nat /\ g[n] = Digitwise(f[n])[n]
    BY <1>5
  <2>2. CASE n < 10
    BY <2>1, <2>2 DEF Digitwise
  <2>3. CASE ~(n < 10)
    <3> DEFINE t == n \div 10
    <3>1. t \in Nat /\ t < n
      BY <2>3, Tenth
    <3>2. /\ g[n] = Append(f[n][t], Digits[(n % 10) + 1])
          /\ Digitwise(g)[n] = Append(g[t], Digits[(n % 10) + 1])
      BY <2>1, <2>3 DEF Digitwise
    <3> HIDE DEF t
    <3>3. t + 1 \in Nat /\ t < t + 1 /\ g[t] = f[t + 1][t]
      BY <3>1
    <3>4. f[n][t] = f[t + 1][t]
      BY <1>6, <3>1, <3>3
    <3> QED BY <3>2, <3>3, <3>4
  <2> QED BY <2>2, <2>3
<1> DEFINE Is(d) == d = [n \in Nat |-> IF n < 10 THEN <<Digits[n + 1]>>
                                       ELSE Append(d[n \div 10], Digits[(n % 10) + 1])]
<1>8. g = Digitwise(g)
  BY <1>7 DEF Digitwise
<1>9. Is(g)
  <2> HIDE DEF g
  <2> QED BY <1>8 DEF Digitwise
<1>10. Decimal = CHOOSE d : Is(d)
  BY DEF Decimal
<1> HIDE DEF Is
<1>11. Is(Decimal)
  BY <1>9, <1>10
<1> QED BY <1>11 DEF Is, Digitwise

\* h[k] is the number that the first k digits of s are.
IsReading(h, s) ==
    /\ h \in [0..Len(s) -> Int]
    /\ h[0] = 0
    /\ \A k \in 1..Len(s) : h[k] = h[k - 1] * 10 + Digit(s[k])

\* s is a number n written in digits.
Writes(s, n) ==
    /\ s \in Seq(Char)
    /\ Len(s) \in Nat \ {0}
    /\ \A k \in 1..Len(s) : IsDigit(s[k])
    /\ \E h : IsReading(h, s) /\ h[Len(s)] = n

LEMMA WritesDigit == ASSUME NEW d \in 0..9 PROVE Writes(<<Digits[d + 1]>>, d)
<1> DEFINE c == Digits[d + 1]
           s == <<c>>
           h == [k \in 0..1 |-> IF k = 0 THEN 0 ELSE d]
<1>1. IsDigit(c) /\ Digit(c) = d /\ c \in Char
  BY DigitAt, DigitChar
<1>2. s \in Seq(Char) /\ Len(s) = 1
  BY <1>1, OneLong
<1>3. s[1] = c
  OBVIOUS
<1> HIDE DEF c, s
<1>4. \A k \in 1..1 : k = 1 /\ k - 1 = 0
  OBVIOUS
<1>5. h \in [0..1 -> Int] /\ h[0] = 0 /\ h[1] = 0 * 10 + d /\ h[1] = d
  OBVIOUS
<1> HIDE DEF h
<1>6. IsReading(h, s)
  BY <1>1, <1>2, <1>3, <1>4, <1>5 DEF IsReading
<1>7. \A k \in 1..Len(s) : IsDigit(s[k])
  BY <1>1, <1>2, <1>3, <1>4
<1>8. Writes(s, d)
  BY <1>2, <1>5, <1>6, <1>7 DEF Writes
<1> QED BY <1>8 DEF s, c

LEMMA WritesMore ==
    ASSUME NEW s, NEW n \in Nat, Writes(s, n), NEW d \in 0..9
    PROVE  Writes(Append(s, Digits[d + 1]), n * 10 + d)
<1> DEFINE c    == Digits[d + 1]
           t    == Append(s, c)
           len  == Len(s)
<1>1. IsDigit(c) /\ Digit(c) = d /\ c \in Char
  BY DigitAt, DigitChar
<1>2. /\ s \in Seq(Char) /\ len \in Nat \ {0}
      /\ \A k \in 1..len : IsDigit(s[k])
  BY DEF Writes
<1>3. PICK h : IsReading(h, s) /\ h[len] = n
  BY DEF Writes
<1>4. /\ h \in [0..len -> Int] /\ h[0] = 0
      /\ \A k \in 1..len : h[k] = h[k - 1] * 10 + Digit(s[k])
  BY <1>3 DEF IsReading
<1>5. /\ t \in Seq(Char) /\ Len(t) = len + 1
      /\ \A k \in 1..len : t[k] = s[k]
      /\ t[len + 1] = c
  BY <1>1, <1>2, AppendProperties
<1> DEFINE g == [k \in 0..(len + 1) |-> IF k = len + 1 THEN n * 10 + d ELSE h[k]]
<1> HIDE DEF c, t, len
<1>6. \A k \in 0..(len + 1) : k # len + 1 => k \in 0..len
  BY <1>2
<1>7. /\ g \in [0..(len + 1) -> Int]
      /\ g[0] = 0 /\ g[len + 1] = n * 10 + d
  <2>1. n * 10 + d \in Int /\ 0 # len + 1 /\ 0 \in 0..(len + 1) /\ len + 1 \in 0..(len + 1)
    BY <1>2
  <2> QED BY <2>1, <1>4, <1>6
<1>8. ASSUME NEW k \in 1..(len + 1) PROVE g[k] = g[k - 1] * 10 + Digit(t[k]) /\ IsDigit(t[k])
  <2>1. k \in 0..(len + 1) /\ k - 1 \in 0..(len + 1) /\ k - 1 # len + 1
    BY <1>2
  <2>2. g[k - 1] = h[k - 1]
    BY <2>1
  <2>3. CASE k = len + 1
    <3>1. k - 1 = len
      BY <2>3, <1>2
    <3>2. g[k - 1] = n /\ g[k] = n * 10 + d
      BY <1>3, <1>7, <2>2, <2>3, <3>1 DEF len
    <3> QED BY <3>2, <2>3, <1>1, <1>5
  <2>4. CASE k # len + 1
    <3>1. k \in 1..len
      BY <2>4, <1>2
    <3>2. g[k] = h[k]
      BY <2>1, <2>4
    <3> QED BY <3>1, <3>2, <2>2, <1>2, <1>4, <1>5
  <2> QED BY <2>3, <2>4
<1> HIDE DEF g
<1>9. IsReading(g, t)
  BY <1>5, <1>7, <1>8 DEF IsReading
<1>10. \A k \in 1..Len(t) : IsDigit(t[k])
  BY <1>5, <1>8
<1>11. Len(t) \in Nat \ {0} /\ g[Len(t)] = n * 10 + d
  BY <1>2, <1>5, <1>7
<1>12. Writes(t, n * 10 + d)
  BY <1>5, <1>9, <1>10, <1>11 DEF Writes
<1> QED BY <1>12 DEF t, c

\* std::to_string writes its number.
LEMMA DecimalWrites == \A n \in Nat : Writes(Decimal[n], n)
<1> DEFINE S == {m \in Nat : \A n \in Nat : n < m => Writes(Decimal[n], n)}
<1>1. 0 \in S
  OBVIOUS
<1>2. ASSUME NEW m \in Nat, m \in S PROVE m + 1 \in S
  <2>1. Writes(Decimal[m], m)
    <3>0. Decimal[m] = IF m < 10 THEN <<Digits[m + 1]>>
                       ELSE Append(Decimal[m \div 10], Digits[(m % 10) + 1])
      <4>1. Decimal[m] = Digitwise(Decimal)[m]
        BY DecimalExists, Zenon
      <4>2. Digitwise(Decimal)[m] = IF m < 10 THEN <<Digits[m + 1]>>
                                    ELSE Append(Decimal[m \div 10], Digits[(m % 10) + 1])
        BY DEF Digitwise
      <4> QED BY <4>1, <4>2, Zenon
    <3>1. CASE m < 10
      <4>1. m \in 0..9
        BY <3>1
      <4> QED BY <3>0, <3>1, <4>1, WritesDigit
    <3>2. CASE ~(m < 10)
      <4> DEFINE t == m \div 10
                 d == m % 10
      <4>1. t \in Nat /\ t < m /\ m = t * 10 + d /\ d \in 0..9
        BY <3>2, Tenth
      <4>2. Decimal[m] = Append(Decimal[t], Digits[d + 1])
        BY <3>0, <3>2
      <4> HIDE DEF t, d
      <4>3. Writes(Decimal[t], t)
        BY <1>2, <4>1
      <4>4. Writes(Append(Decimal[t], Digits[d + 1]), t * 10 + d)
        BY <4>1, <4>3, WritesMore
      <4> QED BY <4>1, <4>2, <4>4
    <3> QED BY <3>1, <3>2
  <2>2. \A n \in Nat : n < m + 1 => n < m \/ n = m
    OBVIOUS
  <2> QED BY <1>2, <2>1, <2>2
<1> HIDE DEF S
<1>3. \A m \in Nat : m \in S
  BY <1>1, <1>2, EveryNat
<1>4. ASSUME NEW n \in Nat PROVE Writes(Decimal[n], n)
  <2>1. n + 1 \in Nat /\ n < n + 1
    OBVIOUS
  <2>2. n + 1 \in S
    BY <1>3, <2>1
  <2> QED BY <2>1, <2>2 DEF S
<1> QED BY <1>4

\* Zeros in front do not change a number.
LEMMA PaddedWrites ==
    ASSUME NEW s, NEW n \in Nat, Writes(s, n)
    PROVE  Writes(Padded(s), n) /\ Len(Padded(s)) >= kDecimals + 1
<1> DEFINE len   == Len(s)
           pad   == kDecimals + 1 - len
           zeros == [i \in 1..pad |-> "0"]
           p     == IF pad >= 0 THEN pad ELSE 0
           t     == Padded(s)
<1>0. kDecimals \in Nat
  BY DecimalsAssumption
<1>1. /\ s \in Seq(Char) /\ len \in Nat \ {0}
      /\ \A k \in 1..len : IsDigit(s[k])
  BY DEF Writes
<1>2. PICK h : IsReading(h, s) /\ h[len] = n
  BY DEF Writes
<1>3. /\ h \in [0..len -> Int] /\ h[0] = 0
      /\ \A k \in 1..len : h[k] = h[k - 1] * 10 + Digit(s[k])
  BY <1>2 DEF IsReading
<1>4. "0" \in Char /\ IsDigit("0") /\ Digit("0") = 0
  <2>1. 0 \in 0..9 /\ Digits[0 + 1] = "0"
    BY DEF Digits
  <2> QED BY <2>1, DigitAt, DigitChar
<1> HIDE DEF len
<1>5. pad \in Int /\ p \in Nat /\ len + p >= kDecimals + 1
  BY <1>0, <1>1
<1>6. zeros \in Seq(Char) /\ Len(zeros) = p /\ \A i \in 1..p : zeros[i] = "0"
  <2> HIDE DEF pad
  <2>1. zeros = [i \in 1..p |-> "0"]
    <3>1. 1..pad = 1..p
      BY <1>5
    <3> QED BY <3>1
  <2> HIDE DEF p, zeros
  <2>2. [i \in 1..p |-> "0"] \in Seq(Char) /\ Len([i \in 1..p |-> "0"]) = p
    BY <1>4, <1>5
  <2> QED BY <2>1, <2>2
<1>7. t = zeros \o s
  BY DEF Padded, len
<1> HIDE DEF t, zeros, p, pad
<1>8. /\ t \in Seq(Char) /\ Len(t) = p + len
      /\ \A i \in 1..(p + len) : t[i] = IF i <= p THEN zeros[i] ELSE s[i - p]
  BY <1>1, <1>6, <1>7, ConcatProperties DEF len
<1> DEFINE g == [k \in 0..(p + len) |-> IF k <= p THEN 0 ELSE h[k - p]]
<1>9. /\ g \in [0..(p + len) -> Int]
      /\ g[0] = 0 /\ g[p + len] = n
  <2>1. \A k \in 0..(p + len) : ~(k <= p) => k - p \in 0..len
    BY <1>1, <1>5
  <2>2. 0 <= p /\ 0 \in 0..(p + len) /\ p + len \in 0..(p + len) /\ ~(p + len <= p) /\ (p + len) - p = len
    BY <1>1, <1>5
  <2> QED BY <2>1, <2>2, <1>2, <1>3 DEF len
<1>10. ASSUME NEW k \in 1..(p + len) PROVE g[k] = g[k - 1] * 10 + Digit(t[k]) /\ IsDigit(t[k])
  <2>1. k \in 0..(p + len) /\ k - 1 \in 0..(p + len) /\ k \in Int
    BY <1>1, <1>5
  <2>2. CASE k <= p
    <3>1. k - 1 <= p /\ k \in 1..p
      BY <2>1, <2>2, <1>5
    <3>2. g[k] = 0 /\ g[k - 1] = 0 /\ t[k] = "0"
      BY <2>1, <2>2, <3>1, <1>6, <1>8
    <3> QED BY <3>2, <1>4
  <2>3. CASE ~(k <= p)
    <3>1. k - p \in 1..len /\ (k - p) - 1 = (k - 1) - p /\ (k - 1 <= p => k - p = 1)
      BY <2>1, <2>3, <1>1, <1>5
    <3>2. g[k] = h[k - p] /\ t[k] = s[k - p]
      BY <2>1, <2>3, <1>8
    <3>3. g[k - 1] = h[(k - p) - 1]
      <4>1. CASE k - 1 <= p
        <5>1. (k - p) - 1 = 0
          BY <3>1, <4>1
        <5> QED BY <5>1, <4>1, <2>1, <1>3
      <4>2. CASE ~(k - 1 <= p)
        BY <4>2, <2>1, <3>1
      <4> QED BY <4>1, <4>2
    <3> QED BY <3>1, <3>2, <3>3, <1>1, <1>3
  <2> QED BY <2>2, <2>3
<1> HIDE DEF g
<1>11. IsReading(g, t)
  BY <1>8, <1>9, <1>10 DEF IsReading
<1>12. Len(t) \in Nat \ {0} /\ g[Len(t)] = n /\ Len(t) >= kDecimals + 1
  BY <1>0, <1>1, <1>5, <1>8, <1>9
<1>13. \A k \in 1..Len(t) : IsDigit(t[k])
  BY <1>8, <1>10
<1>14. Writes(t, n)
  BY <1>8, <1>11, <1>12, <1>13 DEF Writes
<1> QED BY <1>12, <1>14 DEF t

\* A printed price: digits that write n, a dot with kDecimals of them behind
\* it, and a sign or none.
Printed(text, str, o, n) ==
    LET dot == Len(str) - kDecimals
    IN  /\ Writes(str, n) /\ dot \in Nat \ {0}
        /\ o \in 0..1
        /\ text \in Seq(Char) /\ Len(text) = o + Len(str) + 1
        /\ o = 1 => text[1] = "-"
        /\ \A k \in 1..dot : text[o + k] = str[k]
        /\ text[o + dot + 1] = "."
        /\ \A k \in (dot + 1)..Len(str) : text[o + k + 1] = str[k]

LEMMA PrintedIs ==
    ASSUME NEW ticks \in Int
    PROVE  \E str : Printed(to_string(ticks), str, IF ticks < 0 THEN 1 ELSE 0,
                            IF ticks < 0 THEN -ticks ELSE ticks)
<1> DEFINE n     == IF ticks < 0 THEN -ticks ELSE ticks
           o     == IF ticks < 0 THEN 1 ELSE 0
           str   == Padded(Decimal[n])
           dot   == Len(str) - kDecimals
           sign  == IF ticks < 0 THEN <<"-">> ELSE <<>>
           front == SubSeq(str, 1, dot)
           back  == SubSeq(str, dot + 1, Len(str))
           one   == <<".">>
<1>0. kDecimals \in Nat \ {0}
  BY DecimalsAssumption
<1>1. n \in Nat /\ o \in 0..1
  OBVIOUS
<1>2. Writes(str, n) /\ Len(str) >= kDecimals + 1
  <2> HIDE DEF n
  <2> QED BY <1>1, DecimalWrites, PaddedWrites
<1>3. to_string(ticks) = sign \o front \o one \o back
  BY DEF to_string
<1>4. sign \in Seq(Char) /\ Len(sign) = o /\ (o = 1 => sign[1] = "-")
  <2>1. "-" \in Char
    BY DEF Char
  <2>2. <<"-">> \in Seq(Char) /\ Len(<<"-">>) = 1
    BY <2>1, OneLong
  <2>3. <<>> \in Seq(Char) /\ Len(<<>>) = 0
    BY EmptySeq
  <2>4. <<"-">>[1] = "-"
    OBVIOUS
  <2> QED BY <2>2, <2>3, <2>4
<1>5. one \in Seq(Char) /\ Len(one) = 1 /\ one[1] = "."
  <2>1. "." \in Char
    BY DEF Char
  <2> QED BY <2>1, OneLong
<1> HIDE DEF n, o, str, sign, one
<1> DEFINE len == Len(str)
<1>6. str \in Seq(Char) /\ len \in Nat
  BY <1>2 DEF Writes
<1>7. dot \in Nat \ {0} /\ dot <= len /\ len \in Nat
  <2> HIDE DEF len
  <2> QED BY <1>0, <1>2, <1>6 DEF len
<1>8. \A i \in 1..len : str[i] \in Char
  BY <1>6, LenProperties
<1> HIDE DEF dot, len
<1>9. /\ front \in Seq(Char) /\ Len(front) = dot
      /\ \A k \in 1..dot : front[k] = str[k]
  <2>1. \A i \in 1..dot : str[i] \in Char
    BY <1>7, <1>8
  <2>2. /\ SubSeq(str, 1, dot) \in Seq(Char)
        /\ Len(SubSeq(str, 1, dot)) = IF 1 <= dot THEN dot - 1 + 1 ELSE 0
        /\ \A i \in 1..(dot - 1 + 1) : SubSeq(str, 1, dot)[i] = str[1 + i - 1]
    <3>1. 1 \in Int /\ dot \in Int
      BY <1>7
    <3> QED BY <2>1, <3>1, SubSeqProperties
  <2>3. 1 <= dot /\ dot - 1 + 1 = dot /\ \A i \in Int : 1 + i - 1 = i
    BY <1>7
  <2> QED BY <2>2, <2>3
<1>10. /\ back \in Seq(Char) /\ Len(back) = len - dot
       /\ \A k \in 1..(len - dot) : back[k] = str[dot + k]
  <2>0. back = SubSeq(str, dot + 1, len)
    BY DEF len
  <2> HIDE DEF back
  <2>1. \A i \in (dot + 1)..len : str[i] \in Char
    BY <1>7, <1>8
  <2>2. /\ SubSeq(str, dot + 1, len) \in Seq(Char)
        /\ Len(SubSeq(str, dot + 1, len)) = IF dot + 1 <= len THEN len - (dot + 1) + 1 ELSE 0
        /\ \A i \in 1..(len - (dot + 1) + 1) :
              SubSeq(str, dot + 1, len)[i] = str[(dot + 1) + i - 1]
    <3>1. dot + 1 \in Int /\ len \in Int
      BY <1>7
    <3> QED BY <2>1, <3>1, SubSeqProperties
  <2>3. /\ len - (dot + 1) + 1 = len - dot
        /\ ~(dot + 1 <= len) => len - dot = 0
        /\ \A i \in Int : (dot + 1) + i - 1 = dot + i
    BY <1>7
  <2>4. ASSUME NEW k \in 1..(len - dot) PROVE back[k] = str[dot + k]
    <3>1. k \in Int
      OBVIOUS
    <3>2. back[k] = str[(dot + 1) + k - 1]
      BY <2>0, <2>2, <2>3
    <3> QED BY <3>1, <3>2, <2>3
  <2>5. Len(back) = len - dot
    BY <2>0, <2>2, <2>3
  <2> QED BY <2>0, <2>2, <2>4, <2>5
<1> HIDE DEF front, back
<1> DEFINE a == sign \o front
           b == a \o one
           text == b \o back
<1>11. /\ a \in Seq(Char) /\ Len(a) = o + dot
       /\ \A i \in 1..(o + dot) : a[i] = IF i <= o THEN sign[i] ELSE front[i - o]
  BY <1>4, <1>9, ConcatProperties
<1> HIDE DEF a
<1>12. /\ b \in Seq(Char) /\ Len(b) = o + dot + 1
       /\ \A i \in 1..(o + dot + 1) : b[i] = IF i <= o + dot THEN a[i] ELSE one[i - (o + dot)]
  <2>1. /\ a \o one \in Seq(Char) /\ Len(a \o one) = Len(a) + Len(one)
        /\ \A i \in 1..(Len(a) + Len(one)) :
              (a \o one)[i] = IF i <= Len(a) THEN a[i] ELSE one[i - Len(a)]
    BY <1>5, <1>11, ConcatProperties
  <2>2. Len(a) = o + dot /\ Len(one) = 1
    BY <1>5, <1>11
  <2> QED BY <2>1, <2>2, Zenon
<1> HIDE DEF b
<1>13. /\ text \in Seq(Char) /\ Len(text) = o + dot + 1 + (len - dot)
       /\ \A i \in 1..(o + dot + 1 + (len - dot)) :
             text[i] = IF i <= o + dot + 1 THEN b[i] ELSE back[i - (o + dot + 1)]
  <2>1. /\ b \o back \in Seq(Char) /\ Len(b \o back) = Len(b) + Len(back)
        /\ \A i \in 1..(Len(b) + Len(back)) :
              (b \o back)[i] = IF i <= Len(b) THEN b[i] ELSE back[i - Len(b)]
    BY <1>10, <1>12, ConcatProperties
  <2>2. Len(b) = o + dot + 1 /\ Len(back) = len - dot
    BY <1>10, <1>12
  <2> QED BY <2>1, <2>2, Zenon
<1> HIDE DEF text
<1>14. Len(text) = o + len + 1
  BY <1>1, <1>7, <1>13
<1>15. o = 1 => text[1] = "-"
  <2>1. ASSUME o = 1
        PROVE  /\ 1 \in 1..(o + dot + 1 + (len - dot)) /\ 1 <= o + dot + 1
               /\ 1 \in 1..(o + dot + 1) /\ 1 <= o + dot /\ 1 \in 1..(o + dot) /\ 1 <= o
    BY <2>1, <1>7
  <2> QED BY <2>1, <1>4, <1>11, <1>12, <1>13
<1>16. ASSUME NEW k \in 1..dot PROVE text[o + k] = str[k]
  <2>1. /\ o + k \in 1..(o + dot + 1 + (len - dot)) /\ o + k <= o + dot + 1
        /\ o + k \in 1..(o + dot + 1) /\ o + k <= o + dot /\ o + k \in 1..(o + dot)
        /\ ~(o + k <= o) /\ (o + k) - o = k
    BY <1>1, <1>7
  <2>2. text[o + k] = b[o + k] /\ b[o + k] = a[o + k]
    BY <2>1, <1>12, <1>13
  <2>3. a[o + k] = front[k] /\ front[k] = str[k]
    BY <2>1, <1>9, <1>11
  <2> QED BY <2>2, <2>3
<1>17. text[o + dot + 1] = "."
  <2>1. /\ o + dot + 1 \in 1..(o + dot + 1 + (len - dot)) /\ o + dot + 1 <= o + dot + 1
        /\ o + dot + 1 \in 1..(o + dot + 1) /\ ~(o + dot + 1 <= o + dot)
        /\ (o + dot + 1) - (o + dot) = 1
    BY <1>1, <1>7
  <2> QED BY <2>1, <1>5, <1>12, <1>13
<1>18. ASSUME NEW k \in (dot + 1)..len PROVE text[o + k + 1] = str[k]
  <2>1. /\ o + k + 1 \in 1..(o + dot + 1 + (len - dot)) /\ ~(o + k + 1 <= o + dot + 1)
        /\ (o + k + 1) - (o + dot + 1) = k - dot
        /\ k - dot \in 1..(len - dot) /\ dot + (k - dot) = k
    BY <1>1, <1>7
  <2> QED BY <2>1, <1>10, <1>13
<1>19. Printed(text, str, o, n)
  BY <1>1, <1>2, <1>7, <1>13, <1>14, <1>15, <1>16, <1>17, <1>18 DEF Printed, dot, len
<1>20. to_string(ticks) = text
  BY <1>3 DEF text, b, a
<1> QED BY <1>19, <1>20 DEF n, o

\* Such a text is a price, and where its dot is.
LEMMA PrintedAccepted ==
    ASSUME NEW text, NEW str, NEW o, NEW n, Printed(text, str, o, n)
    PROVE  /\ Accepted(text, o + (Len(str) - kDecimals) + 1)
           /\ IsPrice(text)
           /\ DotAt(text) = o + (Len(str) - kDecimals) + 1
           /\ DotAt(text) = Len(text) - kDecimals
           /\ IsDigit(text[DotAt(text) - 1])
<1> DEFINE len == Len(str)
           dot == len - kDecimals
           f   == o + dot + 1
<1>0. kDecimals \in Nat \ {0}
  BY DecimalsAssumption
<1>1. /\ dot \in Nat \ {0} /\ o \in 0..1
      /\ text \in Seq(Char) /\ Len(text) = o + len + 1
      /\ o = 1 => text[1] = "-"
      /\ \A k \in 1..dot : text[o + k] = str[k]
      /\ text[f] = "."
      /\ \A k \in (dot + 1)..len : text[o + k + 1] = str[k]
  BY DEF Printed
<1>2. len \in Nat /\ \A k \in 1..len : IsDigit(str[k])
  BY DEF Printed, Writes
<1>3. IsText(text)
  BY <1>1 DEF IsText
<1> HIDE DEF len
<1>4. dot + kDecimals = len /\ dot <= len /\ f \in Nat
  BY <1>0, <1>1, <1>2
<1> HIDE DEF dot, f
<1>5. ASSUME NEW j \in 1..Len(text)
      PROVE  /\ j # f => text[j] # "."
             /\ ~Misplaced(text, j)
  <2>1. CASE j <= o
    <3>1. j = 1 /\ o = 1 /\ j # f
      BY <2>1, <1>1, <1>4 DEF f
    <3>2. "-" \in Signs /\ "-" # "."
      BY DEF Signs
    <3> QED BY <3>1, <3>2, <1>1 DEF Misplaced
  <2>2. CASE j > o /\ j < f
    <3>1. j - o \in 1..dot /\ o + (j - o) = j /\ j - o \in 1..len
      BY <2>2, <1>1, <1>2, <1>4 DEF f
    <3>2. IsDigit(text[j])
      BY <3>1, <1>1, <1>2
    <3> QED BY <3>2, DigitIs DEF Misplaced
  <2>3. CASE j = f
    <3>1. "." \notin Signs
      BY DEF Signs
    <3> QED BY <2>3, <3>1, <1>1 DEF Misplaced
  <2>4. CASE j > f
    <3>1. j - o - 1 \in (dot + 1)..len /\ o + (j - o - 1) + 1 = j /\ j - o - 1 \in 1..len
      BY <2>4, <1>1, <1>2, <1>4 DEF f
    <3>2. IsDigit(text[j])
      BY <3>1, <1>1, <1>2
    <3> QED BY <3>2, DigitIs DEF Misplaced
  <2>5. j <= o \/ (j > o /\ j < f) \/ j = f \/ j > f
    BY <1>1, <1>4
  <2> QED BY <2>1, <2>2, <2>3, <2>4, <2>5
<1>6. f \in 1..(Len(text) + 1) /\ Len(text) \in Nat \ {0} /\ Len(text) # 1
      /\ Len(text) - f = kDecimals /\ f = Len(text) - kDecimals
  BY <1>0, <1>1, <1>2, <1>4 DEF f
<1>7. OneDot(text, f)
  BY <1>1, <1>5, <1>6 DEF OneDot
<1>8. text # <<>>
  BY <1>6, EmptySeq
<1>9. Len(text) - f <= kDecimals
  BY <1>0, <1>6
<1>10. Accepted(text, f)
  BY <1>3, <1>5, <1>7, <1>8, <1>9 DEF Accepted
<1>11. IsPrice(text)
  BY <1>3, <1>5, <1>6, <1>7, <1>8, <1>9, PriceIs DEF Bare
<1>12. DotAt(text) = f
  BY <1>3, <1>7, TextIs, DotAtIs
<1>13. IsDigit(text[f - 1])
  <2>1. dot \in 1..dot /\ dot \in 1..len /\ f - 1 = o + dot
    BY <1>1, <1>2, <1>4 DEF f
  <2> QED BY <2>1, <1>1, <1>2
<1> QED BY <1>6, <1>10, <1>11, <1>12, <1>13 DEF f, dot, len

\* The loop reads back the number, and the sign, that were printed.
LEMMA ReadBack ==
    ASSUME NEW text, NEW str, NEW o, NEW n \in Nat, Printed(text, str, o, n)
    PROVE  from_string(text) = IF o = 1 THEN -n ELSE n
<1> DEFINE len == Len(str)
           dot == len - kDecimals
           f   == o + dot + 1
<1>0. kDecimals \in Nat \ {0}
  BY DecimalsAssumption
<1>1. /\ dot \in Nat \ {0} /\ o \in 0..1
      /\ Len(text) = o + len + 1
      /\ o = 1 => text[1] = "-"
      /\ \A k \in 1..dot : text[o + k] = str[k]
      /\ text[f] = "."
      /\ \A k \in (dot + 1)..len : text[o + k + 1] = str[k]
  BY DEF Printed
<1>2. len \in Nat /\ \A k \in 1..len : IsDigit(str[k])
  BY DEF Printed, Writes
<1>3. PICK h : IsReading(h, str) /\ h[len] = n
  BY DEF Printed, Writes
<1>4. /\ h \in [0..len -> Int] /\ h[0] = 0
      /\ \A k \in 1..len : h[k] = h[k - 1] * 10 + Digit(str[k])
  BY <1>3 DEF IsReading
<1>5. Accepted(text, f)
  BY PrintedAccepted
<1> HIDE DEF len
<1>6. dot + kDecimals = len /\ dot <= len /\ f \in Nat /\ Len(text) \in Nat \ {0}
  BY <1>0, <1>1, <1>2
<1> HIDE DEF dot, f
<1>7. FirstDot(text, f)
  BY <1>5, <1>6 DEF Accepted, OneDot, FirstDot
<1>8. PICK at : IsScan(at, text) /\ Scanned(text) = at[Len(text)]
  BY <1>6, ScannedIs
<1>9. \A k \in 0..Len(text) : Found(at, text, f, k)
  BY <1>6, <1>7, <1>8, FoundIs
<1>10. /\ at \in [0..Len(text) -> ScanType]
       /\ \A k \in 1..Len(text) : at[k] = Scan(at[k - 1], text[k])
  BY <1>8 DEF IsScan
<1>11. \A k \in 0..Len(text) : at[k] \in ScanType
                               /\ at[k].post_dot_count = IF k < f THEN -1 ELSE k - f
  BY <1>9, <1>10 DEF Found
<1>12. ASSUME NEW k \in Nat, k <= dot
       PROVE  at[o + k].integral_part = h[k] /\ at[o + k].decimal_part = 0
  <2> DEFINE Read(i) == at[o + i].integral_part = h[i] /\ at[o + i].decimal_part = 0
             S == {i \in Nat : i <= dot => Read(i)}
  <2>1. 0 \in S
    <3>1. o = 1 => text[1] \in Signs
      BY <1>1 DEF Signs
    <3>2. o + 0 = o
      BY <1>1
    <3> QED BY <3>1, <3>2, <1>1, <1>4, <1>6, <1>8, BeforeBody
  <2>2. ASSUME NEW i \in Nat, i \in S, i + 1 <= dot PROVE Read(i + 1)
    <3> DEFINE old == at[o + i]
               c   == str[i + 1]
    <3>1. /\ i + 1 \in 1..dot /\ i + 1 \in 1..len /\ (i + 1) - 1 = i /\ i <= dot
          /\ o + (i + 1) \in 1..Len(text) /\ (o + (i + 1)) - 1 = o + i
          /\ o + i \in 0..Len(text) /\ o + i < f
      BY <2>2, <1>1, <1>2, <1>6 DEF f
    <3>2. at[o + (i + 1)] = Scan(old, c) /\ old \in ScanType /\ old.post_dot_count = -1
      BY <3>1, <1>1, <1>10, <1>11
    <3>3. old.integral_part = h[i] /\ h[i + 1] = h[i] * 10 + Digit(c) /\ IsDigit(c)
      BY <2>2, <3>1, <1>2, <1>4
    <3> HIDE DEF old, c
    <3>4. ~HasDot(old, c)
      BY <3>2, <3>3, DigitIs DEF HasDot
    <3>5. /\ Scan(old, c).integral_part = old.integral_part * 10 + Digit(c)
          /\ Scan(old, c).decimal_part = 0
      BY <3>2, <3>3, <3>4, ScanIs DEF Shifted
    <3> QED BY <3>2, <3>3, <3>5
  <2> HIDE DEF Read
  <2>3. ASSUME NEW i \in Nat, i \in S PROVE i + 1 \in S
    BY <2>2, <2>3
  <2> HIDE DEF S
  <2>4. k \in S
    BY <2>1, <2>3, EveryNat
  <2> QED BY <2>4, <1>12 DEF S, Read
<1>13. at[f].integral_part = h[dot] /\ at[f].decimal_part = 0
  <2> DEFINE old == at[o + dot]
  <2>1. f \in 1..Len(text) /\ f - 1 = o + dot /\ o + dot \in 0..Len(text) /\ dot \in Nat /\ dot <= dot
    BY <1>1, <1>2, <1>6 DEF f
  <2>2. old \in ScanType /\ at[f] = Scan(old, ".")
    BY <2>1, <1>1, <1>10, <1>11
  <2>3. old.integral_part = h[dot] /\ old.decimal_part = 0
    BY <2>1, <1>12
  <2> HIDE DEF old
  <2>4. HasDot(old, ".") /\ ~IsDigit(".")
    BY DigitIs DEF HasDot
  <2>5. /\ Scan(old, ".").integral_part = old.integral_part
        /\ Scan(old, ".").decimal_part = old.decimal_part
    BY <2>2, <2>4, ScanIs DEF Shifted
  <2> QED BY <2>2, <2>3, <2>5
<1> DEFINE Rest(i) == /\ at[f + i].integral_part = h[dot]
                      /\ h[dot] * kPow10[i] + at[f + i].decimal_part = h[dot + i]
           T == {i \in Nat : i <= kDecimals => Rest(i)}
<1>14. h[dot] \in Int
  BY <1>1, <1>4, <1>6
<1>15. 0 \in T
  <2>1. f + 0 = f /\ dot + 0 = dot /\ kPow10[0] = 1
    BY <1>1, <1>6, Powers
  <2>2. h[dot] * 1 + 0 = h[dot]
    BY <1>14
  <2> QED BY <2>1, <2>2, <1>13
<1>16. ASSUME NEW i \in Nat, i \in T, i + 1 <= kDecimals PROVE Rest(i + 1)
  <2> DEFINE old == at[f + i]
             c   == str[dot + (i + 1)]
  <2>1. /\ i <= kDecimals
        /\ dot + (i + 1) \in 1..len /\ dot + (i + 1) \in (dot + 1)..len
        /\ (dot + (i + 1)) - 1 = dot + i
        /\ o + (dot + (i + 1)) + 1 = f + (i + 1)
        /\ f + (i + 1) \in 1..Len(text) /\ (f + (i + 1)) - 1 = f + i
        /\ f + i \in 0..Len(text) /\ ~(f + i < f) /\ (f + i) - f = i
        /\ dot + i \in 0..len
    <3>1. /\ dot \in Nat \ {0} /\ o \in 0..1 /\ Len(text) = o + len + 1
          /\ dot + kDecimals = len /\ len \in Nat
      BY <1>1, <1>2, <1>6
    <3>2. f = o + dot + 1
      BY DEF f
    <3> QED BY ONLY <3>1, <3>2, <1>0, <1>16, i \in Nat
  <2>2. text[f + (i + 1)] = c
    BY <2>1, <1>1
  <2>3. at[f + (i + 1)] = Scan(old, c) /\ old \in ScanType
    BY <2>1, <2>2, <1>10, <1>11
  <2>4. old.post_dot_count = i
    BY <2>1, <1>11
  <2>5. IsDigit(c) /\ h[dot + (i + 1)] = h[dot + i] * 10 + Digit(c)
    BY <2>1, <1>2, <1>4
  <2>6. old.integral_part = h[dot] /\ h[dot] * kPow10[i] + old.decimal_part = h[dot + i]
    BY <1>16, <2>1
  <2>7. h[dot + i] \in Int
    BY <2>1, <1>4
  <2> HIDE DEF old, c
  <2>8. HasDot(old, c)
    BY <2>4 DEF HasDot
  <2>9. /\ Scan(old, c).integral_part = old.integral_part
        /\ Scan(old, c).decimal_part = old.decimal_part * 10 + Digit(c)
    BY <2>3, <2>5, <2>8, ScanIs DEF Shifted
  <2>10. h[dot] * kPow10[i + 1] + (old.decimal_part * 10 + Digit(c)) = h[dot + i] * 10 + Digit(c)
    <3>1. kPow10[i + 1] = 10 * kPow10[i] /\ kPow10[i] \in Int /\ kPow10[i + 1] \in Int
      BY Powers
    <3>2. Digit(c) \in Int /\ old.decimal_part \in Int
      BY <2>3, <2>5, DigitIs DEF ScanType
    <3>3. h[dot] * kPow10[i + 1] = (h[dot] * kPow10[i]) * 10 /\ h[dot] * kPow10[i] \in Int
      BY <3>1, <1>14
    <3> QED BY <3>2, <3>3, <2>6, <2>7
  <2> QED BY <2>3, <2>5, <2>6, <2>9, <2>10
<1> HIDE DEF Rest
<1>17. ASSUME NEW i \in Nat, i \in T PROVE i + 1 \in T
  BY <1>16, <1>17
<1> HIDE DEF T
<1>18. kDecimals \in T
  BY <1>0, <1>15, <1>17, EveryNat
<1> DEFINE state == Scanned(text)
<1>19. /\ state.integral_part = h[dot]
       /\ h[dot] * kPow10[kDecimals] + state.decimal_part = n
       /\ state.post_dot_count = kDecimals
       /\ state \in ScanType
  <2>1. f + kDecimals = Len(text) /\ dot + kDecimals = len /\ kDecimals \in Nat /\ kDecimals <= kDecimals
        /\ Len(text) \in 0..Len(text) /\ ~(Len(text) < f) /\ Len(text) - f = kDecimals
    BY <1>0, <1>1, <1>2, <1>6 DEF f
  <2>2. Rest(kDecimals)
    BY <2>1, <1>18 DEF T
  <2>3. state.integral_part = h[dot] /\ h[dot] * kPow10[kDecimals] + state.decimal_part = n
    BY <2>1, <2>2, <1>3, <1>8 DEF Rest
  <2> QED BY <2>1, <2>3, <1>8, <1>11
<1>20. state.ifNegative <=> o = 1
  <2>1. Found(at, text, f, Len(text))
    <3>1. Len(text) \in 0..Len(text)
      BY <1>6
    <3> QED BY <3>1, <1>9
  <2>2. state.ifNegative <=> \E j \in 1..Len(text) : text[j] = "-"
    BY <1>8, <2>1 DEF Found
  <2>3. CASE o = 1
    <3>1. 1 \in 1..Len(text)
      BY <1>6
    <3> QED BY <2>2, <2>3, <3>1, <1>1
  <2>4. CASE o = 0
    <3>1. ASSUME NEW j \in 1..Len(text), text[j] = "-" PROVE FALSE
      <4>1. j = 1
        <5>1. ~IsDigit(text[j]) /\ text[j] \in Signs
          BY <3>1, DigitIs DEF Signs
        <5> QED BY <5>1, <1>5 DEF Accepted, Misplaced
      <4>2. 1 \in 1..dot /\ 1 \in 1..len /\ o + 1 = 1
        BY <2>4, <1>1, <1>2, <1>6
      <4>3. IsDigit(text[1])
        BY <4>2, <1>1, <1>2
      <4> QED BY <3>1, <4>1, <4>3, DigitIs
    <3> QED BY <2>2, <2>4, <3>1
  <2> QED BY <2>3, <2>4, <1>1
<1> DEFINE decimals == IF state.post_dot_count >= 0
                       THEN state.decimal_part * kPow10[kDecimals - state.post_dot_count] ELSE 0
           temp     == state.integral_part * kPriceScale + decimals
<1>21. from_string(text) = IF state.ifNegative THEN -temp ELSE temp
  BY Zenon DEF from_string
<1> HIDE DEF state
<1>22. temp = n
  <2>1. kDecimals - kDecimals = 0 /\ kDecimals >= 0 /\ kPow10[0] = 1
    BY <1>0, Powers
  <2>2. state.decimal_part \in Int
    BY <1>19 DEF ScanType
  <2>3. decimals = state.decimal_part
    BY <2>1, <2>2, <1>19
  <2> HIDE DEF decimals
  <2> QED BY <2>3, <1>19 DEF kPriceScale
<1> HIDE DEF temp
<1> QED BY <1>1, <1>20, <1>21, <1>22

\* What to_string prints reads back as the same price: it is a decimal with
\* kDecimals digits behind its dot and at least one before it.
THEOREM PrintReadsBack ==
    \A ticks \in Int :
        LET printed == to_string(ticks)
        IN  /\ IsPrice(printed) /\ from_string(printed) = ticks
            /\ DotAt(printed) = Len(printed) - kDecimals
            /\ IsDigit(printed[DotAt(printed) - 1])
<1> SUFFICES ASSUME NEW ticks \in Int
             PROVE  LET printed == to_string(ticks)
                    IN  /\ IsPrice(printed) /\ from_string(printed) = ticks
                        /\ DotAt(printed) = Len(printed) - kDecimals
                        /\ IsDigit(printed[DotAt(printed) - 1])
  OBVIOUS
<1> DEFINE printed == to_string(ticks)
           o == IF ticks < 0 THEN 1 ELSE 0
           n == IF ticks < 0 THEN -ticks ELSE ticks
<1>1. PICK str : Printed(printed, str, o, n)
  BY PrintedIs
<1>2. n \in Nat /\ (IF o = 1 THEN -n ELSE n) = ticks
  OBVIOUS
<1> HIDE DEF printed, o, n
<1>3. from_string(printed) = ticks
  BY <1>1, <1>2, ReadBack
<1>4. /\ IsPrice(printed) /\ DotAt(printed) = Len(printed) - kDecimals
      /\ IsDigit(printed[DotAt(printed) - 1])
  BY <1>1, PrintedAccepted
<1> QED BY <1>3, <1>4 DEF printed
-----------------------------------------------------------------------------
(***************************************************************************)
(* One book for three                                                      *)
(***************************************************************************)
\* The words of the book are those of BookTypes.
LEMMA SameWords ==
    /\ Map!Buy = Buy /\ Map!Sell = Sell /\ Map!BookSide = BookSide
    /\ \A side : Map!Opposite(side) = Opposite(side)
    /\ \A side, p, q : Map!Better(side, p, q) <=> Better(side, p, q)
    /\ \A side, p, q : Map!Crosses(side, p, q) <=> Crosses(side, p, q)
    /\ \A m, n : Map!Lesser(m, n) = Lesser(m, n)
<1>1. Map!Buy = Buy /\ Map!Sell = Sell
  BY DEF Map!Buy, Buy, Map!Sell, Sell
<1> QED
  BY <1>1 DEF Map!BookSide, BookSide, Map!Opposite, Opposite, Map!Better, Better,
              Map!Crosses, Crosses, Map!Lesser, Lesser

\* A book with a window, or a window and a pool, takes the steps the map takes ...
LEMMA TradeIsMaps == (Array!Trade => Map!Trade) /\ (Pooled!Trade => Map!Trade)
<1>1. Array!Trade => Map!Trade
  BY DEF Array!Trade, Array!IsTouch, Array!Opposite, Array!Better, Array!Crosses,
         Array!Lesser, Array!Buy, Array!Sell, Map!Trade, Map!IsTouch, Map!Opposite,
         Map!Better, Map!Crosses, Map!Lesser, Map!Buy, Map!Sell
<1>2. Pooled!Trade => Map!Trade
  BY DEF Pooled!Trade, Pooled!IsTouch, Pooled!Opposite, Pooled!Better, Pooled!Crosses,
         Pooled!Lesser, Pooled!Buy, Pooled!Sell, Map!Trade, Map!IsTouch, Map!Opposite,
         Map!Better, Map!Crosses, Map!Lesser, Map!Buy, Map!Sell
<1> QED BY <1>1, <1>2

LEMMA RestIsMaps == (Array!Rest => Map!Rest) /\ (Pooled!Rest => Map!Rest)
<1>0. ~Map!Full
  BY DEF Map!Full, Map!Unlimited
<1>1. Array!Rest => Map!Rest
  BY <1>0 DEF Array!Rest, Array!CanTrade, Array!IsTouch, Array!Opposite, Array!Better,
         Array!Crosses, Array!Buy, Array!Sell, Map!Rest, Map!CanTrade, Map!IsTouch,
         Map!Opposite, Map!Better, Map!Crosses, Map!Buy, Map!Sell
<1>2. Pooled!Rest => Map!Rest
  BY <1>0 DEF Pooled!Rest, Pooled!CanTrade, Pooled!IsTouch, Pooled!Opposite, Pooled!Better,
         Pooled!Crosses, Pooled!Buy, Pooled!Sell, Map!Rest, Map!CanTrade, Map!IsTouch,
         Map!Opposite, Map!Better, Map!Crosses, Map!Buy, Map!Sell
<1> QED BY <1>1, <1>2

LEMMA DoneIsMaps == (Array!Done => Map!Done) /\ (Pooled!Done => Map!Done)
  BY DEF Array!Done, Pooled!Done, Map!Done

LEMMA ArriveIsMaps ==
    \A ref, side, qty, price :
        /\ Array!Arrive(ref, side, qty, price) => Map!Arrive(ref, side, qty, price)
        /\ Pooled!Arrive(ref, side, qty, price) => Map!Arrive(ref, side, qty, price)
<1>1. \A ref : Array!InBook(ref) = Map!InBook(ref) /\ Pooled!InBook(ref) = Map!InBook(ref)
  BY DEF Array!InBook, Array!Rests, Array!BookSide, Array!Buy, Array!Sell,
         Pooled!InBook, Pooled!Rests, Pooled!BookSide, Pooled!Buy, Pooled!Sell,
         Map!InBook, Map!Rests, Map!BookSide, Map!Buy, Map!Sell
<1> QED BY <1>1, BooksAssumption DEF Array!Arrive, Pooled!Arrive, Map!Arrive

\* ... but for two: it has no level for the price, or no room.
Refused ==
    /\ taker = None
    /\ fills' = <<>>
    /\ result' = 0
    /\ UNCHANGED <<queue, taker>>

Dropped ==
    /\ taker # None
    /\ fills = <<>>
    /\ result' = 0
    /\ taker' = None
    /\ UNCHANGED <<queue, fills>>

LEMMA RefusedIs ==
    \A ref, price : (Array!Refuse(ref, price) => Refused) /\ (Pooled!Refuse(ref, price) => Refused)
                    /\ (Map!Refuse(ref, price) => Refused)
  BY DEF Array!Refuse, Pooled!Refuse, Map!Refuse, Refused

LEMMA DroppedIs == Pooled!Drop => Dropped
  BY DEF Pooled!Drop, Dropped
-----------------------------------------------------------------------------
(***************************************************************************)
(* Places in a book                                                        *)
(***************************************************************************)
Queues == [BookSide -> [Prices -> Seq(Map!RestingOrder)]]

\* In the book q, the order r rests at the i-th place of the queue of p.
At(q, r, side, p, i) ==
    /\ side \in BookSide
    /\ p \in Prices
    /\ i \in 1..Len(q[side][p])
    /\ q[side][p][i].resting = r

\* What the properties say of the book, of any book q.
RestsIn(q, r) == \E side \in BookSide, p \in Prices : \E i \in 1..Len(q[side][p]) : q[side][p][i].resting = r

Once(q) == \A r, s1, p1, i1, s2, p2, i2 :
    At(q, r, s1, p1, i1) /\ At(q, r, s2, p2, i2) => s1 = s2 /\ p1 = p2 /\ i1 = i2

Uncrossed(q) == \A r1, p1, i1, r2, p2, i2 :
    At(q, r1, Buy, p1, i1) /\ At(q, r2, Sell, p2, i2) /\ p1 >= p2 =>
        IF r1 > r2 THEN q[Buy][p1][i1].remainQty < 0 ELSE q[Sell][p2][i2].remainQty < 0

PlacesIn(q, r) == UNION {{<<side, p, i>> : i \in {j \in DOMAIN q[side][p] :
                                                     q[side][p][j].resting = r}} :
                         side \in BookSide, p \in Prices}
HeldIn(q, r) == IF PlacesIn(q, r) = {} THEN 0
                ELSE LET at == CHOOSE place \in PlacesIn(q, r) : TRUE
                     IN  q[at[1]][at[2]][at[3]].remainQty

\* Queues are lists of resting orders.
LEMMA QueueType ==
    ASSUME NEW q \in Queues, NEW side \in BookSide, NEW p \in Prices
    PROVE  /\ q[side][p] \in Seq(Map!RestingOrder)
           /\ Len(q[side][p]) \in Nat
           /\ DOMAIN q[side][p] = 1..Len(q[side][p])
           /\ \A i \in 1..Len(q[side][p]) : q[side][p][i] \in Map!RestingOrder
<1>1. q[side][p] \in Seq(Map!RestingOrder)
  BY DEF Queues
<1> QED BY <1>1, ElementOfSeq, LenProperties

LEMMA PlaceType ==
    ASSUME NEW q \in Queues, NEW r, NEW side, NEW p, NEW i, At(q, r, side, p, i)
    PROVE  /\ r \in Refs /\ r \in Nat /\ p \in Int /\ i \in Nat
           /\ q[side][p][i].remainQty \in Int /\ q[side][p][i].remainQty # 0
<1>1. q[side][p][i] \in Map!RestingOrder
  BY QueueType DEF At
<1>2. r \in Refs /\ q[side][p][i].remainQty \in Int /\ q[side][p][i].remainQty # 0
  BY <1>1 DEF Map!RestingOrder, At
<1>3. p \in Int
  BY PricesAssumption DEF At
<1>4. i \in Nat
  BY QueueType DEF At
<1> QED BY <1>2, <1>3, <1>4 DEF Refs

\* The places of an order are the triples of where it rests.
LEMMA PlacesAre ==
    ASSUME NEW q \in Queues, NEW r
    PROVE  /\ \A side, p, i : At(q, r, side, p, i) => <<side, p, i>> \in PlacesIn(q, r)
           /\ \A at \in PlacesIn(q, r) : \E side \in BookSide, p \in Prices : \E i \in 1..Len(q[side][p]) :
                  at = <<side, p, i>> /\ At(q, r, side, p, i)
<1>1. \A side \in BookSide, p \in Prices : DOMAIN q[side][p] = 1..Len(q[side][p])
  BY QueueType
<1>2. ASSUME NEW side, NEW p, NEW i, At(q, r, side, p, i)
      PROVE  <<side, p, i>> \in PlacesIn(q, r)
  <2>1. i \in {j \in DOMAIN q[side][p] : q[side][p][j].resting = r}
    BY <1>1, <1>2 DEF At
  <2>2. side \in BookSide /\ p \in Prices
    BY <1>2 DEF At
  <2> DEFINE Here(s, t) == {<<s, t, k>> : k \in {j \in DOMAIN q[s][t] : q[s][t][j].resting = r}}
  <2>3. <<side, p, i>> \in Here(side, p)
    BY <2>1
  <2>4. PlacesIn(q, r) = UNION {Here(s, t) : s \in BookSide, t \in Prices}
    BY DEF PlacesIn
  <2> HIDE DEF Here
  <2> QED BY <2>2, <2>3, <2>4
<1>3. ASSUME NEW at \in PlacesIn(q, r)
      PROVE  \E side \in BookSide, p \in Prices : \E i \in 1..Len(q[side][p]) :
                  at = <<side, p, i>> /\ At(q, r, side, p, i)
  <2>1. PICK side \in BookSide, p \in Prices :
            at \in {<<side, p, i>> : i \in {j \in DOMAIN q[side][p] : q[side][p][j].resting = r}}
    BY DEF PlacesIn
  <2>2. PICK i \in {j \in DOMAIN q[side][p] : q[side][p][j].resting = r} : at = <<side, p, i>>
    BY <2>1
  <2>3. At(q, r, side, p, i) /\ i \in 1..Len(q[side][p])
    BY <2>2, <1>1 DEF At
  <2> QED BY <2>2, <2>3
<1> QED BY <1>2, <1>3

LEMMA RestsAt ==
    ASSUME NEW q, NEW r
    PROVE  RestsIn(q, r) <=> \E side, p, i : At(q, r, side, p, i)
  BY DEF RestsIn, At

\* What is left of an order is left of it where it rests.
LEMMA HeldAt ==
    ASSUME NEW q \in Queues, Once(q), NEW r, NEW side, NEW p, NEW i, At(q, r, side, p, i)
    PROVE  HeldIn(q, r) = q[side][p][i].remainQty
<1> DEFINE at == CHOOSE place \in PlacesIn(q, r) : TRUE
<1>1. PlacesIn(q, r) # {}
  BY PlacesAre
<1>2. at \in PlacesIn(q, r)
  BY <1>1
<1>3. HeldIn(q, r) = q[at[1]][at[2]][at[3]].remainQty
  BY <1>1 DEF HeldIn
<1> HIDE DEF at
<1>4. \E s2 \in BookSide, p2 \in Prices : \E i2 \in 1..Len(q[s2][p2]) :
          at = <<s2, p2, i2>> /\ At(q, r, s2, p2, i2)
  BY <1>2, PlacesAre
<1>5. PICK s2, p2, i2 : at = <<s2, p2, i2>> /\ At(q, r, s2, p2, i2)
  BY <1>4
<1>6. s2 = side /\ p2 = p /\ i2 = i
  BY <1>5 DEF Once
<1>7. at[1] = side /\ at[2] = p /\ at[3] = i
  BY <1>5, <1>6
<1> QED BY <1>3, <1>7

LEMMA HeldNowhere ==
    ASSUME NEW q \in Queues, NEW r, ~RestsIn(q, r)
    PROVE  HeldIn(q, r) = 0
<1>1. PlacesIn(q, r) = {}
  BY PlacesAre, RestsAt
<1> QED BY <1>1 DEF HeldIn

LEMMA HeldType ==
    ASSUME NEW q \in Queues, Once(q), NEW r
    PROVE  HeldIn(q, r) \in Int /\ (RestsIn(q, r) => HeldIn(q, r) # 0)
<1>1. CASE RestsIn(q, r)
  <2>1. PICK side, p, i : At(q, r, side, p, i)
    BY <1>1, RestsAt
  <2>2. HeldIn(q, r) = q[side][p][i].remainQty
    BY <2>1, HeldAt
  <2> QED BY <2>1, <2>2, PlaceType
<1>2. CASE ~RestsIn(q, r)
  BY <1>2, HeldNowhere
<1> QED BY <1>1, <1>2
-----------------------------------------------------------------------------
(***************************************************************************)
(* One queue changed                                                       *)
(***************************************************************************)
\* new is q with another list for one side and price.
Becomes(new, q, side, p, list) ==
    /\ new \in Queues
    /\ new[side][p] = list
    /\ \A s \in BookSide, t \in Prices : s # side \/ t # p => new[s][t] = q[s][t]

LEMMA ExceptBecomes ==
    ASSUME NEW q \in Queues, NEW side \in BookSide, NEW p \in Prices,
           NEW list \in Seq(Map!RestingOrder)
    PROVE  Becomes([q EXCEPT ![side][p] = list], q, side, p, list)
  BY DEF Becomes, Queues

\* An order leaves: the others are where they were, or one place nearer to the
\* front.
Old(side, p, i0, s, t, i) == IF s = side /\ t = p /\ ~(i < i0) THEN i + 1 ELSE i

LEMMA StillThere ==
    ASSUME NEW q \in Queues, NEW side \in BookSide, NEW p \in Prices,
           NEW i0 \in 1..Len(q[side][p]), NEW list, Without(list, q[side][p], i0),
           NEW new, Becomes(new, q, side, p, list),
           NEW r, NEW s, NEW t, NEW i, At(new, r, s, t, i)
    PROVE  LET j == Old(side, p, i0, s, t, i)
           IN  /\ At(q, r, s, t, j)
               /\ new[s][t][i] = q[s][t][j]
               /\ ~(s = side /\ t = p /\ j = i0)
<1> DEFINE j == Old(side, p, i0, s, t, i)
<1>0. /\ s \in BookSide /\ t \in Prices /\ i \in 1..Len(new[s][t])
      /\ new[s][t][i].resting = r
  BY DEF At
<1>1. CASE s = side /\ t = p
  <2>1. /\ Len(q[side][p]) \in Nat /\ i0 \in 1..Len(q[side][p])
        /\ Len(list) = Len(q[side][p]) - 1
        /\ list[i] = IF i < i0 THEN q[side][p][i] ELSE q[side][p][i + 1]
        /\ i \in 1..Len(list) /\ new[s][t] = list
    BY <1>0, <1>1, QueueType DEF Without, Becomes
  <2>2. j = IF i < i0 THEN i ELSE i + 1
    BY <1>1 DEF Old
  <2>3. j \in 1..Len(q[side][p]) /\ j # i0
    BY <2>1, <2>2
  <2>4. new[s][t][i] = q[s][t][j]
    BY <1>1, <2>1, <2>2
  <2> HIDE DEF j
  <2>5. At(q, r, s, t, j)
    BY <1>0, <1>1, <2>3, <2>4 DEF At
  <2>6. j # i0
    BY <2>3
  <2> QED BY <2>4, <2>5, <2>6 DEF j
<1>2. CASE ~(s = side /\ t = p)
  <2>1. j = i
    BY <1>2 DEF Old
  <2>2. new[s][t] = q[s][t]
    BY <1>0, <1>2 DEF Becomes
  <2> HIDE DEF j
  <2>3. At(q, r, s, t, j) /\ new[s][t][i] = q[s][t][j]
    BY <1>0, <2>1, <2>2 DEF At
  <2> QED BY <1>2, <2>3 DEF j
<1> QED BY <1>1, <1>2

\* An order rests at p, and is o.
Has(q, r, side, p, o) == \E i : At(q, r, side, p, i) /\ q[side][p][i] = o

LEMMA OthersStay ==
    ASSUME NEW q \in Queues, NEW side \in BookSide, NEW p \in Prices,
           NEW i0 \in 1..Len(q[side][p]), NEW list, Without(list, q[side][p], i0),
           NEW new, Becomes(new, q, side, p, list),
           NEW r, NEW s, NEW t, NEW j, At(q, r, s, t, j), ~(s = side /\ t = p /\ j = i0)
    PROVE  Has(new, r, s, t, q[s][t][j])
<1>0. /\ s \in BookSide /\ t \in Prices /\ j \in 1..Len(q[s][t])
      /\ q[s][t][j].resting = r
  BY DEF At
<1>1. CASE s = side /\ t = p
  <2> DEFINE i == IF j < i0 THEN j ELSE j - 1
  <2>1. /\ Len(q[side][p]) \in Nat /\ i0 \in 1..Len(q[side][p])
        /\ Len(list) = Len(q[side][p]) - 1
        /\ \A k \in 1..Len(list) : list[k] = IF k < i0 THEN q[side][p][k] ELSE q[side][p][k + 1]
        /\ new[s][t] = list
    BY <1>0, <1>1, QueueType DEF Without, Becomes
  <2>2. /\ i \in 1..Len(list)
        /\ i < i0 => j = i
        /\ ~(i < i0) => j = i + 1
    BY <1>0, <1>1, <2>1
  <2> HIDE DEF i
  <2>3. list[i] = q[side][p][j]
    BY <2>1, <2>2
  <2>4. At(new, r, s, t, i) /\ new[s][t][i] = q[s][t][j]
    BY <1>0, <1>1, <2>1, <2>2, <2>3 DEF At
  <2> QED BY <2>4 DEF Has
<1>2. CASE ~(s = side /\ t = p)
  <2>1. new[s][t] = q[s][t]
    BY <1>0, <1>2 DEF Becomes
  <2>2. At(new, r, s, t, j) /\ new[s][t][j] = q[s][t][j]
    BY <1>0, <2>1 DEF At
  <2> QED BY <2>2 DEF Has
<1> QED BY <1>1, <1>2

\* What a departure leaves of the properties, and of what the others have left.
LEMMA OutOnce ==
    ASSUME NEW q \in Queues, NEW side \in BookSide, NEW p \in Prices,
           NEW i0 \in 1..Len(q[side][p]), NEW list, Without(list, q[side][p], i0),
           NEW new, Becomes(new, q, side, p, list), Once(q)
    PROVE  Once(new)
<1> SUFFICES ASSUME NEW r, NEW s1, NEW p1, NEW i1, NEW s2, NEW p2, NEW i2,
                    At(new, r, s1, p1, i1), At(new, r, s2, p2, i2)
             PROVE  s1 = s2 /\ p1 = p2 /\ i1 = i2
  BY DEF Once
<1> DEFINE j1 == Old(side, p, i0, s1, p1, i1)
           j2 == Old(side, p, i0, s2, p2, i2)
<1>1. At(q, r, s1, p1, j1)
  BY StillThere
<1>2. At(q, r, s2, p2, j2)
  BY StillThere
<1>3. s1 = s2 /\ p1 = p2 /\ j1 = j2
  BY <1>1, <1>2 DEF Once
<1>4. i1 \in Nat /\ i2 \in Nat /\ i0 \in Nat
  <2>1. new \in Queues
    BY DEF Becomes
  <2>2. i0 \in Nat
    BY QueueType
  <2> QED BY <2>1, <2>2, PlaceType
<1>5. i1 = i2
  BY <1>3, <1>4 DEF Old
<1> QED BY <1>3, <1>5

LEMMA OutUncrossed ==
    ASSUME NEW q \in Queues, NEW side \in BookSide, NEW p \in Prices,
           NEW i0 \in 1..Len(q[side][p]), NEW list, Without(list, q[side][p], i0),
           NEW new, Becomes(new, q, side, p, list), Uncrossed(q)
    PROVE  Uncrossed(new)
<1> SUFFICES ASSUME NEW r1, NEW p1, NEW i1, NEW r2, NEW p2, NEW i2,
                    At(new, r1, Buy, p1, i1), At(new, r2, Sell, p2, i2), p1 >= p2
             PROVE  IF r1 > r2 THEN new[Buy][p1][i1].remainQty < 0
                    ELSE new[Sell][p2][i2].remainQty < 0
  BY DEF Uncrossed
<1> DEFINE j1 == Old(side, p, i0, Buy, p1, i1)
           j2 == Old(side, p, i0, Sell, p2, i2)
<1>1. At(q, r1, Buy, p1, j1) /\ new[Buy][p1][i1] = q[Buy][p1][j1]
  BY StillThere
<1>2. At(q, r2, Sell, p2, j2) /\ new[Sell][p2][i2] = q[Sell][p2][j2]
  BY StillThere
<1> HIDE DEF j1, j2
<1>3. IF r1 > r2 THEN q[Buy][p1][j1].remainQty < 0 ELSE q[Sell][p2][j2].remainQty < 0
  BY <1>1, <1>2 DEF Uncrossed
<1> QED BY <1>1, <1>2, <1>3

LEMMA OutGone ==
    ASSUME NEW q \in Queues, NEW side \in BookSide, NEW p \in Prices,
           NEW i0 \in 1..Len(q[side][p]), NEW list, Without(list, q[side][p], i0),
           NEW new, Becomes(new, q, side, p, list), Once(q)
    PROVE  ~RestsIn(new, q[side][p][i0].resting)
<1> DEFINE r0 == q[side][p][i0].resting
<1>1. At(q, r0, side, p, i0)
  BY DEF At
<1> HIDE DEF r0
<1> SUFFICES ASSUME RestsIn(new, r0) PROVE FALSE
  BY DEF r0
<1>2. PICK s, t, i : At(new, r0, s, t, i)
  BY RestsAt
<1> DEFINE j == Old(side, p, i0, s, t, i)
<1>3. At(q, r0, s, t, j) /\ ~(s = side /\ t = p /\ j = i0)
  BY <1>2, StillThere
<1> QED BY <1>1, <1>3 DEF Once

LEMMA OutOthers ==
    ASSUME NEW q \in Queues, NEW side \in BookSide, NEW p \in Prices,
           NEW i0 \in 1..Len(q[side][p]), NEW list, Without(list, q[side][p], i0),
           NEW new, Becomes(new, q, side, p, list), Once(q),
           NEW r, r # q[side][p][i0].resting
    PROVE  (RestsIn(new, r) <=> RestsIn(q, r)) /\ HeldIn(new, r) = HeldIn(q, r)
<1>0. new \in Queues /\ Once(new)
  BY OutOnce DEF Becomes
<1>1. CASE RestsIn(q, r)
  <2>1. PICK s, t, j : At(q, r, s, t, j)
    BY <1>1, RestsAt
  <2>2. ~(s = side /\ t = p /\ j = i0)
    BY <2>1 DEF At
  <2>7. Has(new, r, s, t, q[s][t][j])
    BY <2>1, <2>2, OthersStay
  <2>3. PICK i : At(new, r, s, t, i) /\ new[s][t][i] = q[s][t][j]
    BY <2>7 DEF Has
  <2>4. HeldIn(q, r) = q[s][t][j].remainQty
    BY <2>1, HeldAt
  <2>5. HeldIn(new, r) = new[s][t][i].remainQty
    BY <2>3, <1>0, HeldAt
  <2>6. RestsIn(new, r)
    BY <2>3, RestsAt
  <2> QED BY <1>1, <2>3, <2>4, <2>5, <2>6
<1>2. CASE ~RestsIn(q, r)
  <2>1. ASSUME RestsIn(new, r) PROVE FALSE
    <3>1. PICK s, t, i : At(new, r, s, t, i)
      BY <2>1, RestsAt
    <3>2. At(q, r, s, t, Old(side, p, i0, s, t, i))
      BY <3>1, StillThere
    <3> QED BY <3>2, <1>2, RestsAt
  <2>2. HeldIn(new, r) = 0 /\ HeldIn(q, r) = 0
    BY <2>1, <1>0, <1>2, HeldNowhere
  <2> QED BY <1>2, <2>1, <2>2
<1> QED BY <1>1, <1>2

\* The same order in the same place.
SameAt(new, q, r, s, t, i) == At(new, r, s, t, i) /\ new[s][t][i] = q[s][t][i]

\* The order at the front is filled in part: all are where they were.
Lowered(list, old) ==
    /\ Len(list) = Len(old)
    /\ 1 \in 1..Len(old)
    /\ \A k \in 1..Len(old) : k # 1 => list[k] = old[k]
    /\ list[1].resting = old[1].resting
    /\ list[1].remainQty > 0
    /\ old[1].remainQty > 0

LEMMA LoweredPlaces ==
    ASSUME NEW q \in Queues, NEW side \in BookSide, NEW p \in Prices,
           NEW list, Lowered(list, q[side][p]), NEW new, Becomes(new, q, side, p, list),
           NEW r, NEW s, NEW t, NEW i
    PROVE  At(new, r, s, t, i) <=> At(q, r, s, t, i)
<1>1. CASE s = side /\ t = p
  <2>1. new[s][t] = list /\ Len(list) = Len(q[s][t])
    BY <1>1 DEF Becomes, Lowered
  <2>2. \A k \in 1..Len(q[s][t]) : k # 1 => list[k] = q[s][t][k]
    BY <1>1 DEF Lowered
  <2>3. list[1].resting = q[s][t][1].resting
    BY <1>1 DEF Lowered
  <2>4. \A k \in 1..Len(q[s][t]) : list[k].resting = q[s][t][k].resting
    BY <2>2, <2>3
  <2> QED BY <2>1, <2>4 DEF At
<1>2. CASE ~(s = side /\ t = p)
  <2>1. s \in BookSide /\ t \in Prices => new[s][t] = q[s][t]
    BY <1>2 DEF Becomes
  <2> QED BY <2>1 DEF At
<1> QED BY <1>1, <1>2

\* All but the front are what they were.
Behind(side, p, s, t, i) == s # side \/ t # p \/ i # 1

LEMMA LoweredSame ==
    ASSUME NEW q \in Queues, NEW side \in BookSide, NEW p \in Prices,
           NEW list, Lowered(list, q[side][p]), NEW new, Becomes(new, q, side, p, list),
           NEW r, NEW s, NEW t, NEW i, At(q, r, s, t, i), Behind(side, p, s, t, i)
    PROVE  SameAt(new, q, r, s, t, i)
<1>0. At(new, r, s, t, i)
  BY LoweredPlaces
<1>1. CASE s = side /\ t = p
  <2>1. new[s][t] = list /\ i \in 1..Len(q[s][t]) /\ i # 1
    BY <1>1 DEF Becomes, At, Behind
  <2>2. list[i] = q[s][t][i]
    BY <1>1, <2>1 DEF Lowered
  <2> QED BY <1>0, <2>1, <2>2 DEF SameAt
<1>2. CASE ~(s = side /\ t = p)
  <2>1. new[s][t] = q[s][t]
    BY <1>2 DEF Becomes, At
  <2> QED BY <1>0, <2>1 DEF SameAt
<1> QED BY <1>1, <1>2

LEMMA LoweredKeeps ==
    ASSUME NEW q \in Queues, NEW side \in BookSide, NEW p \in Prices,
           NEW list, Lowered(list, q[side][p]), NEW new, Becomes(new, q, side, p, list)
    PROVE  /\ Once(q) => Once(new)
           /\ Uncrossed(q) => Uncrossed(new)
           /\ \A r : RestsIn(new, r) <=> RestsIn(q, r)
<1>1. Once(q) => Once(new)
  BY LoweredPlaces DEF Once
<1>2. \A r : RestsIn(new, r) <=> RestsIn(q, r)
  BY LoweredPlaces, RestsAt
<1>3. ASSUME Uncrossed(q) PROVE Uncrossed(new)
  <2> SUFFICES ASSUME NEW r1, NEW p1, NEW i1, NEW r2, NEW p2, NEW i2,
                      At(new, r1, Buy, p1, i1), At(new, r2, Sell, p2, i2), p1 >= p2
               PROVE  IF r1 > r2 THEN new[Buy][p1][i1].remainQty < 0
                      ELSE new[Sell][p2][i2].remainQty < 0
    BY DEF Uncrossed
  <2>1. At(q, r1, Buy, p1, i1) /\ At(q, r2, Sell, p2, i2)
    BY LoweredPlaces
  <2>2. IF r1 > r2 THEN q[Buy][p1][i1].remainQty < 0 ELSE q[Sell][p2][i2].remainQty < 0
    BY <2>1, <1>3 DEF Uncrossed
  <2>3. ASSUME NEW r, NEW s, NEW t, NEW i, At(q, r, s, t, i), q[s][t][i].remainQty < 0
        PROVE  new[s][t][i] = q[s][t][i]
    <3>1. q[side][p][1].remainQty \in Int /\ q[side][p][1].remainQty > 0
      <4>1. 1 \in 1..Len(q[side][p])
        BY DEF Lowered
      <4>2. At(q, q[side][p][1].resting, side, p, 1)
        BY <4>1 DEF At
      <4> QED BY <4>2, PlaceType DEF Lowered
    <3>2. Behind(side, p, s, t, i)
      BY <2>3, <3>1 DEF Behind
    <3>3. SameAt(new, q, r, s, t, i)
      BY <3>2, <2>3, LoweredSame
    <3> QED BY <3>3 DEF SameAt
  <2> QED BY <2>1, <2>2, <2>3
<1> QED BY <1>1, <1>2, <1>3

LEMMA LoweredHeld ==
    ASSUME NEW q \in Queues, NEW side \in BookSide, NEW p \in Prices,
           NEW list, Lowered(list, q[side][p]), NEW new, Becomes(new, q, side, p, list),
           Once(q), NEW r
    PROVE  HeldIn(new, r) = IF r = q[side][p][1].resting THEN list[1].remainQty ELSE HeldIn(q, r)
<1>0. new \in Queues /\ Once(new)
  BY LoweredKeeps DEF Becomes
<1>1. CASE r = q[side][p][1].resting
  <2>1. 1 \in 1..Len(q[side][p])
    BY DEF Lowered
  <2>2. At(q, r, side, p, 1)
    BY <1>1, <2>1 DEF At
  <2>3. At(new, r, side, p, 1)
    BY <2>2, LoweredPlaces
  <2>4. new[side][p] = list
    BY DEF Becomes
  <2>5. HeldIn(new, r) = new[side][p][1].remainQty
    BY <1>0, <2>3, HeldAt
  <2> QED BY <1>1, <2>4, <2>5
<1>2. CASE r # q[side][p][1].resting /\ RestsIn(q, r)
  <2>1. PICK s, t, i : At(q, r, s, t, i)
    BY <1>2, RestsAt
  <2>2. Behind(side, p, s, t, i)
    BY <1>2, <2>1 DEF At, Behind
  <2>7. SameAt(new, q, r, s, t, i)
    BY <2>1, <2>2, LoweredSame
  <2>3. At(new, r, s, t, i)
    BY <2>7 DEF SameAt
  <2>4. new[s][t][i] = q[s][t][i]
    BY <2>7 DEF SameAt
  <2>5. HeldIn(q, r) = q[s][t][i].remainQty
    BY <2>1, HeldAt
  <2>6. HeldIn(new, r) = new[s][t][i].remainQty
    BY <1>0, <2>3, HeldAt
  <2> QED BY <1>2, <2>4, <2>5, <2>6
<1>3. CASE r # q[side][p][1].resting /\ ~RestsIn(q, r)
  <2>1. ~RestsIn(new, r)
    BY <1>3, LoweredKeeps
  <2> QED BY <1>0, <1>3, <2>1, HeldNowhere
<1> QED BY <1>1, <1>2, <1>3

\* An order joins at the back.
Pushed(list, old, o) ==
    /\ Len(list) = Len(old) + 1
    /\ list[Len(list)] = o
    /\ \A k \in 1..Len(old) : list[k] = old[k]

\* The last place of the list.
NewAt(side, p, list, o, r, s, t, i) == s = side /\ t = p /\ i = Len(list) /\ r = o.resting

LEMMA PushedLast ==
    ASSUME NEW q \in Queues, NEW side \in BookSide, NEW p \in Prices, NEW o,
           NEW list, Pushed(list, q[side][p], o), NEW new, Becomes(new, q, side, p, list)
    PROVE  At(new, o.resting, side, p, Len(list)) /\ new[side][p][Len(list)] = o
<1>1. /\ Len(list) = Len(q[side][p]) + 1 /\ Len(q[side][p]) \in Nat
      /\ list[Len(list)] = o
      /\ new[side][p] = list
  BY QueueType DEF Pushed, Becomes
<1> QED BY <1>1 DEF At

LEMMA PushedPlaces ==
    ASSUME NEW q \in Queues, NEW side \in BookSide, NEW p \in Prices, NEW o,
           NEW list, Pushed(list, q[side][p], o), NEW new, Becomes(new, q, side, p, list),
           NEW r, NEW s, NEW t, NEW i
    PROVE  /\ At(q, r, s, t, i) => SameAt(new, q, r, s, t, i)
           /\ At(new, r, s, t, i) => At(q, r, s, t, i) \/ NewAt(side, p, list, o, r, s, t, i)
<1>0. /\ Len(list) = Len(q[side][p]) + 1 /\ Len(q[side][p]) \in Nat
      /\ list[Len(list)] = o
      /\ new[side][p] = list
      /\ \A k \in 1..Len(q[side][p]) : list[k] = q[side][p][k]
  BY QueueType DEF Pushed, Becomes
<1>2. CASE s = side /\ t = p
  <2>1. At(q, r, s, t, i) => At(new, r, s, t, i) /\ new[s][t][i] = q[s][t][i]
    BY <1>0, <1>2 DEF At
  <2>2. ASSUME At(new, r, s, t, i), i # Len(list) PROVE At(q, r, s, t, i)
    <3>1. i \in 1..Len(list) /\ new[s][t] = list /\ list[i].resting = r
      BY <1>0, <1>2, <2>2 DEF At
    <3>2. i \in 1..Len(q[side][p])
      BY <1>0, <2>2, <3>1
    <3> QED BY <1>0, <1>2, <3>1, <3>2 DEF At
  <2>3. At(new, r, s, t, i) /\ i = Len(list) => r = o.resting
    BY <1>0, <1>2 DEF At
  <2> QED BY <1>2, <2>1, <2>2, <2>3 DEF SameAt, NewAt
<1>3. CASE ~(s = side /\ t = p)
  <2>1. s \in BookSide /\ t \in Prices => new[s][t] = q[s][t]
    BY <1>3 DEF Becomes
  <2>2. At(new, r, s, t, i) <=> At(q, r, s, t, i)
    BY <2>1 DEF At
  <2>3. At(q, r, s, t, i) => new[s][t][i] = q[s][t][i]
    BY <2>1 DEF At
  <2> QED BY <2>2, <2>3 DEF SameAt
<1> QED BY <1>2, <1>3

LEMMA PushedOnce ==
    ASSUME NEW q \in Queues, NEW side \in BookSide, NEW p \in Prices, NEW o,
           NEW list, Pushed(list, q[side][p], o), NEW new, Becomes(new, q, side, p, list),
           Once(q), ~RestsIn(q, o.resting)
    PROVE  Once(new)
<1> SUFFICES ASSUME NEW r, NEW s1, NEW p1, NEW i1, NEW s2, NEW p2, NEW i2,
                    At(new, r, s1, p1, i1), At(new, r, s2, p2, i2)
             PROVE  s1 = s2 /\ p1 = p2 /\ i1 = i2
  BY DEF Once
<1>1. At(q, r, s1, p1, i1) \/ NewAt(side, p, list, o, r, s1, p1, i1)
  BY PushedPlaces
<1>2. At(q, r, s2, p2, i2) \/ NewAt(side, p, list, o, r, s2, p2, i2)
  BY PushedPlaces
<1>3. At(q, r, s1, p1, i1) => r # o.resting
  BY RestsAt
<1>4. At(q, r, s2, p2, i2) => r # o.resting
  BY RestsAt
<1> QED BY <1>1, <1>2, <1>3, <1>4 DEF Once, NewAt

LEMMA PushedHeld ==
    ASSUME NEW q \in Queues, NEW side \in BookSide, NEW p \in Prices, NEW o,
           NEW list, Pushed(list, q[side][p], o), NEW new, Becomes(new, q, side, p, list),
           Once(q), ~RestsIn(q, o.resting), NEW r
    PROVE  /\ HeldIn(new, r) = IF r = o.resting THEN o.remainQty ELSE HeldIn(q, r)
           /\ RestsIn(new, r) <=> r = o.resting \/ RestsIn(q, r)
<1>0. new \in Queues /\ Once(new)
  BY PushedOnce DEF Becomes
<1>1. CASE r = o.resting
  <2>1. At(new, r, side, p, Len(list)) /\ new[side][p][Len(list)] = o
    BY <1>1, PushedLast
  <2>2. HeldIn(new, r) = new[side][p][Len(list)].remainQty
    BY <1>0, <2>1, HeldAt
  <2>3. RestsIn(new, r)
    BY <2>1, RestsAt
  <2> QED BY <1>1, <2>1, <2>2, <2>3
<1>2. CASE r # o.resting /\ RestsIn(q, r)
  <2>1. PICK s, t, i : At(q, r, s, t, i)
    BY <1>2, RestsAt
  <2>6. SameAt(new, q, r, s, t, i)
    BY <2>1, PushedPlaces
  <2>2. At(new, r, s, t, i) /\ new[s][t][i] = q[s][t][i]
    BY <2>6 DEF SameAt
  <2>3. HeldIn(q, r) = q[s][t][i].remainQty
    BY <2>1, HeldAt
  <2>4. HeldIn(new, r) = new[s][t][i].remainQty
    BY <1>0, <2>2, HeldAt
  <2>5. RestsIn(new, r)
    BY <2>2, RestsAt
  <2> QED BY <1>2, <2>2, <2>3, <2>4, <2>5
<1>3. CASE r # o.resting /\ ~RestsIn(q, r)
  <2>1. ASSUME RestsIn(new, r) PROVE FALSE
    <3>1. PICK s, t, i : At(new, r, s, t, i)
      BY <2>1, RestsAt
    <3>2. At(q, r, s, t, i) \/ NewAt(side, p, list, o, r, s, t, i)
      BY <3>1, PushedPlaces
    <3>3. At(q, r, s, t, i)
      BY <1>3, <3>2 DEF NewAt
    <3> QED BY <3>3, <1>3, RestsAt
  <2>2. HeldIn(new, r) = 0 /\ HeldIn(q, r) = 0
    BY <1>0, <1>3, <2>1, HeldNowhere
  <2> QED BY <1>3, <2>1, <2>2
<1> QED BY <1>1, <1>2, <1>3
-----------------------------------------------------------------------------
(***************************************************************************)
(* What the fills come to                                                  *)
(***************************************************************************)
QtysOf(list) == [i \in DOMAIN list |-> list[i].qty]

LEMMA QtysAre ==
    ASSUME NEW list \in Seq(Map!Fill)
    PROVE  /\ Integers(QtysOf(list))
           /\ Len(QtysOf(list)) = Len(list) /\ Len(list) \in Nat
           /\ \A i \in 1..Len(list) : QtysOf(list)[i] = list[i].qty
           /\ Volume(list) = Total(QtysOf(list))
<1>1. Len(list) \in Nat /\ DOMAIN list = 1..Len(list) /\ \A i \in 1..Len(list) : list[i] \in Map!Fill
  BY LenProperties, ElementOfSeq
<1>2. \A i \in 1..Len(list) : QtysOf(list)[i] = list[i].qty /\ list[i].qty \in Int
  BY <1>1 DEF QtysOf, Map!Fill
<1>3. QtysOf(list) \in [1..Len(list) -> Int]
  BY <1>1, <1>2 DEF QtysOf
<1>4. Len(QtysOf(list)) = Len(list)
  <2>1. QtysOf(list) \in Seq(Int)
    BY <1>1, <1>3, SeqDef
  <2> QED BY <2>1, <1>1, <1>3, LenProperties
<1> QED BY <1>1, <1>2, <1>4 DEF Integers, Volume, QtysOf

LEMMA VolumeType == ASSUME NEW list \in Seq(Map!Fill) PROVE Volume(list) \in Int
  BY QtysAre, TotalType

LEMMA VolumeEmpty == <<>> \in Seq(Map!Fill) /\ Volume(<<>>) = 0
<1>1. <<>> \in Seq(Map!Fill) /\ Len(<<>>) = 0
  BY EmptySeq
<1>2. Len(QtysOf(<<>>)) = 0 /\ Integers(QtysOf(<<>>)) /\ Volume(<<>>) = Total(QtysOf(<<>>))
  BY <1>1, QtysAre
<1> QED BY <1>1, <1>2, TotalEmpty

LEMMA VolumeMore ==
    ASSUME NEW list \in Seq(Map!Fill), NEW f \in Map!Fill
    PROVE  /\ Append(list, f) \in Seq(Map!Fill) /\ Append(list, f) # <<>>
           /\ Volume(Append(list, f)) = Volume(list) + f.qty
<1> DEFINE more == Append(list, f)
<1>1. /\ more \in Seq(Map!Fill) /\ Len(more) = Len(list) + 1 /\ more[Len(more)] = f
      /\ \A i \in 1..Len(list) : more[i] = list[i]
  BY AppendProperties
<1> HIDE DEF more
<1>2. /\ Integers(QtysOf(list)) /\ Integers(QtysOf(more)) /\ Len(list) \in Nat
      /\ Len(QtysOf(list)) = Len(list) /\ Len(QtysOf(more)) = Len(more)
      /\ \A i \in 1..Len(list) : QtysOf(list)[i] = list[i].qty
      /\ \A i \in 1..Len(more) : QtysOf(more)[i] = more[i].qty
      /\ Volume(list) = Total(QtysOf(list)) /\ Volume(more) = Total(QtysOf(more))
  BY <1>1, QtysAre
<1>3. \A i \in 1..Len(QtysOf(list)) : QtysOf(more)[i] = QtysOf(list)[i]
  BY <1>1, <1>2
<1>4. Total(QtysOf(more)) = Total(QtysOf(list)) + QtysOf(more)[Len(QtysOf(more))]
  BY <1>1, <1>2, <1>3, TotalMore
<1>5. QtysOf(more)[Len(QtysOf(more))] = f.qty
  BY <1>1, <1>2
<1>6. more # <<>>
  BY <1>1, <1>2, EmptySeq
<1> QED BY <1>1, <1>2, <1>4, <1>5, <1>6 DEF more
-----------------------------------------------------------------------------
(***************************************************************************)
(* What a step does to the book                                            *)
(***************************************************************************)
LEMMA TypeIs ==
    Map!TypeOK <=>
        /\ queue \in Queues
        /\ taker \in Map!Taker \cup {None}
        /\ taker # None => taker.remaining >= 0 \/ fills = <<>>
        /\ fills \in Seq(Map!Fill)
        /\ result \in Int
  BY SameWords DEF Map!TypeOK, Queues

\* A trade of qty shares, with the front of the queue of p, leaves list there.
Traded(side, p, qty, list) ==
    /\ side = Opposite(taker.side) /\ side \in BookSide /\ p \in Prices
    /\ 1 \in 1..Len(queue[side][p])
    /\ qty \in Int /\ qty # 0
    /\ Becomes(queue', queue, side, p, list)
    /\ \/ qty = queue[side][p][1].remainQty /\ Without(list, queue[side][p], 1)
       \/ Lowered(list, queue[side][p]) /\ list[1].remainQty = queue[side][p][1].remainQty - qty
    /\ taker # None /\ taker.remaining > 0 /\ taker.remaining \in Int
    /\ taker' \in Map!Taker /\ taker'.ref = taker.ref /\ taker'.side = taker.side
    /\ taker'.remaining = taker.remaining - qty /\ taker'.remaining >= 0
    /\ fills' \in Seq(Map!Fill) /\ fills' # <<>> /\ Volume(fills') = Volume(fills) + qty
    /\ result' = result

LEMMA TradeEffect ==
    ASSUME Map!TypeOK, Map!Trade
    PROVE  \E side, p, qty, list : Traded(side, p, qty, list)
<1>0. /\ queue \in Queues /\ fills \in Seq(Map!Fill)
      /\ taker # None /\ taker \in Map!Taker /\ taker.remaining > 0
  BY TypeIs DEF Map!Trade
<1>1. /\ taker.ref \in Refs /\ taker.side \in BookSide /\ taker.limit_price \in Prices
      /\ taker.remaining \in Int
      /\ taker = [ref |-> taker.ref, side |-> taker.side, limit_price |-> taker.limit_price,
                  remaining |-> taker.remaining]
  BY <1>0, SameWords DEF Map!Taker
<1> DEFINE side == Opposite(taker.side)
<1>2. side \in BookSide
  BY <1>1 DEF Opposite, BookSide
<1>3. PICK p \in Prices :
        LET front == Head(queue[side][p])
            qty   == Lesser(taker.remaining, front.remainQty)
        IN  /\ queue[side][p] # <<>>
            /\ taker' = [taker EXCEPT !.remaining = @ - qty]
            /\ queue' = [queue EXCEPT ![side][p] =
                   IF front.remainQty = qty THEN Tail(@)
                   ELSE [@ EXCEPT ![1] = [front EXCEPT !.remainQty = @ - qty]]]
            /\ fills' = Append(fills, [aggressor |-> taker.ref, resting |-> front.resting,
                                       price |-> p, qty |-> qty])
  <2>1. \E p \in Prices :
        LET front == Head(queue[side][p])
            qty   == Lesser(taker.remaining, front.remainQty)
        IN  /\ Map!IsTouch(p)
            /\ taker' = [taker EXCEPT !.remaining = @ - qty]
            /\ queue' = [queue EXCEPT ![side][p] =
                   IF front.remainQty = qty THEN Tail(@)
                   ELSE [@ EXCEPT ![1] = [front EXCEPT !.remainQty = @ - qty]]]
            /\ fills' = Append(fills, [aggressor |-> taker.ref, resting |-> front.resting,
                                       price |-> p, qty |-> qty])
    BY SameWords DEF Map!Trade
  <2>2. \A p \in Prices : Map!IsTouch(p) => queue[side][p] # <<>>
    BY SameWords DEF Map!IsTouch
  <2> QED BY <2>1, <2>2
<1> DEFINE old   == queue[side][p]
           front == Head(old)
           qty   == Lesser(taker.remaining, front.remainQty)
           less  == [front EXCEPT !.remainQty = @ - qty]
           list  == IF front.remainQty = qty THEN Tail(old) ELSE [old EXCEPT ![1] = less]
           fill  == [aggressor |-> taker.ref, resting |-> front.resting, price |-> p, qty |-> qty]
<1>4. /\ old \in Seq(Map!RestingOrder) /\ old # <<>>
      /\ 1 \in 1..Len(old) /\ front = old[1] /\ Len(old) \in Nat
  BY <1>0, <1>2, <1>3, QueueType, HeadTailProperties
<1>5. front \in Map!RestingOrder
  BY <1>4, ElementOfSeq
<1>6. /\ front.resting \in Refs /\ front.remainQty \in Int /\ front.remainQty # 0
      /\ front = [resting |-> front.resting, remainQty |-> front.remainQty]
  BY <1>5 DEF Map!RestingOrder
<1>7. /\ qty \in Int /\ qty # 0 /\ qty <= taker.remaining
      /\ qty # front.remainQty => qty < front.remainQty /\ front.remainQty - qty > 0
                                  /\ front.remainQty > 0
  BY <1>0, <1>1, <1>6 DEF Lesser
<1>8. front.remainQty # qty => /\ less \in Map!RestingOrder
                               /\ less.resting = front.resting
                               /\ less.remainQty = front.remainQty - qty
  BY <1>6, <1>7 DEF Map!RestingOrder
<1>9. /\ front.remainQty = qty => list = Tail(old)
      /\ front.remainQty # qty => list = [old EXCEPT ![1] = less]
  OBVIOUS
<1>10. /\ list \in Seq(Map!RestingOrder)
       /\ \/ qty = old[1].remainQty /\ Without(list, old, 1)
          \/ Lowered(list, old) /\ list[1].remainQty = old[1].remainQty - qty
  <2> HIDE DEF list, less, old, qty, front
  <2>1. CASE front.remainQty = qty
    <3>1. /\ Tail(old) \in Seq(Map!RestingOrder) /\ Len(Tail(old)) = Len(old) - 1
          /\ \A k \in 1..Len(Tail(old)) : Tail(old)[k] = old[k + 1]
      BY <1>4, HeadTailProperties
    <3>3. Without(Tail(old), old, 1)
      BY ONLY <3>1, <1>4 DEF Without
    <3>2. list \in Seq(Map!RestingOrder) /\ Without(list, old, 1)
      BY <3>1, <3>3, <2>1, <1>9
    <3> QED BY <3>2, <2>1, <1>4
  <2>2. CASE front.remainQty # qty
    <3>1. /\ list \in Seq(Map!RestingOrder) /\ Len(list) = Len(old)
          /\ \A k \in 1..Len(old) : list[k] = IF k = 1 THEN less ELSE old[k]
      BY <2>2, <1>4, <1>8, <1>9, ExceptSeq
    <3>2. list[1] = less /\ \A k \in 1..Len(old) : k # 1 => list[k] = old[k]
      BY <3>1, <1>4
    <3>3. Lowered(list, old) /\ list[1].remainQty = front.remainQty - qty
      BY <2>2, <3>1, <3>2, <1>4, <1>7, <1>8 DEF Lowered
    <3> QED BY <3>1, <3>3, <1>4
  <2> QED BY <2>1, <2>2
<1>11. fill \in Map!Fill
  BY <1>1, <1>6, <1>7 DEF Map!Fill
<1>12. queue' = [queue EXCEPT ![side][p] = list]
  BY <1>3
<1>13. /\ fills' = Append(fills, fill) /\ fill.qty = qty
       /\ taker' = [taker EXCEPT !.remaining = @ - qty]
       /\ result' = result
  BY <1>3 DEF Map!Trade
<1> HIDE DEF list, fill, qty, front
<1>14. Becomes(queue', queue, side, p, list)
  BY <1>0, <1>2, <1>10, <1>12, ExceptBecomes
<1>15. fills' \in Seq(Map!Fill) /\ fills' # <<>> /\ Volume(fills') = Volume(fills) + qty
  BY <1>0, <1>11, <1>13, VolumeMore
<1>16. /\ taker' \in Map!Taker /\ taker'.ref = taker.ref /\ taker'.side = taker.side
       /\ taker'.remaining = taker.remaining - qty
  BY <1>1, <1>7, <1>13, SameWords DEF Map!Taker
<1>17. taker.remaining - qty >= 0
  BY <1>1, <1>7
<1>18. Traded(side, p, qty, list)
  BY <1>0, <1>1, <1>2, <1>4, <1>7, <1>10, <1>13, <1>14, <1>15, <1>16, <1>17 DEF Traded
<1> QED BY <1>18

\* From q to new: r0 has h shares there now, and every other order what it had.
Sets(q, new, r0, h) ==
    /\ new \in Queues /\ Once(new) /\ Uncrossed(new)
    /\ r0 \in Refs /\ h \in Int
    /\ HeldIn(new, r0) = h
    /\ \A r : r # r0 => HeldIn(new, r) = HeldIn(q, r)

\* An order is in the book exactly when something is left of it there.
LEMMA RestsHeld ==
    ASSUME NEW q \in Queues, Once(q), NEW r
    PROVE  RestsIn(q, r) <=> HeldIn(q, r) # 0
  BY HeldType, HeldNowhere

LEMMA TradeSets ==
    ASSUME queue \in Queues, Once(queue), Uncrossed(queue),
           NEW side, NEW p, NEW qty, NEW list, Traded(side, p, qty, list)
    PROVE  LET r0 == queue[side][p][1].resting
           IN  /\ HeldIn(queue, r0) # 0
               /\ Sets(queue, queue', r0, HeldIn(queue, r0) - qty)
<1> DEFINE r0 == queue[side][p][1].resting
<1>1. /\ side \in BookSide /\ p \in Prices /\ 1 \in 1..Len(queue[side][p]) /\ qty \in Int
      /\ Becomes(queue', queue, side, p, list)
      /\ \/ qty = queue[side][p][1].remainQty /\ Without(list, queue[side][p], 1)
         \/ Lowered(list, queue[side][p]) /\ list[1].remainQty = queue[side][p][1].remainQty - qty
  BY DEF Traded
<1>2. At(queue, r0, side, p, 1)
  BY <1>1 DEF At
<1>3. /\ HeldIn(queue, r0) = queue[side][p][1].remainQty
      /\ r0 \in Refs /\ HeldIn(queue, r0) \in Int /\ HeldIn(queue, r0) # 0
  BY <1>2, HeldAt, PlaceType
<1>4. queue' \in Queues
  BY <1>1 DEF Becomes
<1> HIDE DEF r0
<1>5. CASE qty = queue[side][p][1].remainQty /\ Without(list, queue[side][p], 1)
  <2>1. Once(queue')
    BY <1>1, <1>5, OutOnce
  <2>2. Uncrossed(queue')
    BY <1>1, <1>5, OutUncrossed
  <2>3. ~RestsIn(queue', r0)
    BY <1>1, <1>5, OutGone DEF r0
  <2>4. \A r : r # r0 => HeldIn(queue', r) = HeldIn(queue, r)
    BY <1>1, <1>5, OutOthers DEF r0
  <2>5. HeldIn(queue', r0) = HeldIn(queue, r0) - qty
    BY <1>3, <1>4, <1>5, <2>3, HeldNowhere
  <2> QED BY <1>1, <1>3, <1>4, <2>1, <2>2, <2>4, <2>5 DEF Sets, r0
<1>6. CASE Lowered(list, queue[side][p]) /\ list[1].remainQty = queue[side][p][1].remainQty - qty
  <2>1. Once(queue') /\ Uncrossed(queue')
    BY <1>1, <1>6, LoweredKeeps
  <2>2. \A r : HeldIn(queue', r) = IF r = r0 THEN list[1].remainQty ELSE HeldIn(queue, r)
    BY <1>1, <1>6, LoweredHeld DEF r0
  <2>3. HeldIn(queue', r0) = HeldIn(queue, r0) - qty
    BY <1>3, <1>6, <2>2
  <2> QED BY <1>1, <1>3, <1>4, <2>1, <2>2, <2>3 DEF Sets, r0
<1> QED BY <1>1, <1>5, <1>6

\* A cancelled order leaves the book, and what was left of it is returned.
LEMMA CancelSets ==
    ASSUME queue \in Queues, Once(queue), Uncrossed(queue), NEW ref, Map!Cancel(ref)
    PROVE  /\ Sets(queue, queue', ref, 0)
           /\ HeldIn(queue, ref) # 0 /\ result' = HeldIn(queue, ref)
           /\ taker = None /\ UNCHANGED <<taker, fills>>
<1>0. /\ taker = None /\ UNCHANGED <<taker, fills>>
      /\ \E side \in BookSide, p \in Prices : \E i \in 1..Len(queue[side][p]) :
           /\ Map!Rests(ref, side, p, i)
           /\ queue' = [queue EXCEPT ![side][p] = SubSeq(@, 1, i - 1) \o SubSeq(@, i + 1, Len(@))]
           /\ result' = queue[side][p][i].remainQty
  BY SameWords DEF Map!Cancel
<1>1. PICK side \in BookSide, p \in Prices : \E i \in 1..Len(queue[side][p]) :
           /\ Map!Rests(ref, side, p, i)
           /\ queue' = [queue EXCEPT ![side][p] = SubSeq(@, 1, i - 1) \o SubSeq(@, i + 1, Len(@))]
           /\ result' = queue[side][p][i].remainQty
  BY <1>0
<1>2. PICK i \in 1..Len(queue[side][p]) :
           /\ Map!Rests(ref, side, p, i)
           /\ queue' = [queue EXCEPT ![side][p] = SubSeq(@, 1, i - 1) \o SubSeq(@, i + 1, Len(@))]
           /\ result' = queue[side][p][i].remainQty
  BY <1>1
<1> DEFINE old  == queue[side][p]
           list == SubSeq(old, 1, i - 1) \o SubSeq(old, i + 1, Len(old))
<1>3. At(queue, ref, side, p, i)
  BY <1>2 DEF At, Map!Rests
<1>4. old \in Seq(Map!RestingOrder)
  BY QueueType
<1>5. list \in Seq(Map!RestingOrder) /\ Without(list, old, i)
  BY <1>4, NodeOut DEF Without
<1>6. queue' = [queue EXCEPT ![side][p] = list]
  BY <1>2
<1> HIDE DEF list
<1>7. Becomes(queue', queue, side, p, list)
  BY <1>5, <1>6, ExceptBecomes
<1>8. ref = queue[side][p][i].resting
  BY <1>3 DEF At
<1>9. /\ HeldIn(queue, ref) = queue[side][p][i].remainQty
      /\ ref \in Refs /\ HeldIn(queue, ref) # 0
  BY <1>3, HeldAt, PlaceType
<1>10. queue' \in Queues
  BY <1>7 DEF Becomes
<1>11. Once(queue')
  BY <1>5, <1>7, OutOnce
<1>12. Uncrossed(queue')
  BY <1>5, <1>7, OutUncrossed
<1>13. ~RestsIn(queue', ref)
  BY <1>5, <1>7, <1>8, OutGone
<1>14. \A r : r # ref => HeldIn(queue', r) = HeldIn(queue, r)
  BY <1>5, <1>7, <1>8, OutOthers
<1>15. HeldIn(queue', ref) = 0
  BY <1>10, <1>13, HeldNowhere
<1>16. Sets(queue, queue', ref, 0)
  BY <1>9, <1>10, <1>11, <1>12, <1>14, <1>15 DEF Sets
<1>17. result' = HeldIn(queue, ref)
  BY <1>2, <1>9
<1> QED BY <1>0, <1>9, <1>16, <1>17

\* A side with an order has a best price.
LEMMA BestExists ==
    ASSUME NEW q \in Queues, NEW side \in BookSide, NEW p \in Prices, q[side][p] # <<>>
    PROVE  \E t \in Prices : /\ q[side][t] # <<>>
                             /\ \A x \in Prices : Better(side, x, t) => q[side][x] = <<>>
                             /\ ~Better(side, p, t)
<1> DEFINE Occupied == {x \in Prices : q[side][x] # <<>>}
           Ahead(x) == {y \in Occupied : Better(side, y, x)}
           HowMany == {Cardinality(Ahead(x)) : x \in Occupied}
<1>1. IsFiniteSet(Occupied) /\ Occupied \subseteq Int /\ p \in Occupied
  <2>1. Occupied \in SUBSET Prices
    OBVIOUS
  <2> QED BY <2>1, PricesAssumption, FS_Subset
<1>2. \A x : IsFiniteSet(Ahead(x)) /\ Cardinality(Ahead(x)) \in Nat
  <2> SUFFICES ASSUME NEW x PROVE IsFiniteSet(Ahead(x)) /\ Cardinality(Ahead(x)) \in Nat
    OBVIOUS
  <2>1. Ahead(x) \in SUBSET Occupied
    OBVIOUS
  <2> QED BY <2>1, <1>1, FS_Subset, FS_CardinalityType
<1>3. PICK m \in HowMany : \A k \in HowMany : m <= k
  <2>1. HowMany \subseteq Nat
    BY <1>2
  <2>2. HowMany # {}
    BY <1>1
  <2> QED BY <2>1, <2>2, LeastNat
<1>4. PICK t \in Occupied : m = Cardinality(Ahead(t))
  OBVIOUS
<1>5. ASSUME NEW x \in Occupied, Better(side, x, t) PROVE FALSE
  <2>1. x \in Int /\ t \in Int
    BY <1>1
  <2>2. Ahead(x) \in SUBSET Ahead(t)
    BY <2>1, <1>1, <1>5 DEF Better
  <2>3. x \in Ahead(t) /\ x \notin Ahead(x)
    BY <2>1, <1>5 DEF Better
  <2>4. Cardinality(Ahead(x)) <= Cardinality(Ahead(t))
        /\ Cardinality(Ahead(x)) # Cardinality(Ahead(t))
    BY <2>2, <2>3, <1>2, FS_Subset
  <2>5. Cardinality(Ahead(t)) <= Cardinality(Ahead(x))
    BY <1>3, <1>4
  <2>6. Cardinality(Ahead(x)) \in Nat /\ Cardinality(Ahead(t)) \in Nat
    BY <1>2
  <2> HIDE DEF Ahead
  <2> QED BY <2>4, <2>5, <2>6
<1>6. t \in Prices /\ q[side][t] # <<>>
  OBVIOUS
<1>7. \A x \in Prices : Better(side, x, t) => q[side][x] = <<>>
  BY <1>5
<1>8. ~Better(side, p, t)
  BY <1>1, <1>5
<1> QED BY <1>6, <1>7, <1>8

\* An order with shares to trade that can trade no more crosses nothing.
LEMMA NothingToTrade ==
    ASSUME queue \in Queues, taker \in Map!Taker, ~Map!CanTrade, taker.remaining > 0,
           NEW p \in Prices, queue[Opposite(taker.side)][p] # <<>>
    PROVE  ~Crosses(taker.side, taker.limit_price, p)
<1> DEFINE side == Opposite(taker.side)
<1>1. /\ taker.side \in BookSide /\ taker.limit_price \in Int
      /\ side \in BookSide
  BY PricesAssumption, SameWords DEF Map!Taker, Opposite, BookSide
<1>2. PICK t \in Prices : /\ queue[side][t] # <<>>
                          /\ \A x \in Prices : Better(side, x, t) => queue[side][x] = <<>>
                          /\ ~Better(side, p, t)
  BY <1>1, BestExists
<1>3. ~Map!IsTouch(t)
  BY DEF Map!CanTrade
<1>4. ~Crosses(taker.side, taker.limit_price, t)
  BY <1>2, <1>3, SameWords DEF Map!IsTouch
<1>5. t \in Int /\ p \in Int
  BY PricesAssumption
<1> QED BY <1>1, <1>2, <1>4, <1>5 DEF Crosses, Better, Opposite, BookSide, Buy, Sell

\* What is left of an order rests; and if it has a share to trade, it crosses
\* no order there, all of them older.
LEMMA RestSets ==
    ASSUME Map!TypeOK, Once(queue), Uncrossed(queue), Map!Rest,
           HeldIn(queue, taker.ref) = 0, \A r \in Refs : HeldIn(queue, r) # 0 => r <= taker.ref
    PROVE  /\ Sets(queue, queue', taker.ref, taker.remaining)
           /\ taker # None /\ taker.remaining # 0 /\ result' = taker.remaining
           /\ taker' = None /\ fills' = fills
<1> DEFINE r0   == taker.ref
           side == taker.side
           p    == taker.limit_price
           o    == [resting |-> r0, remainQty |-> taker.remaining]
           old  == queue[side][p]
           list == Append(old, o)
<1>0. /\ queue \in Queues /\ taker \in Map!Taker
      /\ taker # None /\ taker.remaining # 0 /\ result' = taker.remaining
      /\ taker' = None /\ fills' = fills /\ ~Map!CanTrade
      /\ queue' = [queue EXCEPT ![side][p] = list]
  BY TypeIs DEF Map!Rest
<1>1. /\ r0 \in Refs /\ side \in BookSide /\ p \in Prices /\ taker.remaining \in Int
  BY <1>0, SameWords DEF Map!Taker
<1>2. o \in Map!RestingOrder /\ o.resting = r0 /\ o.remainQty = taker.remaining
  BY <1>0, <1>1 DEF Map!RestingOrder
<1>3. old \in Seq(Map!RestingOrder) /\ Len(old) \in Nat
  BY <1>0, <1>1, QueueType
<1> HIDE DEF o, old
<1>4. list \in Seq(Map!RestingOrder) /\ Pushed(list, old, o)
  <2>1. /\ Append(old, o) \in Seq(Map!RestingOrder) /\ Len(Append(old, o)) = Len(old) + 1
        /\ Append(old, o)[Len(old) + 1] = o
        /\ \A k \in 1..Len(old) : Append(old, o)[k] = old[k]
    BY <1>2, <1>3, AppendProperties
  <2> QED BY <2>1 DEF Pushed
<1> HIDE DEF list
<1>5. Becomes(queue', queue, side, p, list)
  BY <1>0, <1>1, <1>4, ExceptBecomes
<1>6. Pushed(list, queue[side][p], o)
  BY <1>4 DEF old
<1>7. ~RestsIn(queue, o.resting)
  BY <1>0, <1>2, RestsHeld
<1>14. queue \in Queues
  BY <1>0
<1>8. queue' \in Queues /\ Once(queue')
  <2>1. Once(queue')
    BY <1>14, <1>1, <1>5, <1>6, <1>7, PushedOnce
  <2> QED BY <2>1, <1>5 DEF Becomes
<1>15. queue'[side][p][Len(list)] = o
  <2>1. queue'[side][p] = list
    BY <1>5 DEF Becomes
  <2> QED BY <2>1, <1>6 DEF Pushed
<1>9. \A r : HeldIn(queue', r) = IF r = o.resting THEN o.remainQty ELSE HeldIn(queue, r)
  BY <1>0, <1>1, <1>5, <1>6, <1>7, PushedHeld
<1>10. ASSUME NEW r, NEW s, NEW t, NEW i, At(queue, r, s, t, i), s = Opposite(side), taker.remaining > 0
       PROVE  ~Crosses(side, p, t)
  <2>1. t \in Prices /\ queue[Opposite(side)][t] # <<>>
    BY <1>0, <1>10, QueueType, EmptySeq DEF At
  <2> QED BY <1>0, <1>10, <2>1, NothingToTrade
<1>11. ASSUME NEW r, NEW s, NEW t, NEW i, At(queue, r, s, t, i)
       PROVE  r \in Nat /\ r < r0
  <2>1. r \in Refs /\ r \in Nat /\ r0 \in Nat
    BY <1>0, <1>1, <1>11, PlaceType DEF Refs
  <2>2. RestsIn(queue, r)
    BY <1>11, RestsAt
  <2>3. HeldIn(queue, r) # 0
    BY <1>0, <2>2, RestsHeld
  <2> QED BY <2>1, <2>3
<1>12. Uncrossed(queue')
  <2> SUFFICES ASSUME NEW r1, NEW p1, NEW i1, NEW r2, NEW p2, NEW i2,
                      At(queue', r1, Buy, p1, i1), At(queue', r2, Sell, p2, i2), p1 >= p2
               PROVE  IF r1 > r2 THEN queue'[Buy][p1][i1].remainQty < 0
                      ELSE queue'[Sell][p2][i2].remainQty < 0
    BY DEF Uncrossed
  <2>8. p1 \in Int /\ p2 \in Int
    BY <1>8, PlaceType
  <2>9. p \in Int /\ r0 \in Nat
    <3>1. p \in Int
      BY ONLY <1>1, PricesAssumption
    <3>2. r0 \in Nat
      BY ONLY <1>1, BoundsAssumption DEF Refs
    <3> QED BY <3>1, <3>2
  <2>0. /\ p1 \in Int /\ p2 \in Int /\ p \in Int /\ r0 \in Nat
        /\ Buy # Sell /\ Opposite(Buy) = Sell /\ Opposite(Sell) = Buy
    BY <2>8, <2>9 DEF Buy, Sell, Opposite
  <2>1. At(queue, r1, Buy, p1, i1) \/ NewAt(side, p, list, o, r1, Buy, p1, i1)
    BY <1>0, <1>1, <1>5, <1>6, PushedPlaces
  <2>2. At(queue, r2, Sell, p2, i2) \/ NewAt(side, p, list, o, r2, Sell, p2, i2)
    BY <1>0, <1>1, <1>5, <1>6, PushedPlaces
  <2>4. CASE At(queue, r1, Buy, p1, i1) /\ At(queue, r2, Sell, p2, i2)
    <3>1. SameAt(queue', queue, r1, Buy, p1, i1) /\ SameAt(queue', queue, r2, Sell, p2, i2)
      BY <1>0, <1>1, <1>5, <1>6, <2>4, PushedPlaces
    <3>2. IF r1 > r2 THEN queue[Buy][p1][i1].remainQty < 0 ELSE queue[Sell][p2][i2].remainQty < 0
      BY <2>4 DEF Uncrossed
    <3> QED BY <3>1, <3>2 DEF SameAt
  <2>5. CASE NewAt(side, p, list, o, r1, Buy, p1, i1) /\ At(queue, r2, Sell, p2, i2)
    <3>1. side = Buy /\ p1 = p /\ i1 = Len(list) /\ r1 = r0
      BY <2>5, <1>2 DEF NewAt
    <3>2. r1 > r2
      BY <3>1, <2>0, <2>5, <1>11
    <3>3. ~(taker.remaining > 0)
      <4>1. Crosses(Buy, p, p2)
        BY <3>1, <2>0 DEF Crosses
      <4> QED BY <4>1, <3>1, <2>0, <2>5, <1>10
    <3>4. queue'[Buy][p1][i1].remainQty < 0
      BY <3>1, <3>3, <1>15, <1>0, <1>1, <1>2
    <3> QED BY <3>2, <3>4
  <2>6. CASE At(queue, r1, Buy, p1, i1) /\ NewAt(side, p, list, o, r2, Sell, p2, i2)
    <3>1. side = Sell /\ p2 = p /\ i2 = Len(list) /\ r2 = r0
      BY <2>6, <1>2 DEF NewAt
    <3>2. ~(r1 > r2)
      BY <3>1, <2>0, <2>6, <1>11
    <3>3. ~(taker.remaining > 0)
      <4>1. Crosses(Sell, p, p1)
        BY <3>1, <2>0 DEF Crosses
      <4> QED BY <4>1, <3>1, <2>0, <2>6, <1>10
    <3>4. queue'[Sell][p2][i2].remainQty < 0
      BY <3>1, <3>3, <1>15, <1>0, <1>1, <1>2
    <3> QED BY <3>2, <3>4
  <2>7. ~(NewAt(side, p, list, o, r1, Buy, p1, i1) /\ NewAt(side, p, list, o, r2, Sell, p2, i2))
    BY <2>0 DEF NewAt
  <2> QED BY <2>1, <2>2, <2>4, <2>5, <2>6, <2>7
<1>13. Sets(queue, queue', r0, taker.remaining)
  BY <1>1, <1>2, <1>8, <1>9, <1>12 DEF Sets
<1> QED BY <1>0, <1>13
-----------------------------------------------------------------------------
(***************************************************************************)
(* The shares in the book, and the orders                                  *)
(***************************************************************************)
SumIn(q)  == Total([r \in Refs |-> HeldIn(q, r)])
LiveIn(q) == {r \in Refs : HeldIn(q, r) # 0}

LEMMA HeldList ==
    ASSUME NEW q \in Queues, Once(q)
    PROVE  LET list == [r \in Refs |-> HeldIn(q, r)]
           IN  /\ Integers(list) /\ Len(list) = kMaxLines
               /\ \A r \in 1..kMaxLines : list[r] = HeldIn(q, r)
<1> DEFINE list == [r \in Refs |-> HeldIn(q, r)]
<1>1. \A r \in 1..kMaxLines : list[r] = HeldIn(q, r) /\ list[r] \in Int
  BY HeldType DEF Refs
<1>2. list \in [1..kMaxLines -> Int] /\ DOMAIN list = 1..kMaxLines
  BY <1>1 DEF Refs
<1> HIDE DEF list
<1>3. kMaxLines \in Nat
  BY BoundsAssumption
<1>4. Len(list) = kMaxLines
  <2>1. list \in Seq(Int)
    BY <1>2, <1>3, SeqDef
  <2> QED BY <2>1, <1>2, <1>3, LenProperties
<1>5. Integers(list)
  BY <1>1, <1>3, <1>4 DEF Integers
<1> QED BY <1>1, <1>4, <1>5 DEF list

LEMMA SumType == ASSUME NEW q \in Queues, Once(q) PROVE SumIn(q) \in Int
<1> DEFINE list == [r \in Refs |-> HeldIn(q, r)]
<1>1. Integers(list)
  BY HeldList
<1> QED BY <1>1, TotalType DEF SumIn

LEMMA SumSets ==
    ASSUME NEW q \in Queues, Once(q), NEW new, NEW r0, NEW h, Sets(q, new, r0, h)
    PROVE  SumIn(new) = SumIn(q) - HeldIn(q, r0) + h
<1> DEFINE s == [r \in Refs |-> HeldIn(q, r)]
           t == [r \in Refs |-> HeldIn(new, r)]
<1>1. /\ new \in Queues /\ Once(new) /\ r0 \in 1..kMaxLines
      /\ HeldIn(new, r0) = h /\ \A r : r # r0 => HeldIn(new, r) = HeldIn(q, r)
  BY DEF Sets, Refs
<1>2. Integers(s) /\ Len(s) = kMaxLines /\ \A r \in 1..kMaxLines : s[r] = HeldIn(q, r)
  BY HeldList
<1>3. Integers(t) /\ Len(t) = kMaxLines /\ \A r \in 1..kMaxLines : t[r] = HeldIn(new, r)
  BY <1>1, HeldList
<1> HIDE DEF s, t
<1>4. \A k \in 1..Len(s) : k # r0 => t[k] = s[k]
  BY <1>1, <1>2, <1>3
<1>5. Total(t) = Total(s) - s[r0] + t[r0]
  BY <1>1, <1>2, <1>3, <1>4, TotalChanged
<1>6. s[r0] = HeldIn(q, r0) /\ t[r0] = h
  BY <1>1, <1>2, <1>3
<1> QED BY <1>5, <1>6 DEF SumIn, s, t

LEMMA LiveFinite == \A q : IsFiniteSet(LiveIn(q)) /\ Cardinality(LiveIn(q)) \in Nat
<1> SUFFICES ASSUME NEW q PROVE IsFiniteSet(LiveIn(q)) /\ Cardinality(LiveIn(q)) \in Nat
  OBVIOUS
<1>1. IsFiniteSet(Refs)
  BY BoundsAssumption, FS_Interval DEF Refs
<1>2. LiveIn(q) \in SUBSET Refs
  BY DEF LiveIn
<1> QED BY <1>1, <1>2, FS_Subset, FS_CardinalityType

LEMMA LiveSets ==
    ASSUME NEW q \in Queues, Once(q), NEW new, NEW r0, NEW h, Sets(q, new, r0, h)
    PROVE  /\ HeldIn(q, r0) # 0 /\ h # 0 => Cardinality(LiveIn(new)) = Cardinality(LiveIn(q))
           /\ HeldIn(q, r0) # 0 /\ h = 0 =>
                Cardinality(LiveIn(new)) = Cardinality(LiveIn(q)) - 1
           /\ HeldIn(q, r0) = 0 /\ h # 0 =>
                Cardinality(LiveIn(new)) = Cardinality(LiveIn(q)) + 1
<1>1. /\ r0 \in Refs
      /\ HeldIn(new, r0) = h /\ \A r : r # r0 => HeldIn(new, r) = HeldIn(q, r)
  BY DEF Sets
<1>2. IsFiniteSet(LiveIn(q))
  BY LiveFinite
<1>3. HeldIn(q, r0) # 0 /\ h # 0 => LiveIn(new) = LiveIn(q)
  BY <1>1 DEF LiveIn
<1>4. HeldIn(q, r0) # 0 /\ h = 0 => LiveIn(new) = LiveIn(q) \ {r0} /\ r0 \in LiveIn(q)
  BY <1>1 DEF LiveIn
<1>5. HeldIn(q, r0) = 0 /\ h # 0 => LiveIn(new) = LiveIn(q) \cup {r0} /\ r0 \notin LiveIn(q)
  BY <1>1 DEF LiveIn
<1>6. /\ Cardinality(LiveIn(q) \ {r0}) =
            IF r0 \in LiveIn(q) THEN Cardinality(LiveIn(q)) - 1 ELSE Cardinality(LiveIn(q))
      /\ Cardinality(LiveIn(q) \cup {r0}) =
            IF r0 \in LiveIn(q) THEN Cardinality(LiveIn(q)) ELSE Cardinality(LiveIn(q)) + 1
  BY <1>2, FS_AddElement, FS_RemoveElement
<1> QED BY <1>3, <1>4, <1>5, <1>6
-----------------------------------------------------------------------------
(***************************************************************************)
(* What the properties say, of any book                                    *)
(***************************************************************************)
LEMMA OnceIs ==
    ASSUME NEW q \in Queues
    PROVE  Once(q) <=> \A r \in Refs : \A at, other \in PlacesIn(q, r) : at = other
<1>1. ASSUME Once(q), NEW r \in Refs, NEW at \in PlacesIn(q, r), NEW other \in PlacesIn(q, r)
      PROVE  at = other
  <2>1. \E s1 \in BookSide, p1 \in Prices : \E i1 \in 1..Len(q[s1][p1]) :
            at = <<s1, p1, i1>> /\ At(q, r, s1, p1, i1)
    BY PlacesAre
  <2>2. \E s2 \in BookSide, p2 \in Prices : \E i2 \in 1..Len(q[s2][p2]) :
            other = <<s2, p2, i2>> /\ At(q, r, s2, p2, i2)
    BY PlacesAre
  <2>3. PICK s1, p1, i1 : at = <<s1, p1, i1>> /\ At(q, r, s1, p1, i1)
    BY <2>1
  <2>4. PICK s2, p2, i2 : other = <<s2, p2, i2>> /\ At(q, r, s2, p2, i2)
    BY <2>2
  <2>5. s1 = s2 /\ p1 = p2 /\ i1 = i2
    BY <1>1, <2>3, <2>4 DEF Once
  <2> QED BY <2>3, <2>4, <2>5
<1>2. ASSUME \A r \in Refs : \A at, other \in PlacesIn(q, r) : at = other
      PROVE  Once(q)
  <2> SUFFICES ASSUME NEW r, NEW s1, NEW p1, NEW i1, NEW s2, NEW p2, NEW i2,
                      At(q, r, s1, p1, i1), At(q, r, s2, p2, i2)
               PROVE  s1 = s2 /\ p1 = p2 /\ i1 = i2
    BY DEF Once
  <2>1. r \in Refs
    BY PlaceType
  <2>2. <<s1, p1, i1>> \in PlacesIn(q, r) /\ <<s2, p2, i2>> \in PlacesIn(q, r)
    BY PlacesAre
  <2>3. <<s1, p1, i1>> = <<s2, p2, i2>>
    BY <1>2, <2>1, <2>2
  <2>4. <<s1, p1, i1>>[1] = s1 /\ <<s1, p1, i1>>[2] = p1 /\ <<s1, p1, i1>>[3] = i1
    OBVIOUS
  <2>5. <<s2, p2, i2>>[1] = s2 /\ <<s2, p2, i2>>[2] = p2 /\ <<s2, p2, i2>>[3] = i2
    OBVIOUS
  <2> QED BY ONLY <2>3, <2>4, <2>5
<1> QED BY <1>1, <1>2

LEMMA UncrossedIs ==
    ASSUME NEW book \in Queues
    PROVE  Uncrossed(book) <=>
             \A p, q \in Prices : p >= q =>
                 \A i \in DOMAIN book[Buy][p], j \in DOMAIN book[Sell][q] :
                     LET bid == book[Buy][p][i]
                         ask == book[Sell][q][j]
                     IN  IF bid.resting > ask.resting THEN bid.remainQty < 0 ELSE ask.remainQty < 0
<1>0. Buy \in BookSide /\ Sell \in BookSide
  BY DEF BookSide
<1>1. \A p \in Prices : /\ DOMAIN book[Buy][p] = 1..Len(book[Buy][p])
                        /\ DOMAIN book[Sell][p] = 1..Len(book[Sell][p])
  BY <1>0, QueueType
<1> DEFINE Told(p, i, q, j) ==
             IF book[Buy][p][i].resting > book[Sell][q][j].resting
             THEN book[Buy][p][i].remainQty < 0 ELSE book[Sell][q][j].remainQty < 0
<1>2. ASSUME Uncrossed(book), NEW p \in Prices, NEW q \in Prices, p >= q,
             NEW i \in DOMAIN book[Buy][p], NEW j \in DOMAIN book[Sell][q]
      PROVE  Told(p, i, q, j)
  <2>1. At(book, book[Buy][p][i].resting, Buy, p, i) /\ At(book, book[Sell][q][j].resting, Sell, q, j)
    BY <1>0, <1>1 DEF At
  <2> QED BY <1>2, <2>1 DEF Uncrossed
<1>3. ASSUME \A p, q \in Prices : p >= q =>
                 \A i \in DOMAIN book[Buy][p], j \in DOMAIN book[Sell][q] : Told(p, i, q, j)
      PROVE  Uncrossed(book)
  <2> SUFFICES ASSUME NEW r1, NEW p1, NEW i1, NEW r2, NEW p2, NEW i2,
                      At(book, r1, Buy, p1, i1), At(book, r2, Sell, p2, i2), p1 >= p2
               PROVE  IF r1 > r2 THEN book[Buy][p1][i1].remainQty < 0
                      ELSE book[Sell][p2][i2].remainQty < 0
    BY DEF Uncrossed
  <2>1. /\ p1 \in Prices /\ i1 \in DOMAIN book[Buy][p1] /\ book[Buy][p1][i1].resting = r1
        /\ p2 \in Prices /\ i2 \in DOMAIN book[Sell][p2] /\ book[Sell][p2][i2].resting = r2
    BY <1>1 DEF At
  <2> HIDE DEF Told
  <2>2. Told(p1, i1, p2, i2)
    BY <1>3, <2>1
  <2> QED BY <2>1, <2>2 DEF Told
<1> QED BY <1>2, <1>3

\* Held and TypeOK are about the book that is, and after a step about the next.
LEMMA HeldIs == \A r : Held(r) = HeldIn(queue, r)
  BY DEF Held, HeldIn, Places, PlacesIn

LEMMA HeldIsNext == \A r : Held(r)' = HeldIn(queue', r)
  BY DEF Held, HeldIn, Places, PlacesIn

LEMMA InBookIs ==
    ASSUME queue \in Queues, Once(queue)
    PROVE  \A r : InBook(r) <=> Held(r) # 0
<1>1. \A r : InBook(r) <=> RestsIn(queue, r)
  <2>1. \A side \in BookSide, p \in Prices : DOMAIN queue[side][p] = 1..Len(queue[side][p])
    BY QueueType
  <2> QED BY <2>1, SameWords DEF InBook, Map!InBook, Map!Rests, RestsIn
<1> QED BY <1>1, HeldIs, RestsHeld

LEMMA InBookIsNext ==
    ASSUME queue' \in Queues, Once(queue')
    PROVE  \A r : InBook(r)' <=> Held(r)' # 0
<1>1. \A r : InBook(r)' <=> RestsIn(queue', r)
  <2>1. \A side \in BookSide, p \in Prices : DOMAIN queue'[side][p] = 1..Len(queue'[side][p])
    BY QueueType
  <2> QED BY <2>1, SameWords DEF InBook, Map!InBook, Map!Rests, RestsIn
<1> QED BY <1>1, HeldIsNext, RestsHeld
-----------------------------------------------------------------------------
(***************************************************************************)
(* The inductive invariant                                                 *)
(***************************************************************************)
\* A submit has been called, and not yet reported.
AtWork == status = "running" /\ command # NoLine

\* While the book is at work, it is on the order of the line, with what its
\* fills have left of it, and that order is not yet in the book.
InCall ==
    /\ AtWork => IsOrder(command) /\ IsPrice(command.text)
    /\ taker # None => /\ AtWork
                       /\ taker.ref = next_ref
                       /\ Held(next_ref) = 0
                       /\ taker.remaining = command.qty - Volume(fills)
                       /\ fills # <<>> => command.qty > 0

\* When it has returned, what it returned of the order rests, and that is what
\* the fills have left of it; or nothing does, and any fills were for all of it.
Returned ==
    AtWork /\ taker = None =>
        /\ Held(next_ref) = result
        /\ result # 0 => result = command.qty - Volume(fills)
        /\ result # 0 /\ fills # <<>> => result > 0
        /\ result = 0 /\ fills # <<>> => Volume(fills) = command.qty /\ command.qty > 0

\* Every order is counted when it is reported, and no more are cancelled, in
\* the book or at work than there were.
Live == {r \in Refs : Held(r) # 0}
Counts ==
    LET one == IF AtWork THEN 1 ELSE 0
    IN  /\ totals.submitted + one = next_ref
        /\ totals.cancelled + Cardinality(Live) + (IF taker = None THEN 0 ELSE 1)
               <= totals.submitted + one

\* Of the shares asked for, those of the order at work are what its fills come
\* to, twice, and what is left of it.
Pending ==
    IF AtWork THEN 2 * Volume(fills) + (IF taker = None THEN 0 ELSE taker.remaining) ELSE 0
Shares  == Total([r \in Refs |-> Held(r)])
Balance ==
    ledger.asked = 2 * totals.volume + Shares + ledger.cancelled + ledger.away + Pending

IInv == TypeOK /\ CrossedOnlyByNegative /\ InCall /\ Returned /\ Counts /\ Balance
-----------------------------------------------------------------------------
\* The same, part by part.
BookType ==
    /\ queue \in Queues
    /\ taker \in Map!Taker \cup {None}
    /\ taker # None => taker.remaining >= 0 \/ fills = <<>>
    /\ fills \in Seq(Map!Fill)
    /\ result \in Int

ScriptType ==
    /\ which \in Books
    /\ line_no \in 0..kMaxLines
    /\ next_ref \in 0..line_no
    /\ command \in Line \cup {NoLine}
    /\ status \in {"running", "done", "failed"}

TotalsType ==
    /\ totals \in [submitted : Nat, cancelled : Nat, fills : Nat, volume : Int]
    /\ totals.cancelled <= totals.submitted /\ totals.submitted <= next_ref
    /\ ledger \in [asked : Int, cancelled : Int, away : Int]

Numbered == \A r \in Refs : Held(r) # 0 => r <= next_ref

LEMMA TypeParts ==
    TypeOK <=> BookType /\ ScriptType /\ TotalsType /\ Once(queue) /\ Numbered
<1>1. Map!TypeOK <=> BookType
  BY TypeIs DEF BookType
<1>2. \A r : Places(r) = PlacesIn(queue, r)
  BY DEF Places, PlacesIn
<1>3. ASSUME queue \in Queues
      PROVE  Once(queue) <=> \A r \in Refs : \A at, other \in Places(r) : at = other
  BY <1>2, <1>3, OnceIs
<1>4. ASSUME queue \in Queues, Once(queue)
      PROVE  Numbered <=> \A r \in Refs : InBook(r) => r <= next_ref
  BY <1>4, InBookIs DEF Numbered
<1> QED BY <1>1, <1>3, <1>4 DEF TypeOK, BookType, ScriptType, TotalsType

LEMMA TypePartsNext ==
    BookType' /\ ScriptType' /\ TotalsType' /\ Once(queue') /\ Numbered' => TypeOK'
<1>1. BookType' => Map!TypeOK'
  BY SameWords DEF Map!TypeOK, Queues, BookType
<1>2. \A r : Places(r)' = PlacesIn(queue', r)
  BY DEF Places, PlacesIn
<1>3. ASSUME queue' \in Queues, Once(queue')
      PROVE  \A r \in Refs : \A at, other \in Places(r)' : at = other
  BY <1>2, <1>3, OnceIs
<1>4. ASSUME queue' \in Queues, Once(queue'), Numbered'
      PROVE  \A r \in Refs : InBook(r)' => r <= next_ref'
  BY <1>4, InBookIsNext DEF Numbered
<1> QED BY <1>1, <1>3, <1>4 DEF TypeOK, BookType, ScriptType, TotalsType

LEMMA IInvParts ==
    IInv <=> /\ BookType /\ ScriptType /\ TotalsType
             /\ Once(queue) /\ Uncrossed(queue) /\ Numbered
             /\ InCall /\ Returned /\ Counts /\ Balance
<1>1. queue \in Queues => (CrossedOnlyByNegative <=> Uncrossed(queue))
  BY UncrossedIs DEF CrossedOnlyByNegative
<1> QED BY <1>1, TypeParts DEF IInv, BookType

LEMMA IInvPartsNext ==
    ASSUME BookType', ScriptType', TotalsType', Once(queue'), Uncrossed(queue'), Numbered',
           InCall', Returned', Counts', Balance'
    PROVE  IInv'
<1>1. queue' \in Queues => (CrossedOnlyByNegative' <=> Uncrossed(queue'))
  BY UncrossedIs DEF CrossedOnlyByNegative
<1>2. BookType' => queue' \in Queues
  BY DEF BookType
<1> QED BY <1>1, <1>2, TypePartsNext DEF IInv

\* The shares and the orders in the book, before and after a step.
LEMMA InTheBook ==
    /\ Shares = SumIn(queue) /\ Live = LiveIn(queue)
    /\ Shares' = SumIn(queue') /\ Live' = LiveIn(queue')
  BY HeldIs, HeldIsNext DEF Shares, SumIn, Live, LiveIn

LEMMA SameBook ==
    ASSUME queue' = queue
    PROVE  /\ \A r : Held(r)' = Held(r)
           /\ Shares' = Shares /\ Live' = Live
  BY InTheBook, HeldIs, HeldIsNext

\* Numbers are numbers.
LEMMA Numbers ==
    ASSUME IInv
    PROVE  /\ kMaxLines \in Nat /\ line_no \in Nat /\ next_ref \in Nat
           /\ line_no <= kMaxLines /\ next_ref <= line_no
           /\ Volume(fills) \in Int /\ result \in Int /\ Shares \in Int
           /\ Cardinality(Live) \in Nat
           /\ totals.submitted \in Nat /\ totals.cancelled \in Nat /\ totals.fills \in Nat
           /\ totals.volume \in Int
           /\ ledger.asked \in Int /\ ledger.cancelled \in Int /\ ledger.away \in Int
           /\ taker # None => taker \in Map!Taker /\ taker.remaining \in Int
                              /\ taker.ref \in Refs
           /\ queue \in Queues
           /\ \A r : Held(r) \in Int
           /\ next_ref # 0 => next_ref \in Refs
<1>0. BookType /\ ScriptType /\ TotalsType /\ Once(queue)
  BY IInvParts
<1>1. /\ kMaxLines \in Nat /\ line_no \in Nat /\ next_ref \in Nat
      /\ line_no <= kMaxLines /\ next_ref <= line_no
  BY <1>0, BoundsAssumption DEF ScriptType
<1>2. Volume(fills) \in Int /\ result \in Int
  BY <1>0, VolumeType DEF BookType
<1>3. Shares \in Int /\ Cardinality(Live) \in Nat /\ \A r : Held(r) \in Int
  BY <1>0, InTheBook, SumType, LiveFinite, HeldIs, HeldType DEF BookType
<1>4. taker # None => taker \in Map!Taker /\ taker.remaining \in Int /\ taker.ref \in Refs
  BY <1>0 DEF BookType, Map!Taker
<1>5. next_ref # 0 => next_ref \in Refs
  BY <1>1 DEF Refs
<1> QED BY <1>0, <1>1, <1>2, <1>3, <1>4, <1>5 DEF TotalsType, BookType

LEMMA TotalZero ==
    ASSUME NEW n \in Nat PROVE Total([k \in 1..n |-> 0]) = 0
<1> DEFINE s == [k \in 1..n |-> 0]
<1>1. Len(s) = n
  <2>1. s \in Seq(Int) /\ DOMAIN s = 1..n
    BY SeqDef
  <2> QED BY <2>1, LenProperties
<1>2. IsRunning([k \in 0..Len(s) |-> 0], s, Len(s))
  <2>1. /\ [k \in 0..n |-> 0] \in [0..n -> Int] /\ [k \in 0..n |-> 0][0] = 0
        /\ \A k \in 1..n : k \in 0..n /\ k - 1 \in 0..n
        /\ \A k \in 1..n : s[k] = 0
    OBVIOUS
  <2> HIDE DEF s
  <2>2. \A k \in 1..n : [j \in 0..n |-> 0][k] = [j \in 0..n |-> 0][k - 1] + s[k]
    BY <2>1
  <2> QED BY <1>1, <2>1, <2>2 DEF IsRunning
<1> HIDE DEF s
<1>3. Total(s) = [k \in 0..Len(s) |-> 0][Len(s)]
  BY <1>1, <1>2, RunningTotal
<1> QED BY <1>1, <1>3 DEF s

LEMMA InitIInv == Init => IInv
<1> SUFFICES ASSUME Init PROVE IInv
  OBVIOUS
<1>0. /\ queue = [side \in BookSide |-> [p \in Prices |-> <<>>]]
      /\ taker = None /\ fills = <<>> /\ result = 0
  BY SameWords DEF Init, Map!Init
<1>11. /\ which \in Books /\ line_no = 0 /\ command = NoLine /\ next_ref = 0
       /\ status = "running"
       /\ totals = [submitted |-> 0, cancelled |-> 0, fills |-> 0, volume |-> 0]
       /\ ledger = [asked |-> 0, cancelled |-> 0, away |-> 0]
  BY DEF Init
<1>1. queue \in Queues /\ \A r : ~RestsIn(queue, r)
  <2>1. <<>> \in Seq(Map!RestingOrder) /\ Len(<<>>) = 0
    BY EmptySeq
  <2>2. \A side \in BookSide, p \in Prices : queue[side][p] = <<>>
    BY <1>0
  <2>3. queue \in Queues
    BY <1>0, <2>1 DEF Queues
  <2>4. \A side \in BookSide, p \in Prices : 1..Len(queue[side][p]) = {}
    BY <2>1, <2>2
  <2> QED BY <2>3, <2>4 DEF RestsIn
<1>2. \A r, side, p, i : ~At(queue, r, side, p, i)
  BY <1>1, RestsAt
<1>3. Once(queue) /\ Uncrossed(queue)
  BY <1>2 DEF Once, Uncrossed
<1>4. \A r : Held(r) = 0
  BY <1>1, HeldNowhere, HeldIs
<1>5. BookType /\ ScriptType /\ TotalsType
  <2>1. BookType
    BY <1>0, <1>1, EmptySeq DEF BookType
  <2>2. ScriptType
    BY ONLY <1>11, BoundsAssumption DEF ScriptType
  <2>3. TotalsType
    BY ONLY <1>11 DEF TotalsType
  <2> QED BY <2>1, <2>2, <2>3
<1>6. Live = {} /\ Cardinality(Live) = 0
  BY <1>4, FS_EmptySet DEF Live
<1>7. Shares = 0
  <2>1. Total([r \in Refs |-> 0]) = 0
    BY TotalZero, BoundsAssumption DEF Refs
  <2> QED BY <2>1, <1>4 DEF Shares
<1>8. ~AtWork /\ InCall /\ Returned
  BY <1>0 DEF AtWork, InCall, Returned, Init
<1>9. Counts
  BY ONLY <1>0, <1>11, <1>6, <1>8 DEF Counts
<1>10. Balance
  BY ONLY <1>11, <1>7, <1>8 DEF Balance, Pending
<1> QED BY <1>3, <1>4, <1>5, <1>8, <1>9, <1>10, IInvParts DEF Numbered
-----------------------------------------------------------------------------
(***************************************************************************)
(* Every step keeps it                                                     *)
(***************************************************************************)
\* A line is read between calls, and there is a number for an order.
LEMMA ReadIs ==
    ASSUME IInv, NEW line, ReadLine(line)
    PROVE  /\ status = "running" /\ command = NoLine /\ ~AtWork /\ taker = None
           /\ line \in Line /\ line \in Lines(which, line_no + 1)
           /\ line_no' = line_no + 1 /\ line_no' \in 0..kMaxLines
           /\ next_ref + 1 \in Refs /\ next_ref + 1 <= line_no' /\ Held(next_ref + 1) = 0
           /\ totals.submitted = next_ref /\ which \in Books
           /\ line_no + 1 \in 1..kMaxLines
<1>0. /\ ScriptType /\ Numbered /\ InCall /\ Counts
      /\ kMaxLines \in Nat /\ line_no \in Nat /\ next_ref \in Nat
      /\ line_no <= kMaxLines /\ next_ref <= line_no /\ totals.submitted \in Nat
  BY IInvParts, Numbers
<1>1. /\ status = "running" /\ command = NoLine /\ line \in Lines(which, line_no + 1)
      /\ line_no < kMaxLines /\ line_no' = line_no + 1
  BY DEF ReadLine
<1>2. ~AtWork /\ taker = None
  BY <1>0, <1>1 DEF AtWork, InCall
<1>3. line_no + 1 \in 1..kMaxLines /\ next_ref + 1 \in Refs /\ next_ref + 1 <= line_no'
  BY <1>0, <1>1 DEF Refs
<1>4. which \in Books
  BY <1>0 DEF ScriptType
<1>5. line \in Line
  BY <1>1, <1>3, <1>4, LinesAssumption
<1>6. Held(next_ref + 1) = 0
  BY <1>0, <1>3 DEF Numbered
<1>7. totals.submitted = next_ref
  BY <1>0, <1>2 DEF Counts
<1> QED BY <1>0, <1>1, <1>2, <1>3, <1>4, <1>5, <1>6, <1>7

\* A step between calls that leaves the book and the counts alone.
LEMMA QuietKeeps ==
    ASSUME IInv, ~AtWork, ~AtWork', UNCHANGED <<bookVars, next_ref, totals, ledger>>, ScriptType'
    PROVE  IInv'
<1>0. /\ BookType /\ TotalsType /\ Once(queue) /\ Uncrossed(queue) /\ Numbered
      /\ InCall /\ Counts /\ Balance
      /\ queue' = queue /\ taker' = taker /\ fills' = fills /\ result' = result
      /\ next_ref' = next_ref /\ totals' = totals /\ ledger' = ledger
  BY IInvParts DEF bookVars
<1>1. (\A r : Held(r)' = Held(r)) /\ Shares' = Shares /\ Live' = Live
  BY <1>0, SameBook
<1>2. taker = None
  BY <1>0 DEF InCall
<1>3. BookType'
  BY <1>0 DEF BookType
<1>4. TotalsType'
  BY <1>0 DEF TotalsType
<1>5. Numbered'
  BY <1>0, <1>1 DEF Numbered
<1>6. InCall' /\ Returned'
  BY <1>0, <1>2 DEF InCall, Returned
<1>7. Counts'
  BY <1>0, <1>1 DEF Counts
<1>8. Balance'
  BY <1>0, <1>1 DEF Balance, Pending
<1> QED BY <1>0, <1>3, <1>4, <1>5, <1>6, <1>7, <1>8, IInvPartsNext

LEMMA SkipKeeps ==
    ASSUME IInv, NEW line, SkipComment(line) \/ RejectLine(line) PROVE IInv'
<1>1. ReadLine(line)
  BY DEF SkipComment, RejectLine
<1>2. /\ command = NoLine /\ ~AtWork /\ line \in Line /\ line_no' \in 0..kMaxLines
      /\ line_no' = line_no + 1
  BY <1>1, ReadIs
<1>3. ScriptType /\ line_no \in Nat /\ next_ref \in Nat /\ next_ref <= line_no
  BY IInvParts, Numbers
<1>4. /\ UNCHANGED <<bookVars, which, next_ref, totals, ledger>>
      /\ \/ command' = NoLine /\ status' = status
         \/ command' = line /\ status' = "failed"
  BY <1>2 DEF SkipComment, RejectLine
<1>5. ~AtWork'
  BY <1>4 DEF AtWork
<1>6. ScriptType'
  BY <1>2, <1>3, <1>4 DEF ScriptType
<1> QED BY <1>2, <1>4, <1>5, <1>6, QuietKeeps

LEMMA EndKeeps == ASSUME IInv, EndOfScript PROVE IInv'
<1>1. /\ command = NoLine /\ status' = "done"
      /\ UNCHANGED <<which, bookVars, line_no, command, next_ref, totals, ledger>>
  BY DEF EndOfScript
<1>2. ~AtWork /\ ~AtWork'
  BY <1>1 DEF AtWork
<1>3. ScriptType'
  BY <1>1, IInvParts DEF ScriptType
<1> QED BY <1>1, <1>2, <1>3, QuietKeeps

LEMMA StutterKeeps == ASSUME IInv, UNCHANGED vars PROVE IInv'
<1>0. /\ BookType /\ ScriptType /\ TotalsType /\ Once(queue) /\ Uncrossed(queue) /\ Numbered
      /\ InCall /\ Returned /\ Counts /\ Balance
      /\ queue' = queue /\ taker' = taker /\ fills' = fills /\ result' = result
      /\ next_ref' = next_ref /\ totals' = totals /\ ledger' = ledger
      /\ which' = which /\ line_no' = line_no /\ command' = command /\ status' = status
  BY IInvParts DEF vars, bookVars
<1>1. (\A r : Held(r)' = Held(r)) /\ Shares' = Shares /\ Live' = Live
  BY <1>0, SameBook
<1>2. BookType' /\ ScriptType' /\ TotalsType'
  BY <1>0 DEF BookType, ScriptType, TotalsType
<1>3. AtWork' <=> AtWork
  BY <1>0 DEF AtWork
<1>4. Numbered' /\ InCall' /\ Returned'
  BY <1>0, <1>1, <1>3 DEF Numbered, InCall, Returned
<1>5. Counts'
  BY <1>0, <1>1, <1>3 DEF Counts
<1>6. Balance'
  BY <1>0, <1>1, <1>3 DEF Balance, Pending
<1> QED BY <1>0, <1>2, <1>4, <1>5, <1>6, IInvPartsNext

\* An order's line has a quantity, and a price the book may be asked for.
LEMMA OrderLine ==
    ASSUME NEW line \in Line, IsOrder(line)
    PROVE  line.qty \in Int /\ SideOf(line) \in BookSide
<1>1. line.verb \in {"BUY", "SELL"}
  BY DEF IsOrder
<1>2. line \in [verb : {"BUY", "SELL"}, qty : Int, text : Seq(STRING)]
  BY <1>1 DEF Line
<1> QED BY <1>2 DEF SideOf, BookSide

\* An order goes to work, or is refused.
Taken(ref, side, qty, price) ==
    /\ queue' = queue /\ result' = result /\ fills' = <<>>
    /\ taker' = [ref |-> ref, side |-> side, limit_price |-> price, remaining |-> qty]
    /\ price \in Prices

LEMMA SubmitIs ==
    ASSUME IInv, NEW line, SubmitOrder(line)
    PROVE  \/ Refused
           \/ Taken(next_ref', SideOf(line), line.qty, from_string(line.text))
<1> DEFINE limit == from_string(line.text)
           side  == SideOf(line)
<1>1. /\ ReadLine(line) /\ IsOrder(line) /\ IsPrice(line.text)
      /\ \/ which = "map" /\ Map!Arrive(next_ref', side, line.qty, limit)
         \/ which # "map" /\ \/ Array!Arrive(next_ref', side, line.qty, limit)
                             \/ Array!Refuse(next_ref', limit)
  BY DEF SubmitOrder
<1>2. /\ which \in Books /\ line_no + 1 \in 1..kMaxLines /\ line \in Lines(which, line_no + 1)
  BY <1>1, ReadIs
<1> HIDE DEF limit, side
<1>3. which = "map" => limit \in Prices
  BY <1>1, <1>2, LinesAssumption DEF limit
<1>4. Array!Arrive(next_ref', side, line.qty, limit) => limit \in Prices
  BY BooksAssumption DEF Array!Arrive
<1>5. Map!Arrive(next_ref', side, line.qty, limit) /\ limit \in Prices =>
        Taken(next_ref', side, line.qty, limit)
  BY DEF Map!Arrive, Taken
<1> QED BY <1>1, <1>3, <1>4, <1>5, ArriveIsMaps, RefusedIs DEF limit, side

LEMMA SubmitKeeps == ASSUME IInv, NEW line, SubmitOrder(line) PROVE IInv'
<1> DEFINE limit == from_string(line.text)
           side  == SideOf(line)
           qty   == line.qty
           new   == next_ref + 1
<1>0. /\ BookType /\ ScriptType /\ TotalsType /\ Once(queue) /\ Uncrossed(queue) /\ Numbered
      /\ Counts /\ Balance
  BY IInvParts
<1>1. /\ ReadLine(line) /\ IsOrder(line) /\ IsPrice(line.text)
      /\ command' = line /\ next_ref' = new /\ totals' = totals
      /\ which' = which /\ status' = status
      /\ ledger' = [ledger EXCEPT !.asked = @ + qty,
                                  !.away = @ + (IF taker' = None THEN qty ELSE 0)]
  BY DEF SubmitOrder
<1>2. /\ status = "running" /\ command = NoLine /\ ~AtWork /\ taker = None
      /\ line \in Line /\ line_no' \in 0..kMaxLines /\ line_no' = line_no + 1
      /\ new \in Refs /\ new <= line_no' /\ Held(new) = 0 /\ totals.submitted = next_ref
  BY <1>1, ReadIs
<1>3. qty \in Int /\ side \in BookSide
  BY <1>1, <1>2, OrderLine
<1>4. /\ next_ref \in Nat /\ Cardinality(Live) \in Nat /\ Shares \in Int
      /\ totals.cancelled \in Nat /\ totals.volume \in Int
      /\ ledger.asked \in Int /\ ledger.cancelled \in Int /\ ledger.away \in Int
      /\ queue \in Queues /\ result \in Int
  BY Numbers
<1>5. command' # NoLine
  <2>1. line.verb # NoLine.verb
    BY <1>1 DEF IsOrder, NoLine
  <2> QED BY <1>1, <2>1
<1>6. Refused \/ Taken(new, side, qty, limit)
  BY <1>1, SubmitIs
<1> HIDE DEF limit, side, qty, new
<1>7. /\ queue' = queue /\ fills' = <<>> /\ result' \in Int
      /\ \/ taker' = None /\ result' = 0
         \/ /\ taker' = [ref |-> new, side |-> side, limit_price |-> limit, remaining |-> qty]
            /\ limit \in Prices
  BY <1>2, <1>4, <1>6 DEF Refused, Taken
<1>8. taker' = None => result' = 0
  BY <1>7, <1>3, <1>2, NoneAssumption, SameWords DEF Map!Taker
<1>9. taker' # None => taker' \in Map!Taker /\ taker'.ref = new /\ taker'.remaining = qty
  BY <1>7, <1>3, <1>2, SameWords DEF Map!Taker
<1>10. (\A r : Held(r)' = Held(r)) /\ Shares' = Shares /\ Live' = Live
  BY <1>7, SameBook
<1>11. AtWork'
  BY <1>1, <1>2, <1>5 DEF AtWork
<1>12. <<>> \in Seq(Map!Fill) /\ Volume(<<>>) = 0
  BY VolumeEmpty
<1>13. BookType'
  BY <1>4, <1>7, <1>9, <1>12 DEF BookType
<1>14. ScriptType'
  <2>1. line_no' \in Nat /\ next_ref' \in 0..line_no'
    BY <1>1, <1>2, <1>4, BoundsAssumption DEF new
  <2> QED BY <2>1, <1>0, <1>1, <1>2 DEF ScriptType
<1>15. TotalsType'
  <2>1. totals'.submitted <= next_ref'
    BY <1>1, <1>2, <1>4 DEF new
  <2>2. /\ ledger' \in [asked : Int, cancelled : Int, away : Int]
    <3> DEFINE off == IF taker' = None THEN qty ELSE 0
    <3>1. off \in Int
      BY <1>3
    <3>2. ledger' = [ledger EXCEPT !.asked = @ + qty, !.away = @ + off]
      BY <1>1 DEF qty
    <3> HIDE DEF off
    <3>3. ledger \in [asked : Int, cancelled : Int, away : Int]
      BY <1>0 DEF TotalsType
    <3>4. ledger.asked + qty \in Int /\ ledger.cancelled \in Int /\ ledger.away + off \in Int
      BY <3>1, <1>3, <1>4
    <3>5. ledger' = [asked |-> ledger.asked + qty, cancelled |-> ledger.cancelled,
                     away |-> ledger.away + off]
      BY <3>2, <3>3
    <3> QED BY ONLY <3>4, <3>5
  <2> QED BY <2>1, <2>2, <1>0, <1>1 DEF TotalsType
<1>16. Numbered'
  <2> SUFFICES ASSUME NEW r \in Refs, Held(r)' # 0 PROVE r <= next_ref'
    BY DEF Numbered
  <2>1. r <= next_ref /\ r \in Int
    BY <1>0, <1>10, BoundsAssumption DEF Numbered, Refs
  <2> QED BY <2>1, <1>1, <1>4 DEF new
<1>17. InCall'
  BY <1>1, <1>3, <1>7, <1>9, <1>10, <1>11, <1>12, <1>2 DEF InCall, qty, new
<1>18. Returned'
  BY <1>1, <1>2, <1>7, <1>8, <1>10 DEF Returned, new
<1>19. Counts'
  <2>1. /\ totals.cancelled + Cardinality(Live) <= next_ref
    BY <1>0, <1>2, <1>4 DEF Counts
  <2> QED BY <2>1, <1>1, <1>2, <1>4, <1>10, <1>11 DEF Counts, new
<1>20. Balance'
  <2>1. ledger.asked = 2 * totals.volume + Shares + ledger.cancelled + ledger.away
    BY <1>0, <1>2, <1>4 DEF Balance, Pending
  <2>2. /\ ledger'.asked = ledger.asked + qty /\ ledger'.cancelled = ledger.cancelled
        /\ ledger'.away = ledger.away + (IF taker' = None THEN qty ELSE 0)
    BY <1>0, <1>1 DEF TotalsType, qty
  <2>3. Pending' = IF taker' = None THEN 0 ELSE qty
    BY <1>3, <1>7, <1>9, <1>11, <1>12 DEF Pending
  <2> QED BY <2>1, <2>2, <2>3, <1>1, <1>3, <1>4, <1>10 DEF Balance
<1> QED BY <1>0, <1>7, <1>13, <1>14, <1>15, <1>16, <1>17, <1>18, <1>19, <1>20, IInvPartsNext

\* A step of the book is a step of the map's, or a refusal of the pool's.
LEMMA MatchingIs ==
    ASSUME Matching
    PROVE  /\ Map!Trade \/ Map!Rest \/ Map!Done \/ Dropped
           /\ ledger' = IF taker' = None /\ queue' = queue
                        THEN [ledger EXCEPT !.away = @ + taker.remaining] ELSE ledger
           /\ UNCHANGED <<which, line_no, command, next_ref, totals, status>>
<1>1. Map!Trade \/ Map!Rest \/ Map!Done \/ Dropped
  BY TradeIsMaps, RestIsMaps, DoneIsMaps, DroppedIs DEF Matching, Pooled!Working
<1> QED BY <1>1 DEF Matching

\* What a step of the call leaves as it was.
LEMMA WorkIs ==
    ASSUME IInv, Matching, taker # None
    PROVE  /\ BookType /\ Once(queue) /\ Uncrossed(queue) /\ Numbered /\ Counts /\ Balance
           /\ Returned /\ InCall /\ TotalsType
           /\ AtWork /\ AtWork' /\ ScriptType' /\ IsOrder(command) /\ IsPrice(command.text)
           /\ command' = command /\ next_ref' = next_ref /\ totals' = totals
           /\ taker.ref = next_ref /\ next_ref \in Refs /\ Held(next_ref) = 0
           /\ taker.remaining = command.qty - Volume(fills)
           /\ fills # <<>> => command.qty > 0
           /\ taker \in Map!Taker /\ taker.remaining \in Int /\ command.qty \in Int
           /\ totals.submitted + 1 = next_ref
           /\ totals.cancelled + Cardinality(Live) <= totals.submitted
           /\ ledger.asked = 2 * totals.volume + Shares + ledger.cancelled + ledger.away
                                + 2 * Volume(fills) + taker.remaining
<1>0. /\ BookType /\ Once(queue) /\ Uncrossed(queue) /\ Numbered /\ Counts /\ Balance
      /\ Returned /\ InCall /\ ScriptType /\ TotalsType
  BY IInvParts
<1>1. UNCHANGED <<which, line_no, command, next_ref, totals, status>>
  BY MatchingIs
<1>2. /\ AtWork /\ IsOrder(command) /\ IsPrice(command.text)
      /\ taker.ref = next_ref /\ Held(next_ref) = 0
      /\ taker.remaining = command.qty - Volume(fills)
      /\ fills # <<>> => command.qty > 0
  BY <1>0 DEF InCall
<1>3. AtWork' /\ ScriptType'
  BY <1>0, <1>1, <1>2 DEF AtWork, ScriptType
<1>4. taker \in Map!Taker /\ taker.remaining \in Int /\ taker.ref \in Refs
  BY Numbers
<1>5. command.qty \in Int
  <2>1. command \in Line
    BY <1>0, <1>2 DEF ScriptType, AtWork
  <2> QED BY <2>1, <1>2, OrderLine
<1>6. /\ totals.submitted \in Nat /\ totals.cancelled \in Nat /\ Cardinality(Live) \in Nat
      /\ totals.volume \in Int /\ Volume(fills) \in Int /\ Shares \in Int
      /\ ledger.cancelled \in Int /\ ledger.away \in Int
  BY Numbers
<1>7. /\ totals.submitted + 1 = next_ref
      /\ totals.cancelled + Cardinality(Live) + 1 <= totals.submitted + 1
  BY <1>0, <1>2 DEF Counts
<1>8. ledger.asked = 2 * totals.volume + Shares + ledger.cancelled + ledger.away
                        + (2 * Volume(fills) + taker.remaining)
  BY <1>0, <1>2 DEF Balance, Pending
<1>9. ledger.asked = 2 * totals.volume + Shares + ledger.cancelled + ledger.away
                        + 2 * Volume(fills) + taker.remaining
  BY <1>8, <1>4, <1>6
<1>10. totals.cancelled + Cardinality(Live) <= totals.submitted
  BY <1>7, <1>6
<1> QED BY <1>0, <1>1, <1>2, <1>3, <1>4, <1>5, <1>7, <1>9, <1>10

LEMMA TradeKeeps == ASSUME IInv, Matching, Map!Trade PROVE IInv'
<1>1. taker # None
  BY DEF Map!Trade
<1>2. /\ BookType /\ Once(queue) /\ Uncrossed(queue) /\ Numbered /\ TotalsType
      /\ AtWork' /\ ScriptType' /\ IsOrder(command) /\ IsPrice(command.text)
      /\ command' = command /\ next_ref' = next_ref /\ totals' = totals
      /\ taker.ref = next_ref /\ next_ref \in Refs /\ Held(next_ref) = 0
      /\ taker.remaining = command.qty - Volume(fills)
      /\ fills # <<>> => command.qty > 0
      /\ taker.remaining \in Int /\ command.qty \in Int
      /\ totals.submitted + 1 = next_ref
      /\ totals.cancelled + Cardinality(Live) <= totals.submitted
      /\ ledger.asked = 2 * totals.volume + Shares + ledger.cancelled + ledger.away
                           + 2 * Volume(fills) + taker.remaining
  BY <1>1, WorkIs
<1>3. queue \in Queues /\ result \in Int /\ fills \in Seq(Map!Fill)
  BY <1>2 DEF BookType
<1>4. Map!TypeOK
  BY <1>2, TypeIs DEF BookType
<1>5. PICK from, p, qty, list : Traded(from, p, qty, list)
  BY <1>4, TradeEffect
<1> DEFINE r0 == queue[from][p][1].resting
<1>6. /\ HeldIn(queue, r0) # 0
      /\ Sets(queue, queue', r0, HeldIn(queue, r0) - qty)
  BY <1>2, <1>3, <1>5, TradeSets
<1> HIDE DEF r0
<1>7. /\ qty \in Int /\ taker.remaining > 0
      /\ taker' \in Map!Taker /\ taker'.ref = taker.ref
      /\ taker'.remaining = taker.remaining - qty /\ taker'.remaining >= 0
      /\ fills' \in Seq(Map!Fill) /\ fills' # <<>> /\ Volume(fills') = Volume(fills) + qty
      /\ result' = result
  BY <1>5 DEF Traded
<1>8. taker' # None
  BY <1>7, NoneAssumption, SameWords DEF Map!Taker
<1>9. /\ queue' \in Queues /\ Once(queue') /\ Uncrossed(queue')
      /\ r0 \in Refs /\ HeldIn(queue, r0) - qty \in Int
      /\ HeldIn(queue', r0) = HeldIn(queue, r0) - qty
      /\ \A r : r # r0 => HeldIn(queue', r) = HeldIn(queue, r)
  BY <1>6 DEF Sets
<1>10. ledger' = ledger
  BY <1>8, MatchingIs
<1>11. /\ totals.submitted \in Nat /\ totals.cancelled \in Nat /\ Cardinality(Live) \in Nat
       /\ totals.volume \in Int /\ Volume(fills) \in Int /\ Shares \in Int
       /\ ledger.cancelled \in Int /\ ledger.away \in Int
  BY Numbers
<1>12. next_ref # r0
  BY <1>2, <1>6, HeldIs
<1>13. Held(next_ref)' = 0
  BY <1>2, <1>9, <1>12, HeldIs, HeldIsNext
<1>14. BookType'
  BY <1>3, <1>7, <1>8, <1>9 DEF BookType
<1>15. TotalsType'
  BY <1>2, <1>10 DEF TotalsType
<1>16. Numbered'
  <2> SUFFICES ASSUME NEW r \in Refs, Held(r)' # 0 PROVE r <= next_ref'
    BY DEF Numbered
  <2>1. Held(r) # 0
    BY <1>6, <1>9, HeldIs, HeldIsNext
  <2> QED BY <2>1, <1>2 DEF Numbered
<1>17. InCall'
  <2>3. /\ taker.remaining = command.qty - Volume(fills) /\ taker.remaining > 0
        /\ taker.remaining \in Int /\ command.qty \in Int /\ Volume(fills) \in Int /\ qty \in Int
        /\ taker'.remaining = taker.remaining - qty /\ Volume(fills') = Volume(fills) + qty
    BY <1>2, <1>7, <1>11
  <2>1. command.qty > 0
    <3>1. CASE fills = <<>>
      <4>1. Volume(fills) = 0
        BY <3>1, VolumeEmpty
      <4> QED BY ONLY <4>1, <2>3
    <3> QED BY <3>1, <1>2
  <2>2. taker'.remaining = command'.qty - Volume(fills')
    <3>1. taker'.remaining = command.qty - Volume(fills')
      BY ONLY <2>3
    <3> QED BY <3>1, <1>2
  <2> QED BY <2>1, <2>2, <1>2, <1>7, <1>13 DEF InCall
<1>18. Returned'
  BY <1>8 DEF Returned
<1>19. Counts'
  <2>1. Cardinality(Live') <= Cardinality(Live)
    <3>1. \/ Cardinality(LiveIn(queue')) = Cardinality(LiveIn(queue))
          \/ Cardinality(LiveIn(queue')) = Cardinality(LiveIn(queue)) - 1
      BY <1>2, <1>3, <1>6, LiveSets
    <3> QED BY <3>1, <1>11, InTheBook
  <2>2. Cardinality(Live') \in Nat
    BY LiveFinite, InTheBook
  <2>3. totals.cancelled + Cardinality(Live') + 1 <= totals.submitted + 1
    <3>1. totals.cancelled + Cardinality(Live) <= totals.submitted
      BY <1>2
    <3>2. /\ totals.submitted \in Nat /\ totals.cancelled \in Nat
          /\ Cardinality(Live) \in Nat
      BY <1>11
    <3> QED BY ONLY <2>1, <2>2, <3>1, <3>2
  <2> QED BY <2>3, <1>2, <1>8 DEF Counts
<1>20. Balance'
  <2>1. SumIn(queue') = SumIn(queue) - HeldIn(queue, r0) + (HeldIn(queue, r0) - qty)
    BY <1>2, <1>3, <1>6, SumSets
  <2>2. HeldIn(queue, r0) \in Int
    BY <1>2, <1>3, HeldType
  <2>3. Shares' = Shares - qty
    BY <2>1, <2>2, <1>7, <1>11, InTheBook
  <2>4. Pending' = 2 * (Volume(fills) + qty) + (taker.remaining - qty)
    BY <1>2, <1>7, <1>8 DEF Pending
  <2>5. /\ ledger.asked = 2 * totals.volume + Shares + ledger.cancelled + ledger.away
                              + 2 * Volume(fills) + taker.remaining
        /\ taker.remaining \in Int /\ qty \in Int
    BY <1>2, <1>7
  <2>6. ledger.asked = 2 * totals.volume + Shares' + ledger.cancelled + ledger.away + Pending'
    BY ONLY <2>3, <2>4, <2>5, <1>11
  <2> QED BY <2>6, <1>2, <1>10 DEF Balance
<1> QED BY <1>2, <1>9, <1>14, <1>15, <1>16, <1>17, <1>18, <1>19, <1>20, IInvPartsNext

LEMMA RestKeeps == ASSUME IInv, Matching, Map!Rest PROVE IInv'
<1>1. taker # None
  BY DEF Map!Rest
<1>2. /\ BookType /\ Once(queue) /\ Uncrossed(queue) /\ Numbered /\ TotalsType
      /\ AtWork' /\ ScriptType' /\ IsOrder(command) /\ IsPrice(command.text)
      /\ command' = command /\ next_ref' = next_ref /\ totals' = totals
      /\ taker.ref = next_ref /\ next_ref \in Refs /\ Held(next_ref) = 0
      /\ taker.remaining = command.qty - Volume(fills)
      /\ fills # <<>> => command.qty > 0
      /\ taker.remaining \in Int /\ command.qty \in Int
      /\ totals.submitted + 1 = next_ref
      /\ totals.cancelled + Cardinality(Live) <= totals.submitted
      /\ ledger.asked = 2 * totals.volume + Shares + ledger.cancelled + ledger.away
                           + 2 * Volume(fills) + taker.remaining
  BY <1>1, WorkIs
<1>3. /\ queue \in Queues /\ result \in Int /\ fills \in Seq(Map!Fill)
      /\ taker.remaining >= 0 \/ fills = <<>>
  BY <1>1, <1>2 DEF BookType
<1>4. Map!TypeOK
  BY <1>2, TypeIs DEF BookType
<1>5. HeldIn(queue, next_ref) = 0 /\ \A r \in Refs : HeldIn(queue, r) # 0 => r <= next_ref
  BY <1>2, HeldIs DEF Numbered
<1>6. /\ Sets(queue, queue', next_ref, taker.remaining)
      /\ taker.remaining # 0 /\ result' = taker.remaining
      /\ taker' = None /\ fills' = fills
  BY <1>2, <1>4, <1>5, RestSets
<1>7. /\ queue' \in Queues /\ Once(queue') /\ Uncrossed(queue')
      /\ HeldIn(queue', next_ref) = taker.remaining
      /\ \A r : r # next_ref => HeldIn(queue', r) = HeldIn(queue, r)
  BY <1>6 DEF Sets
<1>8. ledger' = ledger
  <2>1. queue' # queue
    BY <1>5, <1>6, <1>7
  <2> QED BY <2>1, MatchingIs
<1>9. /\ totals.submitted \in Nat /\ totals.cancelled \in Nat /\ Cardinality(Live) \in Nat
      /\ totals.volume \in Int /\ Volume(fills) \in Int /\ Shares \in Int
      /\ ledger.cancelled \in Int /\ ledger.away \in Int
  BY Numbers
<1>10. Held(next_ref)' = taker.remaining
  BY <1>2, <1>7, HeldIsNext
<1>11. BookType'
  BY <1>2, <1>3, <1>6, <1>7 DEF BookType
<1>12. TotalsType'
  BY <1>2, <1>8 DEF TotalsType
<1>13. Numbered'
  <2> SUFFICES ASSUME NEW r \in Refs, Held(r)' # 0 PROVE r <= next_ref'
    BY DEF Numbered
  <2>1. CASE r = next_ref
    <3>1. next_ref \in Nat
      BY Numbers
    <3> QED BY <2>1, <3>1, <1>2
  <2>2. CASE r # next_ref
    <3>1. Held(r) # 0
      BY <2>2, <1>7, HeldIs, HeldIsNext
    <3> QED BY <3>1, <1>2 DEF Numbered
  <2> QED BY <2>1, <2>2
<1>14. InCall'
  BY <1>2, <1>6 DEF InCall
<1>15. Returned'
  <2>1. fills # <<>> => taker.remaining > 0
    BY <1>2, <1>3, <1>6
  <2> QED BY <2>1, <1>2, <1>6, <1>10 DEF Returned
<1>16. Counts'
  <2>1. Cardinality(Live') = Cardinality(Live) + 1
    <3>1. Cardinality(LiveIn(queue')) = Cardinality(LiveIn(queue)) + 1
      BY <1>2, <1>3, <1>5, <1>6, LiveSets
    <3> QED BY <3>1, InTheBook
  <2>3. totals.cancelled + Cardinality(Live) <= totals.submitted
    BY <1>2
  <2>2. totals.cancelled + Cardinality(Live') + 0 <= totals.submitted + 1
    BY ONLY <2>1, <2>3, <1>9
  <2> QED BY <2>2, <1>2, <1>6 DEF Counts
<1>17. Balance'
  <2>1. SumIn(queue') = SumIn(queue) - HeldIn(queue, next_ref) + taker.remaining
    BY <1>2, <1>3, <1>6, SumSets
  <2>2. Shares' = Shares + taker.remaining
    <3>1. /\ SumIn(queue') = Shares' /\ SumIn(queue) = Shares
          /\ HeldIn(queue, next_ref) = 0
      BY <1>5, InTheBook
    <3>2. taker.remaining \in Int /\ Shares \in Int
      BY <1>2, <1>9
    <3> QED BY ONLY <2>1, <3>1, <3>2
  <2>3. Pending' = 2 * Volume(fills) + 0
    BY <1>2, <1>6 DEF Pending
  <2>4. /\ ledger.asked = 2 * totals.volume + Shares + ledger.cancelled + ledger.away
                              + 2 * Volume(fills) + taker.remaining
        /\ taker.remaining \in Int
    BY <1>2
  <2>5. ledger.asked = 2 * totals.volume + Shares' + ledger.cancelled + ledger.away + Pending'
    BY ONLY <2>2, <2>3, <2>4, <1>9
  <2> QED BY <2>5, <1>2, <1>8 DEF Balance
<1> QED BY <1>2, <1>7, <1>11, <1>12, <1>13, <1>14, <1>15, <1>16, <1>17, IInvPartsNext

\* Nothing is left of the order, or it is turned away.
LEMMA LeaveKeeps == ASSUME IInv, Matching, Map!Done \/ Dropped PROVE IInv'
<1>1. /\ taker # None /\ taker' = None /\ queue' = queue /\ fills' = fills /\ result' = 0
      /\ taker.remaining = 0 \/ fills = <<>>
  BY DEF Map!Done, Dropped
<1>2. /\ BookType /\ Once(queue) /\ Uncrossed(queue) /\ Numbered /\ TotalsType
      /\ AtWork' /\ ScriptType' /\ IsOrder(command) /\ IsPrice(command.text)
      /\ command' = command /\ next_ref' = next_ref /\ totals' = totals
      /\ taker.ref = next_ref /\ next_ref \in Refs /\ Held(next_ref) = 0
      /\ taker.remaining = command.qty - Volume(fills)
      /\ fills # <<>> => command.qty > 0
      /\ taker.remaining \in Int /\ command.qty \in Int
      /\ totals.submitted + 1 = next_ref
      /\ totals.cancelled + Cardinality(Live) <= totals.submitted
      /\ ledger.asked = 2 * totals.volume + Shares + ledger.cancelled + ledger.away
                           + 2 * Volume(fills) + taker.remaining
  BY <1>1, WorkIs
<1>3. ledger' = [ledger EXCEPT !.away = @ + taker.remaining]
  BY <1>1, MatchingIs
<1>4. /\ ledger \in [asked : Int, cancelled : Int, away : Int]
      /\ ledger'.asked = ledger.asked /\ ledger'.cancelled = ledger.cancelled
      /\ ledger'.away = ledger.away + taker.remaining
  BY <1>2, <1>3 DEF TotalsType
<1>5. /\ totals.submitted \in Nat /\ totals.cancelled \in Nat /\ Cardinality(Live) \in Nat
      /\ totals.volume \in Int /\ Volume(fills) \in Int /\ Shares \in Int
      /\ ledger.cancelled \in Int /\ ledger.away \in Int
  BY Numbers
<1>6. (\A r : Held(r)' = Held(r)) /\ Shares' = Shares /\ Live' = Live
  BY <1>1, SameBook
<1>7. BookType'
  BY <1>1, <1>2 DEF BookType
<1>8. TotalsType'
  <2>3. taker.remaining \in Int
    BY <1>2
  <2>1. ledger.away + taker.remaining \in Int
    BY ONLY <2>3, <1>5
  <2>2. ledger' \in [asked : Int, cancelled : Int, away : Int]
    BY <2>1, <1>3, <1>4
  <2> QED BY <2>2, <1>2 DEF TotalsType
<1>9. Numbered'
  BY <1>2, <1>6 DEF Numbered
<1>10. InCall'
  BY <1>1, <1>2 DEF InCall
<1>11. Returned'
  <2>3. /\ taker.remaining = command.qty - Volume(fills)
        /\ fills # <<>> => command.qty > 0
        /\ taker.remaining \in Int /\ command.qty \in Int
    BY <1>2
  <2>1. fills # <<>> => Volume(fills) = command.qty /\ command.qty > 0
    BY ONLY <2>3, <1>1, <1>5
  <2>2. Held(next_ref)' = 0
    BY <1>2, <1>6
  <2> QED BY <2>1, <2>2, <1>1, <1>2 DEF Returned
<1>12. Counts'
  BY <1>1, <1>2, <1>5, <1>6 DEF Counts
<1>13. Balance'
  <2>2. Pending' = 2 * Volume(fills) + 0
    BY <1>1, <1>2 DEF Pending
  <2>4. /\ ledger.asked = 2 * totals.volume + Shares + ledger.cancelled + ledger.away
                              + 2 * Volume(fills) + taker.remaining
        /\ taker.remaining \in Int
    BY <1>2
  <2>5. ledger.asked = 2 * totals.volume + Shares + ledger.cancelled
                          + (ledger.away + taker.remaining) + Pending'
    BY ONLY <2>2, <2>4, <1>5
  <2> QED BY <2>5, <1>2, <1>4, <1>6 DEF Balance
<1> QED BY <1>1, <1>2, <1>7, <1>8, <1>9, <1>10, <1>11, <1>12, <1>13, IInvPartsNext

LEMMA ReportKeeps == ASSUME IInv, ReportOrder PROVE IInv'
<1>0. /\ BookType /\ ScriptType /\ TotalsType /\ Once(queue) /\ Uncrossed(queue) /\ Numbered
      /\ Counts /\ Balance
  BY IInvParts
<1>1. /\ status = "running" /\ command # NoLine /\ taker = None
      /\ totals' = Counted(fills) /\ command' = NoLine
      /\ queue' = queue /\ taker' = taker /\ fills' = fills /\ result' = result
      /\ UNCHANGED <<which, line_no, next_ref, status, ledger>>
  BY DEF ReportOrder, bookVars
<1>2. AtWork /\ ~AtWork'
  BY <1>1 DEF AtWork
<1>3. /\ totals.submitted \in Nat /\ totals.cancelled \in Nat /\ totals.fills \in Nat
      /\ totals.volume \in Int /\ Volume(fills) \in Int /\ Shares \in Int
      /\ Cardinality(Live) \in Nat /\ next_ref \in Nat
      /\ ledger.cancelled \in Int /\ ledger.away \in Int
  BY Numbers
<1>4. Len(fills) \in Nat
  BY <1>0, LenProperties DEF BookType
<1>5. totals' = [submitted |-> totals.submitted + 1, cancelled |-> totals.cancelled,
                 fills |-> totals.fills + Len(fills), volume |-> totals.volume + Volume(fills)]
  <2>1. totals \in [submitted : Nat, cancelled : Nat, fills : Nat, volume : Int]
    BY <1>0 DEF TotalsType
  <2> QED BY <2>1, <1>1 DEF Counted
<1>6. /\ totals.submitted + 1 = next_ref
      /\ totals.cancelled + Cardinality(Live) + 0 <= totals.submitted + 1
  BY <1>0, <1>1, <1>2 DEF Counts
<1>7. (\A r : Held(r)' = Held(r)) /\ Shares' = Shares /\ Live' = Live
  BY <1>1, SameBook
<1>8. BookType' /\ ScriptType' /\ Numbered'
  <2>1. BookType'
    BY <1>0, <1>1 DEF BookType
  <2>2. ScriptType'
    BY <1>0, <1>1 DEF ScriptType
  <2>3. Numbered'
    BY <1>0, <1>1, <1>7 DEF Numbered
  <2> QED BY <2>1, <2>2, <2>3
<1>9. TotalsType'
  <2>4. totals.fills + Len(fills) \in Nat
    BY ONLY <1>3, <1>4
  <2>5. totals.submitted + 1 \in Nat /\ totals.volume + Volume(fills) \in Int
    BY ONLY <1>3
  <2>6. totals.cancelled <= totals.submitted + 1 /\ totals.submitted + 1 <= next_ref
    BY ONLY <1>3, <1>6
  <2>1. /\ totals.submitted + 1 \in Nat /\ totals.fills + Len(fills) \in Nat
        /\ totals.volume + Volume(fills) \in Int
        /\ totals.cancelled <= totals.submitted + 1 /\ totals.submitted + 1 <= next_ref
    BY <2>4, <2>5, <2>6
  <2>2. totals' \in [submitted : Nat, cancelled : Nat, fills : Nat, volume : Int]
    BY <2>1, <1>3, <1>5
  <2>3. totals'.cancelled <= totals'.submitted /\ totals'.submitted <= next_ref'
    BY <2>1, <1>1, <1>5
  <2> QED BY <2>2, <2>3, <1>0, <1>1 DEF TotalsType
<1>10. InCall' /\ Returned'
  BY <1>1, <1>2 DEF InCall, Returned
<1>11. Counts'
  <2>1. /\ totals'.submitted = totals.submitted + 1 /\ totals'.cancelled = totals.cancelled
        /\ next_ref' = next_ref /\ Cardinality(Live') = Cardinality(Live)
    BY <1>1, <1>5, <1>7
  <2>2. /\ totals'.submitted + 0 = next_ref'
        /\ totals'.cancelled + Cardinality(Live') + 0 <= totals'.submitted + 0
    BY ONLY <2>1, <1>3, <1>6
  <2> QED BY <2>2, <1>1, <1>2 DEF Counts
<1>12. Balance'
  <2>5. Pending = 2 * Volume(fills) + 0
    BY <1>1, <1>2 DEF Pending
  <2>6. ledger.asked = 2 * totals.volume + Shares + ledger.cancelled + ledger.away + Pending
    BY <1>0 DEF Balance
  <2>1. ledger.asked = 2 * totals.volume + Shares + ledger.cancelled + ledger.away
                          + (2 * Volume(fills) + 0)
    BY ONLY <2>5, <2>6
  <2>2. totals'.volume = totals.volume + Volume(fills)
    BY <1>5
  <2>3. ledger.asked = 2 * totals'.volume + Shares + ledger.cancelled + ledger.away + 0
    BY ONLY <2>1, <2>2, <1>3
  <2>4. Pending' = 0
    BY <1>2 DEF Pending
  <2> QED BY <2>3, <2>4, <1>1, <1>7 DEF Balance
<1> QED BY <1>0, <1>1, <1>8, <1>9, <1>10, <1>11, <1>12, IInvPartsNext

LEMMA CancelKeeps == ASSUME IInv, NEW line, CancelOrder(line) PROVE IInv'
<1> DEFINE ref == line.ref
           one == IF result' > 0 THEN 1 ELSE 0
<1>0. /\ BookType /\ ScriptType /\ TotalsType /\ Once(queue) /\ Uncrossed(queue) /\ Numbered
      /\ Counts /\ Balance
  BY IInvParts
<1>1. /\ ReadLine(line)
      /\ Map!Cancel(ref) \/ Map!CancelUnknown(ref)
      /\ totals' = [totals EXCEPT !.cancelled = @ + one]
      /\ ledger' = [ledger EXCEPT !.cancelled = @ + result']
      /\ UNCHANGED <<which, command, next_ref, status>>
  BY DEF CancelOrder
<1>2. /\ command = NoLine /\ ~AtWork /\ taker = None
      /\ line_no' \in 0..kMaxLines /\ line_no' = line_no + 1 /\ totals.submitted = next_ref
  BY <1>1, ReadIs
<1>3. /\ totals.submitted \in Nat /\ totals.cancelled \in Nat /\ totals.fills \in Nat
      /\ totals.volume \in Int /\ Shares \in Int
      /\ Cardinality(Live) \in Nat /\ next_ref \in Nat /\ line_no \in Nat /\ next_ref <= line_no
      /\ ledger.asked \in Int /\ ledger.cancelled \in Int /\ ledger.away \in Int
      /\ queue \in Queues /\ fills \in Seq(Map!Fill)
  BY <1>0, Numbers DEF BookType
<1> HIDE DEF ref, one
<1>4. /\ taker' = None /\ fills' = fills /\ result' \in Int
      /\ queue' \in Queues /\ Once(queue') /\ Uncrossed(queue')
      /\ \A r : HeldIn(queue', r) = HeldIn(queue, r) \/ HeldIn(queue', r) = 0
      /\ SumIn(queue') = SumIn(queue) - result'
      /\ Cardinality(LiveIn(queue')) = Cardinality(LiveIn(queue)) - (IF result' = 0 THEN 0 ELSE 1)
  <2>1. CASE Map!Cancel(ref)
    <3>1. /\ Sets(queue, queue', ref, 0)
          /\ HeldIn(queue, ref) # 0 /\ result' = HeldIn(queue, ref)
          /\ taker' = taker /\ fills' = fills
      BY <2>1, <1>0, <1>3, CancelSets
    <3>2. /\ queue' \in Queues /\ Once(queue') /\ Uncrossed(queue')
          /\ HeldIn(queue', ref) = 0 /\ \A r : r # ref => HeldIn(queue', r) = HeldIn(queue, r)
      BY <3>1 DEF Sets
    <3>3. HeldIn(queue, ref) \in Int
      BY <1>0, <1>3, HeldType
    <3>4. SumIn(queue') = SumIn(queue) - HeldIn(queue, ref) + 0
      BY <1>0, <1>3, <3>1, SumSets
    <3>5. Cardinality(LiveIn(queue')) = Cardinality(LiveIn(queue)) - 1
      BY <1>0, <1>3, <3>1, LiveSets
    <3>6. SumIn(queue') = SumIn(queue) - result'
      BY <3>1, <3>3, <3>4, <1>3, InTheBook
    <3> QED BY <3>1, <3>2, <3>3, <3>5, <3>6, <1>2
  <2>2. CASE Map!CancelUnknown(ref)
    <3>1. result' = 0 /\ queue' = queue /\ taker' = taker /\ fills' = fills
      BY <2>2 DEF Map!CancelUnknown
    <3>2. SumIn(queue') = SumIn(queue) - result'
      BY <3>1, <1>3, InTheBook
    <3>3. Cardinality(LiveIn(queue')) = Cardinality(LiveIn(queue)) - 0
      BY <3>1, <1>3, InTheBook
    <3> QED BY <3>1, <3>2, <3>3, <1>0, <1>2, <1>3
  <2> QED BY <1>1, <2>1, <2>2
<1>5. /\ Shares' = Shares - result'
      /\ Cardinality(Live') = Cardinality(Live) - (IF result' = 0 THEN 0 ELSE 1)
      /\ \A r : Held(r)' = Held(r) \/ Held(r)' = 0
  BY <1>4, InTheBook, HeldIs, HeldIsNext
<1>6. ~AtWork'
  BY <1>1, <1>2 DEF AtWork
<1>7. totals.cancelled + Cardinality(Live) + 0 <= totals.submitted + 0
  BY <1>0, <1>2 DEF Counts
<1>8. one \in Nat /\ one <= (IF result' = 0 THEN 0 ELSE 1)
  BY <1>4 DEF one
<1>9. Cardinality(Live') \in Nat
  BY InTheBook, LiveFinite
<1>10. totals.cancelled + one + Cardinality(Live') <= totals.submitted
  BY ONLY <1>3, <1>4, <1>5, <1>7, <1>8
<1>11. totals' = [submitted |-> totals.submitted, cancelled |-> totals.cancelled + one,
                  fills |-> totals.fills, volume |-> totals.volume]
  <2>1. totals \in [submitted : Nat, cancelled : Nat, fills : Nat, volume : Int]
    BY <1>0 DEF TotalsType
  <2> QED BY <2>1, <1>1
<1>12. ledger' = [asked |-> ledger.asked, cancelled |-> ledger.cancelled + result',
                  away |-> ledger.away]
  <2>1. ledger \in [asked : Int, cancelled : Int, away : Int]
    BY <1>0 DEF TotalsType
  <2> QED BY <2>1, <1>1
<1>13. BookType'
  BY <1>3, <1>4 DEF BookType
<1>14. ScriptType'
  <2>1. next_ref \in 0..(line_no + 1)
    BY <1>3
  <2> QED BY <2>1, <1>0, <1>1, <1>2 DEF ScriptType
<1>15. TotalsType'
  <2>1. /\ totals.cancelled + one \in Nat /\ totals.cancelled + one <= totals.submitted
        /\ ledger.cancelled + result' \in Int
    <3>1. one \in Nat /\ result' \in Int
      BY <1>4, <1>8
    <3>2. totals.cancelled + one \in Nat
      BY ONLY <3>1, <1>3
    <3>3. ledger.cancelled + result' \in Int
      BY ONLY <3>1, <1>3
    <3>4. totals.cancelled + one <= totals.submitted
      BY ONLY <3>1, <1>3, <1>9, <1>10
    <3> QED BY <3>2, <3>3, <3>4
  <2>2. /\ totals' \in [submitted : Nat, cancelled : Nat, fills : Nat, volume : Int]
        /\ ledger' \in [asked : Int, cancelled : Int, away : Int]
    BY <2>1, <1>3, <1>11, <1>12
  <2>3. totals'.cancelled <= totals'.submitted /\ totals'.submitted <= next_ref'
    BY <2>1, <1>1, <1>2, <1>3, <1>11
  <2> QED BY <2>2, <2>3 DEF TotalsType
<1>16. Numbered'
  BY <1>0, <1>1, <1>5 DEF Numbered
<1>17. InCall' /\ Returned'
  BY <1>4, <1>6 DEF InCall, Returned
<1>18. Counts'
  <2>1. totals'.submitted + 0 = next_ref'
    BY <1>1, <1>2, <1>3, <1>11
  <2>2. totals'.cancelled + Cardinality(Live') + 0 <= totals'.submitted + 0
    <3>1. totals'.submitted = totals.submitted /\ totals'.cancelled = totals.cancelled + one
      BY <1>11
    <3>2. totals.cancelled \in Nat /\ totals.submitted \in Nat /\ one \in Nat
      BY <1>3, <1>8
    <3>3. totals.cancelled + one + Cardinality(Live') + 0 <= totals.submitted + 0
      BY ONLY <3>2, <1>9, <1>10
    <3> QED BY <3>1, <3>3
  <2> QED BY <2>1, <2>2, <1>4, <1>6 DEF Counts
<1>19. Balance'
  <2>1. ledger.asked = 2 * totals.volume + Shares + ledger.cancelled + ledger.away + 0
    <3>1. Pending = 0
      BY <1>2 DEF Pending
    <3>2. ledger.asked = 2 * totals.volume + Shares + ledger.cancelled + ledger.away + Pending
      BY <1>0 DEF Balance
    <3> QED BY <3>1, <3>2
  <2>2. ledger.asked = 2 * totals.volume + Shares' + (ledger.cancelled + result') + ledger.away + 0
    BY ONLY <2>1, <1>3, <1>4, <1>5
  <2>3. Pending' = 0
    BY <1>6 DEF Pending
  <2> QED BY <2>2, <2>3, <1>11, <1>12 DEF Balance
<1> QED BY <1>4, <1>13, <1>14, <1>15, <1>16, <1>17, <1>18, <1>19, IInvPartsNext

LEMMA NextKeeps == IInv /\ [Next]_vars => IInv'
<1> SUFFICES ASSUME IInv, [Next]_vars PROVE IInv'
  OBVIOUS
<1>1. ASSUME NEW line, SubmitOrder(line) PROVE IInv'
  BY <1>1, SubmitKeeps
<1>2. ASSUME NEW line, CancelOrder(line) PROVE IInv'
  BY <1>2, CancelKeeps
<1>3. ASSUME NEW line, SkipComment(line) \/ RejectLine(line) PROVE IInv'
  BY <1>3, SkipKeeps
<1>4. CASE Matching
  BY <1>4, MatchingIs, TradeKeeps, RestKeeps, LeaveKeeps
<1>5. CASE ReportOrder
  BY <1>5, ReportKeeps
<1>6. CASE EndOfScript
  BY <1>6, EndKeeps
<1>7. CASE UNCHANGED vars
  BY <1>7, StutterKeeps
<1> QED BY <1>1, <1>2, <1>3, <1>4, <1>5, <1>6, <1>7 DEF Next

\* The inductive invariant: everything has its type and its bounds, no order is
\* in two places or has a number not yet given, what the book holds and what it
\* has filled is what was asked for, less what was cancelled or turned away, in
\* the middle of a call too (run_script, main.cpp:132-235).
THEOREM Invariance == Spec => []IInv
<1>1. Init => IInv
  BY InitIInv
<1>2. IInv /\ [Next]_vars => IInv'
  BY NextKeeps
<1> QED BY <1>1, <1>2, PTL DEF Spec

\* Every structure keeps its type: in particular no more orders are reported
\* cancelled than were submitted, and no number is given twice.
THEOREM TypeCorrect == Spec => []TypeOK
<1>1. IInv => TypeOK
  BY DEF IInv
<1> QED BY <1>1, Invariance, PTL

\* Of a bid and an ask that cross, the later has a quantity below 0; so a script
\* of quantities above 0 never leaves the book crossed, not even within a call.
THEOREM CrossingsCorrect == Spec => []CrossedOnlyByNegative
<1>1. IInv => CrossedOnlyByNegative
  BY DEF IInv
<1> QED BY <1>1, Invariance, PTL

\* The summary adds up after every line: twice the volume, what rests, what was
\* cancelled and what was turned away is what was asked for.
THEOREM SummaryCorrect == Spec => []SharesAddUp
<1>1. IInv => SharesAddUp
  <2> SUFFICES ASSUME IInv, BetweenLines PROVE SharesAddUp
    BY DEF SharesAddUp
  <2>1. ~AtWork
    BY DEF AtWork, BetweenLines
  <2>2. ledger.asked = 2 * totals.volume + Shares + ledger.cancelled + ledger.away + 0
    BY <2>1, IInvParts DEF Balance, Pending
  <2>3. /\ totals.volume \in Int /\ Shares \in Int /\ ledger.cancelled \in Int /\ ledger.away \in Int
    BY Numbers
  <2>4. ledger.asked = 2 * totals.volume + Shares + ledger.cancelled + ledger.away
    BY ONLY <2>2, <2>3
  <2> QED BY <2>4 DEF SharesAddUp, Shares
<1> QED BY <1>1, Invariance, PTL

\* Only a report ends an order's line.
LEMMA OnlyReportsTell ==
    ASSUME IInv, [Next]_vars, IsOrder(command), command' = NoLine
    PROVE  ReportOrder
<1>3. command # NoLine
  <2>1. NoLine.verb = "no line" /\ command.verb \in {"BUY", "SELL"}
    BY DEF NoLine, IsOrder
  <2> QED BY <2>1
<1>1. ASSUME NEW line, ReadLine(line) PROVE FALSE
  BY <1>1, <1>3, ReadIs
<1>2. \A line : ~SubmitOrder(line) /\ ~CancelOrder(line) /\ ~SkipComment(line) /\ ~RejectLine(line)
  BY <1>1 DEF SubmitOrder, CancelOrder, SkipComment, RejectLine
<1>4. ~Matching
  BY <1>3, MatchingIs
<1>5. ~EndOfScript
  BY <1>3 DEF EndOfScript
<1>6. vars' # vars
  BY <1>3 DEF vars
<1> QED BY <1>2, <1>4, <1>5, <1>6 DEF Next

\* While a submit is at work, its price has a level; when it has returned, an
\* order without one has done nothing, and any other that has done nothing was
\* for a quantity of 0 or found no slot.
Excused ==
    AtWork =>
        LET limit == from_string(command.text)
        IN  /\ taker # None => HasLevel(limit)
            /\ taker = None /\ ~HasLevel(limit) => fills = <<>> /\ result = 0
            /\ taker = None /\ result = 0 /\ fills = <<>> =>
                  ~HasLevel(limit) \/ command.qty = 0 \/ NoSlot

\* An order that is taken is at work.
LEMMA GoesToWork ==
    ASSUME IInv, NEW line, ReadLine(line), IsOrder(line), NEW limit \in Prices,
           Map!Arrive(next_ref + 1, SideOf(line), line.qty, limit)
    PROVE  taker' # None
<1>1. next_ref + 1 \in Refs /\ line \in Line
  BY ReadIs
<1>2. line.qty \in Int /\ SideOf(line) \in BookSide
  BY <1>1, OrderLine
<1>3. taker' = [ref |-> next_ref + 1, side |-> SideOf(line), limit_price |-> limit,
                remaining |-> line.qty]
  BY DEF Map!Arrive
<1>4. taker' \in Map!Taker
  BY <1>1, <1>2, <1>3, SameWords DEF Map!Taker
<1> QED BY <1>4, NoneAssumption

LEMMA SubmitExcuses == ASSUME IInv, NEW line, SubmitOrder(line) PROVE Excused'
<1> DEFINE limit == from_string(line.text)
           new   == next_ref + 1
           side  == SideOf(line)
<1>1. /\ ReadLine(line) /\ IsOrder(line) /\ IsPrice(line.text)
      /\ command' = line /\ which' = which /\ next_ref' = new
      /\ \/ which = "map" /\ Map!Arrive(next_ref', side, line.qty, limit)
         \/ which # "map" /\ \/ Array!Arrive(next_ref', side, line.qty, limit)
                             \/ Array!Refuse(next_ref', limit)
  BY DEF SubmitOrder
<1>2. /\ taker = None /\ which \in Books
      /\ line_no + 1 \in 1..kMaxLines /\ line \in Lines(which, line_no + 1)
  BY <1>1, ReadIs
<1>3. from_string(command'.text) = limit
  BY <1>1
<1>4. which = "map" => limit \in Prices
  BY <1>1, <1>2, LinesAssumption
<1> HIDE DEF limit, side, new
<1>5. CASE which = "map" /\ Map!Arrive(new, side, line.qty, limit)
  <2>1. HasLevel(limit)'
    BY <1>1, <1>5 DEF HasLevel
  <2>2. taker' # None
    BY <1>1, <1>4, <1>5, GoesToWork DEF side, new
  <2> QED BY <2>1, <2>2, <1>3 DEF Excused, HasLevel
<1>6. CASE Array!Arrive(new, side, line.qty, limit)
  <2>1. limit \in WindowPrices /\ limit \in Prices
    BY <1>6, BooksAssumption DEF Array!Arrive
  <2>2. Map!Arrive(new, side, line.qty, limit)
    BY <1>6, ArriveIsMaps
  <2>3. taker' # None
    BY <1>1, <2>1, <2>2, GoesToWork DEF side, new
  <2> QED BY <2>1, <2>3, <1>3 DEF Excused, HasLevel
<1>7. CASE which # "map" /\ Array!Refuse(new, limit)
  <2>1. limit \notin WindowPrices /\ fills' = <<>> /\ result' = 0 /\ taker' = taker
    BY <1>7 DEF Array!Refuse
  <2>2. which' # "map" /\ taker' = None
    BY <1>1, <1>2, <1>7, <2>1
  <2> QED BY <2>1, <2>2, <1>3 DEF Excused, HasLevel
<1> QED BY <1>1, <1>5, <1>6, <1>7

\* The pool is full when the book says so.
LEMMA FullIs == Pooled!Full /\ which \in {"pool", "flat"} => NoSlot
<1>1. \A ref : Pooled!InBook(ref) = InBook(ref)
  BY DEF Pooled!InBook, Pooled!Rests, Pooled!BookSide, Pooled!Buy, Pooled!Sell, InBook,
         Map!InBook, Map!Rests, Map!BookSide, Map!Buy, Map!Sell
<1>2. {r \in Refs : Pooled!InBook(r)} = {r \in Refs : InBook(r)}
  BY <1>1
<1> DEFINE R == {r \in Refs : InBook(r)}
<1>3. Pooled!Cardinality(R) = Cardinality(R)
  <2> HIDE DEF R
  <2> QED BY DEF Pooled!Cardinality, Cardinality, Pooled!IsFiniteSet, IsFiniteSet
<1>4. Pooled!Full => Pooled!Cardinality(R) >= kMaxOrders
  BY <1>2 DEF Pooled!Full
<1> HIDE DEF R
<1> QED BY <1>3, <1>4 DEF NoSlot, R

\* What a step of the call ends in, when it is the pool that refuses.
LEMMA MatchingOrDrop ==
    ASSUME Matching
    PROVE  \/ Map!Trade \/ Map!Rest \/ Map!Done
           \/ Pooled!Drop /\ which \in {"pool", "flat"}
  BY TradeIsMaps, RestIsMaps, DoneIsMaps DEF Matching, Pooled!Working

LEMMA MatchingExcuses == ASSUME IInv, Excused, Matching PROVE Excused'
<1>1. command' = command /\ which' = which
  BY MatchingIs
<1>2. taker # None
  <2>1. Map!Trade \/ Map!Rest \/ Map!Done \/ Dropped
    BY MatchingIs
  <2> QED BY <2>1 DEF Map!Trade, Map!Rest, Map!Done, Dropped
<1>3. /\ AtWork /\ taker.remaining = command.qty - Volume(fills)
      /\ command.qty \in Int /\ BookType
  BY <1>2, WorkIs
<1>4. HasLevel(from_string(command.text))
  BY <1>2, <1>3 DEF Excused
<1>5. which' = "map" \/ from_string(command'.text) \in WindowPrices
  BY <1>1, <1>4 DEF HasLevel
<1>6. CASE Map!Trade
  <2>1. Map!TypeOK
    BY <1>3, TypeIs DEF BookType
  <2>2. PICK from, p, qty, list : Traded(from, p, qty, list)
    BY <1>6, <2>1, TradeEffect
  <2>3. taker' \in Map!Taker
    BY <2>2 DEF Traded
  <2>4. taker' # None
    BY <2>3, NoneAssumption, SameWords DEF Map!Taker
  <2> QED BY <2>4, <1>5 DEF Excused, HasLevel
<1>7. CASE Map!Rest
  <2>1. taker' = None /\ result' # 0
    BY <1>7 DEF Map!Rest
  <2> QED BY <2>1, <1>5 DEF Excused, HasLevel
<1>8. CASE Map!Done
  <2>1. taker' = None /\ fills' = fills /\ taker.remaining = 0
    BY <1>8 DEF Map!Done
  <2>2. fills = <<>> => command.qty = 0
    <3>1. fills = <<>> => Volume(fills) = 0
      BY VolumeEmpty
    <3>2. command.qty - Volume(fills) = 0 /\ command.qty \in Int
      BY <1>3, <2>1
    <3> QED BY ONLY <3>1, <3>2
  <2> QED BY <2>1, <2>2, <1>1, <1>5 DEF Excused, HasLevel
<1>9. CASE Pooled!Drop /\ which \in {"pool", "flat"}
  <2>1. taker' = None /\ queue' = queue /\ Pooled!Full
    BY <1>9 DEF Pooled!Drop
  <2>2. NoSlot
    BY <1>9, <2>1, FullIs
  <2>3. \A r : InBook(r)' = InBook(r)
    BY <2>1 DEF InBook, Map!InBook, Map!Rests
  <2>4. {r \in Refs : InBook(r)}' = {r \in Refs : InBook(r)}
    BY <2>3
  <2>5. NoSlot'
    BY <1>1, <2>2, <2>4 DEF NoSlot
  <2> QED BY <2>1, <2>5, <1>5 DEF Excused, HasLevel
<1> QED BY <1>6, <1>7, <1>8, <1>9, MatchingOrDrop

LEMMA ExcusedKeeps == ASSUME IInv, Excused, [Next]_vars PROVE Excused'
<1>1. ASSUME NEW line, SubmitOrder(line) PROVE Excused'
  BY <1>1, SubmitExcuses
<1>2. ASSUME NEW line, CancelOrder(line) \/ SkipComment(line) PROVE Excused'
  <2>1. command' = command /\ command = NoLine
    BY <1>2, ReadIs DEF CancelOrder, SkipComment
  <2> QED BY <2>1 DEF Excused, AtWork, NoLine
<1>3. ASSUME NEW line, RejectLine(line) PROVE Excused'
  BY <1>3 DEF RejectLine, Excused, AtWork
<1>4. CASE Matching
  BY <1>4, MatchingExcuses
<1>5. CASE ReportOrder \/ EndOfScript
  <2>1. command' = NoLine \/ status' # "running"
    BY <1>5 DEF ReportOrder, EndOfScript
  <2> QED BY <2>1 DEF Excused, AtWork, NoLine
<1>6. CASE UNCHANGED vars
  <2>1. /\ queue' = queue /\ taker' = taker /\ fills' = fills /\ result' = result
        /\ which' = which /\ command' = command /\ status' = status
    BY <1>6 DEF vars, bookVars
  <2>2. \A r : InBook(r)' = InBook(r)
    BY <2>1 DEF InBook, Map!InBook, Map!Rests
  <2>3. {r \in Refs : InBook(r)}' = {r \in Refs : InBook(r)}
    BY <2>2
  <2>4. NoSlot' = NoSlot
    BY <2>1, <2>3 DEF NoSlot
  <2> QED BY <2>1, <2>4 DEF Excused, AtWork, NoLine, HasLevel
<1> QED BY <1>1, <1>2, <1>3, <1>4, <1>5, <1>6 DEF Next

LEMMA AlwaysExcused == Spec => []Excused
<1>1. Init => Excused
  BY DEF Init, Excused, AtWork
<1>2. IInv /\ Excused /\ [Next]_vars => Excused'
  BY ExcusedKeeps
<1> QED BY <1>1, <1>2, Invariance, PTL DEF Spec

\* What is printed of an order, read off its fills and the quantity the book
\* returned, and what has become of it in the book: the reports of shares are
\* right, and the one of a refused price covers the orders without one and three
\* kinds of others, told apart here (main.cpp:214-226).
THEOREM ReportsCorrect == Spec => OutcomeTold
<1> DEFINE limit == from_string(command.text)
           Told ==
      CASE said' = "rested" ->
             Held(next_ref) > 0 /\ Held(next_ref) = command.qty - Volume(fills)
        [] said' = "fully filled, nothing rested" ->
             /\ ~InBook(next_ref)
             /\ Volume(fills) = command.qty /\ command.qty > 0
        [] said' = PriceRefused ->
             /\ fills = <<>>
             /\ \/ ~InBook(next_ref) /\ (~HasLevel(limit) \/ command.qty = 0 \/ NoSlot)
                \/ HasLevel(limit) /\ command.qty < 0 /\ Held(next_ref) = command.qty
           Warned == ~HasLevel(limit) => said' = PriceRefused
<1>1. ASSUME IInv, Excused, [Next]_vars, IsOrder(command), command' = NoLine
      PROVE  Told /\ Warned
  <2>1. /\ status = "running" /\ command # NoLine /\ taker = None
        /\ said' = Verdict(fills, result)
    BY <1>1, OnlyReportsTell DEF ReportOrder
  <2>2. Returned /\ Once(queue) /\ queue \in Queues /\ BookType
    BY <1>1, IInvParts DEF BookType
  <2>3. /\ Held(next_ref) = result
        /\ result # 0 => result = command.qty - Volume(fills)
        /\ result # 0 /\ fills # <<>> => result > 0
        /\ result = 0 /\ fills # <<>> => Volume(fills) = command.qty /\ command.qty > 0
    BY <2>1, <2>2 DEF Returned, AtWork
  <2>4. InBook(next_ref) <=> result # 0
    BY <2>2, <2>3, InBookIs
  <2>5. result \in Int /\ command.qty \in Int /\ Volume(fills) \in Int
    <3>1. command \in Line
      BY <1>1, <2>1, IInvParts DEF ScriptType
    <3> QED BY <1>1, <3>1, OrderLine, Numbers
  <2>6. /\ ~HasLevel(limit) => fills = <<>> /\ result = 0
        /\ result = 0 /\ fills = <<>> => ~HasLevel(limit) \/ command.qty = 0 \/ NoSlot
    BY <1>1, <2>1 DEF Excused, AtWork
  <2> HIDE DEF limit
  <2>7. CASE result > 0
    <3>1. said' = "rested" /\ result # 0
      BY <2>1, <2>5, <2>7 DEF Verdict
    <3> QED BY <3>1, <2>3, <2>6, <2>7 DEF PriceRefused
  <2>8. CASE ~(result > 0) /\ fills = <<>>
    <3>1. said' = PriceRefused
      BY <2>1, <2>8 DEF Verdict
    <3>2. Volume(fills) = 0
      BY <2>8, VolumeEmpty
    <3>3. result # 0 => command.qty = result /\ result < 0
      BY ONLY <3>2, <2>3, <2>5, <2>8
    <3>4. \/ ~InBook(next_ref) /\ (~HasLevel(limit) \/ command.qty = 0 \/ NoSlot)
          \/ HasLevel(limit) /\ command.qty < 0 /\ Held(next_ref) = command.qty
      <4>1. CASE result = 0
        BY <4>1, <2>4, <2>6, <2>8
      <4>2. CASE result # 0
        <5>1. HasLevel(limit)
          BY <4>2, <2>6
        <5>2. command.qty < 0 /\ Held(next_ref) = command.qty
          BY <4>2, <3>3, <2>3
        <5> QED BY <5>1, <5>2
      <4> QED BY <4>1, <4>2
    <3>5. Told
      BY <3>1, <3>4, <2>8 DEF PriceRefused
    <3> QED BY <3>1, <3>5
  <2>9. CASE ~(result > 0) /\ fills # <<>>
    <3>1. said' = "fully filled, nothing rested"
      BY <2>1, <2>9 DEF Verdict
    <3>2. result = 0
      BY <2>3, <2>9
    <3>3. HasLevel(limit)
      BY <2>6, <2>9
    <3> QED BY <3>1, <3>2, <3>3, <2>3, <2>4, <2>9 DEF PriceRefused
  <2> QED BY <2>7, <2>8, <2>9
<1>2. IInv /\ Excused /\ [Next]_vars =>
         [IsOrder(command) /\ command' = NoLine => Told /\ Warned]_vars
  BY <1>1
<1> QED BY <1>2, Invariance, AlwaysExcused, PTL DEF Spec, OutcomeTold
-----------------------------------------------------------------------------
(***************************************************************************)
(* The prices of a script                                                  *)
(***************************************************************************)
\* The order of a line is one whose price was accepted, unless the run stopped
\* at it.
Judged == IsOrder(command) => IF status = "failed" THEN ~IsPrice(command.text)
                              ELSE IsPrice(command.text)

LEMMA NoLineIsNoOrder == ~IsOrder(NoLine)
<1>1. NoLine.verb = "no line"
  BY DEF NoLine
<1> QED BY <1>1 DEF IsOrder

LEMMA JudgedKeeps == ASSUME IInv, Judged, [Next]_vars PROVE Judged'
<1>1. ASSUME NEW line, SubmitOrder(line) PROVE Judged'
  <2>1. command' = line /\ IsPrice(line.text) /\ status' = status /\ status = "running"
    BY <1>1 DEF SubmitOrder, ReadLine
  <2> QED BY <2>1 DEF Judged, IsOrder
<1>2. ASSUME NEW line, CancelOrder(line) \/ SkipComment(line) PROVE Judged'
  <2>1. command' = command /\ command = NoLine
    BY <1>2, ReadIs DEF CancelOrder, SkipComment
  <2> QED BY <2>1, NoLineIsNoOrder DEF Judged, IsOrder
<1>3. ASSUME NEW line, RejectLine(line) PROVE Judged'
  <2>1. command' = line /\ status' = "failed"
    BY <1>3 DEF RejectLine
  <2>2. IsOrder(line) => ~IsPrice(line.text)
    BY <1>3 DEF RejectLine, IsOrder
  <2> QED BY <2>1, <2>2 DEF Judged, IsOrder
<1>4. ASSUME Matching \/ UNCHANGED vars PROVE Judged'
  <2>1. command' = command /\ status' = status
    BY <1>4 DEF Matching, vars
  <2> QED BY <2>1 DEF Judged, IsOrder
<1>5. ASSUME ReportOrder \/ EndOfScript PROVE Judged'
  <2>1. command' = NoLine
    BY <1>5 DEF ReportOrder, EndOfScript
  <2> QED BY <2>1, NoLineIsNoOrder DEF Judged, IsOrder
<1> QED BY <1>1, <1>2, <1>3, <1>4, <1>5 DEF Next

LEMMA AlwaysJudged == Spec => []Judged
<1>1. Init => Judged
  <2> SUFFICES ASSUME Init PROVE Judged
    OBVIOUS
  <2>1. command = NoLine
    BY DEF Init
  <2> QED BY <2>1, NoLineIsNoOrder DEF Judged
<1>2. IInv /\ Judged /\ [Next]_vars => Judged'
  BY JudgedKeeps
<1> QED BY <1>1, <1>2, Invariance, PTL DEF Spec

\* The text of an order's line.
LEMMA OrderText ==
    ASSUME IInv, IsOrder(command)
    PROVE  IsText(command.text)
<1>1. command \in Line
  <2>1. command \in Line \cup {NoLine}
    BY IInvParts DEF ScriptType
  <2> QED BY <2>1, NoLineIsNoOrder
<1>2. command.text \in Seq(STRING)
  <2>1. command.verb \in {"BUY", "SELL"}
    BY DEF IsOrder
  <2>2. command \in [verb : {"BUY", "SELL"}, qty : Int, text : Seq(STRING)]
    BY <1>1, <2>1 DEF Line
  <2> QED BY <2>2
<1> QED BY <1>2 DEF IsText

\* The script stops at an order exactly when its price is no decimal, and a
\* price that is one stands for what its digits say and is printed in a form
\* that reads back as the same.
THEOREM PricesCorrect == Spec => []PricesReadAndPrint
<1>1. IInv /\ Judged => PricesReadAndPrint
  <2> SUFFICES ASSUME IInv, Judged, IsOrder(command) PROVE PricesReadAndPrint
    BY DEF PricesReadAndPrint
  <2>1. IsText(command.text)
    BY OrderText
  <2>2. IsPrice(command.text) <=> IsDecimal(command.text)
    BY <2>1, PriceIsDecimal
  <2>3. CASE status = "failed"
    BY <2>2, <2>3 DEF Judged, PricesReadAndPrint
  <2>4. CASE status # "failed"
    <3> DEFINE limit == from_string(command.text)
    <3>1. IsPrice(command.text)
      BY <2>4 DEF Judged
    <3>2. limit = TicksOf(command.text) /\ limit \in Int
      BY <2>1, <3>1, LimitIsTicks
    <3> HIDE DEF limit
    <3>3. LET printed == to_string(limit)
          IN  /\ IsPrice(printed) /\ from_string(printed) = limit
              /\ DotAt(printed) = Len(printed) - kDecimals
              /\ IsDigit(printed[DotAt(printed) - 1])
      BY <3>2, PrintReadsBack
    <3> QED BY <2>2, <2>4, <3>1, <3>2, <3>3 DEF PricesReadAndPrint, limit
  <2> QED BY <2>3, <2>4
<1> QED BY <1>1, Invariance, AlwaysJudged, PTL

\* Rounding an order's limit to a tick goes down and up to the nearest
\* multiples, whatever its sign.
THEOREM RoundingCorrect == Spec => []RoundsToTick
<1>1. IInv /\ Judged => RoundsToTick
  <2> SUFFICES ASSUME IInv, Judged, IsOrder(command), status = "running" PROVE RoundsToTick
    BY DEF RoundsToTick
  <2> DEFINE limit == from_string(command.text)
  <2>1. limit \in Int
    <3>1. IsPrice(command.text) /\ IsText(command.text)
      BY OrderText DEF Judged
    <3> QED BY <3>1, LimitIsTicks
  <2> HIDE DEF limit
  <2>2. \A tick_size \in 1..kCent : tick_size \in Nat \ {0}
    BY BoundsAssumption
  <2>3. \A tick_size \in 1..kCent :
            /\ IsFloor(round_down_to_tick(limit, tick_size), limit, tick_size)
            /\ IsCeiling(round_up_to_tick(limit, tick_size), limit, tick_size)
            /\ is_on_tick(limit, tick_size) <=> limit % tick_size = 0
    BY <2>1, <2>2, RoundDownIsFloor, RoundUpIsCeiling, OnTickIsMultiple
  <2> QED BY <2>3 DEF RoundsToTick, limit
<1> QED BY <1>1, Invariance, AlwaysJudged, PTL
-----------------------------------------------------------------------------
(***************************************************************************)
(* The book by itself                                                      *)
(***************************************************************************)
\* The instances of PriceTimeBook have one type.
LEMMA PooledTypeIs == Pooled!TypeOK <=> Map!TypeOK
<1>1. Pooled!BookSide = Map!BookSide
  BY DEF Pooled!BookSide, Pooled!Buy, Pooled!Sell, Map!BookSide, Map!Buy, Map!Sell
<1>2. Pooled!RestingOrder = Map!RestingOrder /\ Pooled!Fill = Map!Fill
  BY DEF Pooled!RestingOrder, Map!RestingOrder, Pooled!Fill, Map!Fill
<1>3. Pooled!Taker = Map!Taker
  BY <1>1 DEF Pooled!Taker, Map!Taker
<1> QED BY <1>1, <1>2, <1>3 DEF Pooled!TypeOK, Map!TypeOK

LEMMA PooledTypeNext == Pooled!TypeOK' <=> Map!TypeOK'
  BY PooledTypeIs, PTL

LEMMA CancelsAre ==
    \A ref : /\ Pooled!Cancel(ref) => Map!Cancel(ref)
             /\ Pooled!CancelUnknown(ref) => Map!CancelUnknown(ref)
<1>1. Pooled!BookSide = Map!BookSide
  BY DEF Pooled!BookSide, Pooled!Buy, Pooled!Sell, Map!BookSide, Map!Buy, Map!Sell
<1>2. \A ref, side, p, i : Pooled!Rests(ref, side, p, i) <=> Map!Rests(ref, side, p, i)
  BY DEF Pooled!Rests, Map!Rests
<1>3. \A ref : Pooled!InBook(ref) <=> Map!InBook(ref)
  BY <1>1, <1>2 DEF Pooled!InBook, Map!InBook
<1>4. ASSUME NEW ref, Pooled!Cancel(ref) PROVE Map!Cancel(ref)
  <2>1. /\ taker = None /\ UNCHANGED <<taker, fills>>
        /\ \E side \in Map!BookSide, p \in Prices : \E i \in 1..Len(queue[side][p]) :
             /\ Pooled!Rests(ref, side, p, i)
             /\ queue' = [queue EXCEPT ![side][p] = SubSeq(@, 1, i - 1) \o SubSeq(@, i + 1, Len(@))]
             /\ result' = queue[side][p][i].remainQty
    BY <1>1, <1>4 DEF Pooled!Cancel
  <2>2. PICK side \in Map!BookSide, p \in Prices : \E i \in 1..Len(queue[side][p]) :
             /\ Map!Rests(ref, side, p, i)
             /\ queue' = [queue EXCEPT ![side][p] = SubSeq(@, 1, i - 1) \o SubSeq(@, i + 1, Len(@))]
             /\ result' = queue[side][p][i].remainQty
    BY <2>1, <1>2
  <2> QED BY <2>1, <2>2 DEF Map!Cancel
<1> QED BY <1>3, <1>4 DEF Pooled!CancelUnknown, Map!CancelUnknown

\* The type is kept by each step of a submit or a cancel.
LEMMA ArriveType ==
    ASSUME Map!TypeOK, NEW ref \in Refs, NEW side \in BookSide, NEW qty \in Int,
           NEW price \in Prices, Map!Arrive(ref, side, qty, price)
    PROVE  Map!TypeOK'
<1>1. /\ taker' = [ref |-> ref, side |-> side, limit_price |-> price, remaining |-> qty]
      /\ fills' = <<>> /\ queue' = queue /\ result' = result
  BY DEF Map!Arrive
<1>2. taker' \in Map!Taker
  BY <1>1, SameWords DEF Map!Taker
<1>3. fills' \in Seq(Map!Fill)
  BY <1>1
<1> QED BY <1>1, <1>2, <1>3 DEF Map!TypeOK

LEMMA TradeType == ASSUME Map!TypeOK, Map!Trade PROVE Map!TypeOK'
<1>1. PICK side, p, qty, list : Traded(side, p, qty, list)
  BY TradeEffect
<1>2. /\ queue' \in Queues /\ taker' \in Map!Taker /\ taker'.remaining >= 0
      /\ fills' \in Seq(Map!Fill) /\ result' = result
  BY <1>1 DEF Traded, Becomes
<1>3. queue' \in [Map!BookSide -> [Prices -> Seq(Map!RestingOrder)]]
  BY <1>2, SameWords DEF Queues
<1> QED BY <1>2, <1>3 DEF Map!TypeOK

LEMMA RestType == ASSUME Map!TypeOK, Map!Rest PROVE Map!TypeOK'
<1>0. queue \in Queues /\ taker \in Map!Taker /\ taker.remaining # 0
  BY TypeIs DEF Map!Rest
<1> DEFINE side == taker.side
           p    == taker.limit_price
           last == [resting |-> taker.ref, remainQty |-> taker.remaining]
           list == Append(queue[side][p], last)
<1>1. side \in BookSide /\ p \in Prices /\ taker.remaining \in Int /\ taker.ref \in Refs
  BY <1>0, SameWords DEF Map!Taker
<1>2. last \in Map!RestingOrder
  BY <1>0, <1>1 DEF Map!RestingOrder
<1>3. queue[side][p] \in Seq(Map!RestingOrder)
  BY <1>0, <1>1, QueueType
<1>4. list \in Seq(Map!RestingOrder)
  BY <1>2, <1>3, AppendProperties
<1>5. /\ queue' = [queue EXCEPT ![side][p] = list]
      /\ result' = taker.remaining /\ taker' = None /\ fills' = fills
  BY DEF Map!Rest
<1> HIDE DEF list, last, side, p
<1>6. queue' \in Queues
  BY <1>0, <1>1, <1>4, <1>5, ExceptBecomes DEF Becomes
<1>7. queue' \in [Map!BookSide -> [Prices -> Seq(Map!RestingOrder)]]
  BY <1>6, SameWords DEF Queues
<1> QED BY <1>1, <1>5, <1>7 DEF Map!TypeOK

LEMMA CancelType == ASSUME Map!TypeOK, NEW ref, Map!Cancel(ref) PROVE Map!TypeOK'
<1>0. queue \in Queues /\ taker' = taker /\ fills' = fills
  BY TypeIs DEF Map!Cancel
<1>1. PICK side \in BookSide, p \in Prices : \E i \in 1..Len(queue[side][p]) :
           /\ Map!Rests(ref, side, p, i)
           /\ queue' = [queue EXCEPT ![side][p] = SubSeq(@, 1, i - 1) \o SubSeq(@, i + 1, Len(@))]
           /\ result' = queue[side][p][i].remainQty
  BY SameWords DEF Map!Cancel
<1>2. PICK i \in 1..Len(queue[side][p]) :
           /\ queue' = [queue EXCEPT ![side][p] = SubSeq(@, 1, i - 1) \o SubSeq(@, i + 1, Len(@))]
           /\ result' = queue[side][p][i].remainQty
  BY <1>1
<1> DEFINE old  == queue[side][p]
           list == SubSeq(old, 1, i - 1) \o SubSeq(old, i + 1, Len(old))
<1>3. old \in Seq(Map!RestingOrder) /\ old[i] \in Map!RestingOrder
  BY <1>0, QueueType
<1>4. list \in Seq(Map!RestingOrder)
  BY <1>3, NodeOut
<1>5. queue' = [queue EXCEPT ![side][p] = list]
  BY <1>2
<1> HIDE DEF list
<1>6. queue' \in Queues
  BY <1>0, <1>4, <1>5, ExceptBecomes DEF Becomes
<1>7. queue' \in [Map!BookSide -> [Prices -> Seq(Map!RestingOrder)]]
  BY <1>6, SameWords DEF Queues
<1>8. result' \in Int
  BY <1>2, <1>3 DEF Map!RestingOrder
<1> QED BY <1>0, <1>7, <1>8 DEF Map!TypeOK

\* What every book of libs/matching promises keeps its type, whatever prices it
\* holds and however many orders may rest in it: no resting order has nothing
\* left, no fill is of nothing, and an order that has traded is never filled
\* beyond what it asked for.
THEOREM BookTypeCorrect == Pooled!Spec => []Pooled!TypeOK
<1>1. Pooled!Init => Pooled!TypeOK
  <2> SUFFICES ASSUME Pooled!Init PROVE Pooled!TypeOK
    OBVIOUS
  <2>1. taker = None /\ fills = <<>> /\ result = 0
    BY DEF Pooled!Init
  <2>2. queue \in [Pooled!BookSide -> [Prices -> Seq(Pooled!RestingOrder)]]
    BY DEF Pooled!Init
  <2> QED BY <2>1, <2>2 DEF Pooled!TypeOK
<1>2. Pooled!TypeOK /\ [Pooled!Next]_(Pooled!vars) => Pooled!TypeOK'
  <2> SUFFICES ASSUME Map!TypeOK, [Pooled!Next]_(Pooled!vars) PROVE Map!TypeOK'
    BY PooledTypeIs, PooledTypeNext
  <2>1. ASSUME NEW ref \in Refs, NEW side \in Pooled!BookSide, NEW qty \in Int,
               NEW price \in Prices, Pooled!Arrive(ref, side, qty, price)
        PROVE  Map!TypeOK'
    <3>1. side \in BookSide
      BY DEF Pooled!BookSide, Pooled!Buy, Pooled!Sell, BookSide, Buy, Sell
    <3>2. Map!Arrive(ref, side, qty, price)
      BY <2>1, ArriveIsMaps
    <3> QED BY <3>1, <3>2, ArriveType
  <2>2. ASSUME NEW ref \in Refs, NEW price \in Prices, Pooled!Refuse(ref, price)
        PROVE  Map!TypeOK'
    <3>1. Refused
      BY <2>2, RefusedIs
    <3> QED BY <3>1 DEF Refused, Map!TypeOK
  <2>3. CASE Pooled!Trade
    BY <2>3, TradeIsMaps, TradeType
  <2>4. CASE Pooled!Rest
    BY <2>4, RestIsMaps, RestType
  <2>5. CASE Pooled!Drop
    <3>1. Dropped
      BY <2>5, DroppedIs
    <3> QED BY <3>1 DEF Dropped, Map!TypeOK
  <2>6. CASE Pooled!Done
    BY <2>6 DEF Pooled!Done, Map!TypeOK
  <2>7. ASSUME NEW ref \in Refs, Pooled!Cancel(ref) PROVE Map!TypeOK'
    BY <2>7, CancelsAre, CancelType
  <2>8. ASSUME NEW ref \in Refs, Pooled!CancelUnknown(ref) PROVE Map!TypeOK'
    <3>1. UNCHANGED <<queue, taker, fills>> /\ result' = 0
      BY <2>8 DEF Pooled!CancelUnknown
    <3> QED BY <3>1 DEF Map!TypeOK
  <2>9. CASE UNCHANGED Pooled!vars
    BY <2>9 DEF Pooled!vars, Map!TypeOK
  <2> QED
    BY <2>1, <2>2, <2>3, <2>4, <2>5, <2>6, <2>7, <2>8, <2>9 DEF Pooled!Next, Pooled!Working
<1> QED BY <1>1, <1>2, PTL DEF Pooled!Spec
-----------------------------------------------------------------------------
(***************************************************************************)
(* The ladder                                                              *)
(***************************************************************************)
\* The quantity at a price is a number, and 0 where nothing rests.
LEMMA QtyAtIs ==
    ASSUME queue \in Queues, NEW side \in BookSide, NEW p
    PROVE  /\ qty_at(side, p) \in Int
           /\ qty_at(side, p) > 0 => p \in Prices /\ queue[side][p] # <<>>
<1>1. CASE p \in Prices
  <2> DEFINE list == queue[side][p]
             left == [i \in DOMAIN list |-> list[i].remainQty]
  <2>1. /\ Len(list) \in Nat /\ DOMAIN list = 1..Len(list)
        /\ \A i \in 1..Len(list) : list[i] \in Map!RestingOrder
    BY <1>1, QueueType
  <2>2. qty_at(side, p) = Total(left)
    BY <1>1 DEF qty_at, TotalLeft
  <2> HIDE DEF list
  <2>3. Len(left) = Len(list)
    BY <2>1
  <2>4. \A i \in 1..Len(left) : left[i] \in Int
    BY <2>1, <2>3 DEF Map!RestingOrder
  <2>5. Integers(left)
    BY <2>1, <2>3, <2>4 DEF Integers
  <2> HIDE DEF left
  <2>6. list = <<>> => Total(left) = 0
    BY <2>3, <2>5, TotalEmpty
  <2>7. Total(left) \in Int
    BY <2>5, TotalType
  <2> QED BY <1>1, <2>2, <2>6, <2>7 DEF list
<1>2. CASE p \notin Prices
  BY <1>2 DEF qty_at
<1> QED BY <1>1, <1>2

\* The rungs go outward.
LEMMA RungsApart ==
    ASSUME NEW side \in BookSide, NEW touch \in Int, NEW i \in Nat, NEW j \in Nat, i < j
    PROVE  /\ Rung(side, touch, i) \in Int /\ Rung(side, touch, j) \in Int
           /\ Better(side, Rung(side, touch, i), Rung(side, touch, j))
<1>1. kCent \in Nat \ {0}
  BY BoundsAssumption
<1>2. i * kCent \in Int /\ j * kCent \in Int
  BY <1>1
<1>3. i * kCent < j * kCent
  <2>1. j * kCent = i * kCent + (j - i) * kCent
    BY <1>1
  <2>2. (j - i) * kCent >= kCent /\ (j - i) * kCent \in Int
    BY <1>1
  <2> QED BY ONLY <1>1, <1>2, <2>1, <2>2
<1> DEFINE a == i * kCent
           b == j * kCent
<1>4. a \in Int /\ b \in Int /\ a < b
  BY <1>2, <1>3
<1>5. /\ Rung(side, touch, i) = IF side = Buy THEN touch - a ELSE touch + a
      /\ Rung(side, touch, j) = IF side = Buy THEN touch - b ELSE touch + b
  BY DEF Rung
<1> HIDE DEF a, b
<1> QED BY <1>4, <1>5 DEF Better

\* The prices with a quantity that the first n rungs reach.
Rungs(side, touch, n) ==
    {p \in Prices : qty_at(side, p) > 0 /\ \E i \in 0..(n - 1) : p = Rung(side, touch, i)}

LEMMA RungsMore ==
    ASSUME queue \in Queues, NEW side \in BookSide, NEW touch \in Int, NEW n \in Nat
    PROVE  LET next == Rung(side, touch, n)
           IN  /\ ~(qty_at(side, next) > 0) => Rungs(side, touch, n + 1) = Rungs(side, touch, n)
               /\ qty_at(side, next) > 0 =>
                    /\ Rungs(side, touch, n + 1) = Rungs(side, touch, n) \cup {next}
                    /\ \A p \in Rungs(side, touch, n) : p # next /\ Better(side, p, next)
<1> DEFINE next == Rung(side, touch, n)
<1>1. \A i : i \in 0..((n + 1) - 1) <=> i \in 0..(n - 1) \/ i = n
  OBVIOUS
<1>2. qty_at(side, next) > 0 => next \in Prices
  BY QtyAtIs
<1>3. ASSUME NEW p \in Rungs(side, touch, n) PROVE p # next /\ Better(side, p, next)
  <2>1. PICK i \in 0..(n - 1) : p = Rung(side, touch, i)
    BY <1>3 DEF Rungs
  <2>2. i \in Nat /\ i < n
    OBVIOUS
  <2>3. p \in Int /\ next \in Int /\ Better(side, p, next)
    BY <2>1, <2>2, RungsApart
  <2> HIDE DEF next
  <2> QED BY <2>3 DEF Better
<1> QED BY <1>1, <1>2, <1>3 DEF Rungs

\* What the rows have been, step by step.
Row == [price : Int, qty : Int]

IsWalk(walk, side, touch) ==
    /\ walk \in [0..kLadderScanLimit -> Seq(Row)]
    /\ walk[0] = <<>>
    /\ \A n \in 1..kLadderScanLimit : walk[n] = Walk(side, touch, n - 1, walk[n - 1])

LEMMA WalkType ==
    ASSUME queue \in Queues, NEW side \in BookSide, NEW touch \in Int, NEW i \in Nat,
           NEW rows \in Seq(Row)
    PROVE  Walk(side, touch, i, rows) \in Seq(Row)
<1> DEFINE p == Rung(side, touch, i)
<1>1. i + 1 \in Nat /\ i < i + 1
  OBVIOUS
<1>2. p \in Int /\ qty_at(side, p) \in Int
  BY <1>1, RungsApart, QtyAtIs
<1> HIDE DEF p
<1>3. [price |-> p, qty |-> qty_at(side, p)] \in Row
  BY <1>2 DEF Row
<1>4. Append(rows, [price |-> p, qty |-> qty_at(side, p)]) \in Seq(Row)
  BY <1>3, AppendProperties
<1> QED BY <1>4 DEF Walk, p

LEMMA LadderIs ==
    ASSUME queue \in Queues, NEW side \in BookSide, NEW touch \in Int, Best(side) = {touch}
    PROVE  \E walk : IsWalk(walk, side, touch) /\ ladder(side) = walk[kLadderScanLimit]
<1> DEFINE N == kLadderScanLimit
           step == [x \in Nat \X Seq(Row) |->
                       IF x[1] \in 1..N THEN Walk(side, touch, x[1] - 1, x[2]) ELSE x[2]]
           Is(u) == u = [n \in 0..N |-> IF n = 0 THEN <<>> ELSE Walk(side, touch, n - 1, u[n - 1])]
<1>0. N \in Nat
  BY LadderAssumption
<1>1. step \in [Nat \X Seq(Row) -> Seq(Row)]
  <2>1. \A n \in 1..N : n - 1 \in Nat
    BY <1>0
  <2> HIDE DEF N
  <2> QED BY <2>1, WalkType
<1>2. <<>> \in Seq(Row)
  OBVIOUS
<1>3. PICK f : Iterates(f, Seq(Row), <<>>, step)
  <2> HIDE DEF step
  <2> QED BY <1>1, <1>2, Iterate, Zenon
<1>4. f \in [Nat -> Seq(Row)] /\ f[0] = <<>>
  BY <1>3 DEF Iterates
<1>5. ASSUME NEW k \in 1..N PROVE f[k] = Walk(side, touch, k - 1, f[k - 1])
  <2>1. k \in Nat \ {0} /\ k - 1 \in Nat
    BY <1>0
  <2>2. f[k] = step[<<k, f[k - 1]>>]
    BY <1>3, <2>1 DEF Iterates
  <2>3. /\ <<k, f[k - 1]>> \in Nat \X Seq(Row)
        /\ <<k, f[k - 1]>>[1] = k /\ <<k, f[k - 1]>>[2] = f[k - 1]
    BY <1>4, <2>1
  <2> QED BY <2>2, <2>3
<1> HIDE DEF step, N
<1> DEFINE g == [n \in 0..N |-> f[n]]
<1>6. Is(g)
  <2>1. ASSUME NEW n \in 0..N, n # 0 PROVE g[n] = Walk(side, touch, n - 1, g[n - 1])
    <3>1. n \in 1..N /\ n - 1 \in 0..N
      BY <2>1, <1>0
    <3> QED BY <3>1, <1>5
  <2>2. 0 \in 0..N
    BY <1>0
  <2>3. g[0] = <<>>
    BY <1>4, <2>2
  <2> QED BY <2>1, <2>3
<1> DEFINE u == CHOOSE u : Is(u)
<1>7. Is(u)
  BY <1>6
<1>8. ladder(side) = u[N]
  <2>1. (CHOOSE p \in Best(side) : TRUE) = touch /\ Best(side) # {}
    OBVIOUS
  <2> QED BY <2>1 DEF ladder, N
<1> HIDE DEF u
<1>9. u[0] = <<>>
  <2>1. 0 \in 0..N
    BY <1>0
  <2> QED BY <1>7, <2>1
<1>10. \A k \in 1..N : u[k] = Walk(side, touch, k - 1, u[k - 1])
  <2>1. \A k \in 1..N : k \in 0..N /\ k # 0
    BY <1>0
  <2> QED BY <1>7, <2>1
<1> DEFINE S == {n \in Nat : n <= N => u[n] \in Seq(Row)}
<1>11. \A n \in Nat : n \in S
  <2>1. 0 \in S
    BY <1>9, <1>2
  <2>2. ASSUME NEW n \in Nat, n \in S PROVE n + 1 \in S
    <3>1. ASSUME n + 1 <= N PROVE u[n + 1] \in Seq(Row)
      <4>1. n + 1 \in 1..N /\ (n + 1) - 1 = n /\ n <= N
        BY <1>0, <3>1
      <4>2. u[n] \in Seq(Row) /\ u[n + 1] = Walk(side, touch, n, u[n])
        BY <1>10, <2>2, <4>1
      <4> QED BY <4>2, WalkType
    <3> QED BY <3>1
  <2> HIDE DEF S
  <2> QED BY <2>1, <2>2, EveryNat
<1>12. u \in [0..N -> Seq(Row)]
  BY <1>0, <1>7, <1>11
<1>13. IsWalk(u, side, touch)
  BY <1>9, <1>10, <1>12 DEF IsWalk, N
<1> QED BY <1>8, <1>13 DEF N

\* What the rows show after n steps: of the prices the first n rungs reach, the
\* kDepthShown best, best first, each with its quantity.
Shows(rows, side, touch, n) ==
    LET reached == Rungs(side, touch, n)
    IN  /\ rows \in Seq(Row)
        /\ \A i \in 1..Len(rows) : /\ rows[i].price \in reached
                                   /\ rows[i].qty = qty_at(side, rows[i].price)
        /\ \A i, j \in 1..Len(rows) : i < j => Better(side, rows[i].price, rows[j].price)
        /\ Len(rows) = Lesser(kDepthShown, Cardinality(reached))
        /\ \A p \in reached : \/ \E i \in 1..Len(rows) : rows[i].price = p
                              \/ /\ Len(rows) = kDepthShown
                                 /\ \A i \in 1..Len(rows) : Better(side, rows[i].price, p)

LEMMA RungsFinite ==
    ASSUME NEW side, NEW touch, NEW n
    PROVE  IsFiniteSet(Rungs(side, touch, n)) /\ Cardinality(Rungs(side, touch, n)) \in Nat
<1>1. Rungs(side, touch, n) \in SUBSET Prices
  BY DEF Rungs
<1> QED BY <1>1, PricesAssumption, FS_Subset, FS_CardinalityType

LEMMA ShowsFirst == ASSUME NEW side, NEW touch PROVE Shows(<<>>, side, touch, 0)
<1>1. Rungs(side, touch, 0) = {}
  BY DEF Rungs
<1>2. Cardinality(Rungs(side, touch, 0)) = 0
  BY <1>1, FS_EmptySet
<1>3. Len(<<>>) = Lesser(kDepthShown, 0)
  BY LadderAssumption DEF Lesser
<1> QED BY <1>1, <1>2, <1>3 DEF Shows

LEMMA ShowsMore ==
    ASSUME queue \in Queues, NEW side \in BookSide, NEW touch \in Int, NEW n \in Nat,
           NEW rows, Shows(rows, side, touch, n)
    PROVE  Shows(Walk(side, touch, n, rows), side, touch, n + 1)
<1> DEFINE next == Rung(side, touch, n)
           qty  == qty_at(side, next)
           row  == [price |-> next, qty |-> qty]
           was  == Rungs(side, touch, n)
           now  == Rungs(side, touch, n + 1)
<1>0. /\ rows \in Seq(Row)
      /\ \A i \in 1..Len(rows) : /\ rows[i].price \in was
                                 /\ rows[i].qty = qty_at(side, rows[i].price)
      /\ \A i, j \in 1..Len(rows) : i < j => Better(side, rows[i].price, rows[j].price)
      /\ Len(rows) = Lesser(kDepthShown, Cardinality(was))
      /\ \A p \in was : \/ \E i \in 1..Len(rows) : rows[i].price = p
                        \/ /\ Len(rows) = kDepthShown
                           /\ \A i \in 1..Len(rows) : Better(side, rows[i].price, p)
  BY DEF Shows
<1>1. /\ ~(qty > 0) => now = was
      /\ qty > 0 => /\ now = was \cup {next}
                    /\ \A p \in was : p # next /\ Better(side, p, next)
  BY RungsMore
<1>2. /\ IsFiniteSet(was) /\ Cardinality(was) \in Nat /\ Len(rows) \in Nat
      /\ kDepthShown \in Nat
  BY <1>0, RungsFinite, LadderAssumption
<1>3. Walk(side, touch, n, rows) =
          IF Len(rows) < kDepthShown /\ qty > 0 THEN Append(rows, row) ELSE rows
  BY DEF Walk
<1>4. next \in Int /\ qty \in Int
  <2>1. n + 1 \in Nat /\ n < n + 1
    OBVIOUS
  <2> QED BY <2>1, RungsApart, QtyAtIs
<1>5. row \in Row /\ row.price = next /\ row.qty = qty_at(side, next)
  BY <1>4 DEF Row
<1> HIDE DEF next, qty, row, was, now
<1>6. qty > 0 => Cardinality(now) = Cardinality(was) + 1
  <2> SUFFICES ASSUME qty > 0 PROVE Cardinality(now) = Cardinality(was) + 1
    OBVIOUS
  <2>1. now = was \cup {next} /\ next \notin was
    BY <1>1
  <2> QED BY <2>1, <1>2, FS_AddElement
<1>7. CASE ~(qty > 0)
  BY <1>1, <1>3, <1>7 DEF Shows, was, now
<1>8. CASE qty > 0 /\ Len(rows) < kDepthShown
  <2> DEFINE more == Append(rows, row)
  <2>1. /\ more \in Seq(Row) /\ Len(more) = Len(rows) + 1 /\ more[Len(rows) + 1] = row
        /\ \A i \in 1..Len(rows) : more[i] = rows[i]
    BY <1>0, <1>5, AppendProperties
  <2> HIDE DEF more
  <2>2. \A i \in 1..Len(more) : i \in 1..Len(rows) \/ i = Len(rows) + 1
    BY <1>2, <2>1
  <2>3. \A i \in 1..Len(rows) : i \in 1..Len(more)
    BY <1>2, <2>1
  <2>4. Len(rows) + 1 \in 1..Len(more)
    BY <1>2, <2>1
  <2>5. \A i \in 1..Len(more) : /\ more[i].price \in now
                                /\ more[i].qty = qty_at(side, more[i].price)
    BY <1>0, <1>1, <1>5, <1>8, <2>1, <2>2
  <2>6. ASSUME NEW i \in 1..Len(more), NEW j \in 1..Len(more), i < j
        PROVE  Better(side, more[i].price, more[j].price)
    <3>1. i \in 1..Len(rows)
      BY <1>2, <2>1, <2>6
    <3>2. CASE j \in 1..Len(rows)
      BY <1>0, <2>1, <2>6, <3>1, <3>2
    <3>3. CASE j = Len(rows) + 1
      BY <1>0, <1>1, <1>5, <1>8, <2>1, <3>1, <3>3
    <3> QED BY <2>2, <3>2, <3>3
  <2>7. Len(more) = Lesser(kDepthShown, Cardinality(now))
    <3>1. Len(rows) = Cardinality(was)
      BY <1>0, <1>2, <1>8 DEF Lesser
    <3> QED BY <3>1, <1>2, <1>6, <1>8, <2>1 DEF Lesser
  <2>8. ASSUME NEW p \in now PROVE \E i \in 1..Len(more) : more[i].price = p
    <3>1. CASE p = next
      BY <1>5, <2>1, <2>4, <3>1
    <3>2. CASE p \in was
      <4>1. Len(rows) # kDepthShown
        BY <1>2, <1>8
      <4>2. PICK i \in 1..Len(rows) : rows[i].price = p
        BY <1>0, <3>2, <4>1
      <4> QED BY <2>1, <2>3, <4>2
    <3> QED BY <1>1, <1>8, <3>1, <3>2
  <2>9. Walk(side, touch, n, rows) = more
    BY <1>3, <1>8 DEF more
  <2> QED BY <2>1, <2>5, <2>6, <2>7, <2>8, <2>9 DEF Shows, now
<1>9. CASE qty > 0 /\ ~(Len(rows) < kDepthShown)
  <2>1. Len(rows) = kDepthShown /\ Len(rows) = Lesser(kDepthShown, Cardinality(now))
    BY <1>0, <1>2, <1>6, <1>9 DEF Lesser
  <2>2. ASSUME NEW p \in now
        PROVE  \/ \E i \in 1..Len(rows) : rows[i].price = p
               \/ /\ Len(rows) = kDepthShown
                  /\ \A i \in 1..Len(rows) : Better(side, rows[i].price, p)
    <3>1. CASE p = next
      BY <1>0, <1>1, <1>9, <2>1, <3>1
    <3>2. CASE p \in was
      BY <1>0, <3>2
    <3> QED BY <1>1, <1>9, <3>1, <3>2
  <2>3. \A i \in 1..Len(rows) : rows[i].price \in now
    BY <1>0, <1>1, <1>9
  <2>4. Walk(side, touch, n, rows) = rows
    BY <1>3, <1>9
  <2> QED BY <1>0, <2>1, <2>2, <2>3, <2>4 DEF Shows, now
<1> QED BY <1>7, <1>8, <1>9

LEMMA LadderShows ==
    ASSUME queue \in Queues, NEW side \in BookSide, NEW touch \in Int, Best(side) = {touch}
    PROVE  Shows(ladder(side), side, touch, kLadderScanLimit)
<1>0. kLadderScanLimit \in Nat
  BY LadderAssumption
<1>1. PICK walk : IsWalk(walk, side, touch) /\ ladder(side) = walk[kLadderScanLimit]
  BY LadderIs
<1> DEFINE S == {n \in Nat : n <= kLadderScanLimit => Shows(walk[n], side, touch, n)}
<1>2. 0 \in S
  BY <1>1, ShowsFirst DEF IsWalk
<1>3. ASSUME NEW n \in Nat, n \in S PROVE n + 1 \in S
  <2>1. ASSUME n + 1 <= kLadderScanLimit PROVE Shows(walk[n + 1], side, touch, n + 1)
    <3>1. n + 1 \in 1..kLadderScanLimit /\ (n + 1) - 1 = n /\ n <= kLadderScanLimit
      BY <1>0, <2>1
    <3>2. walk[n + 1] = Walk(side, touch, n, walk[n])
      BY <1>1, <3>1 DEF IsWalk
    <3>3. Shows(walk[n], side, touch, n)
      BY <1>3, <3>1
    <3> QED BY <3>2, <3>3, ShowsMore
  <2> QED BY <2>1
<1> HIDE DEF S
<1>4. kLadderScanLimit \in S
  BY <1>0, <1>2, <1>3, EveryNat
<1> QED BY <1>0, <1>1, <1>4 DEF S

LEMMA ProductsOrder ==
    ASSUME NEW a \in Int, NEW b \in Int, NEW n \in Nat \ {0}
    PROVE  a * n \in Int /\ b * n \in Int /\ (a * n < b * n <=> a < b)
<1>1. a * n \in Int /\ b * n \in Int /\ (b - a) * n = b * n - a * n
  OBVIOUS
<1>2. CASE b - a >= 1
  <2>1. (b - a) * n >= n
    BY <1>2
  <2> QED BY ONLY <1>1, <1>2, <2>1, a \in Int, b \in Int, n \in Nat \ {0}
<1>3. CASE b - a <= 0
  <2>1. (b - a) * n <= 0
    BY <1>3
  <2> QED BY ONLY <1>1, <1>3, <2>1, a \in Int, b \in Int, n \in Nat \ {0}
<1> QED BY <1>2, <1>3

\* A price that is no better than the touch is a rung exactly if it is whole
\* cents from the touch, and among the first kLadderScanLimit if it is near.
LEMMA OnRung ==
    ASSUME NEW side \in BookSide, NEW touch \in Int, NEW p \in Int, ~Better(side, p, touch)
    PROVE  (/\ is_on_tick(p - touch, kCent)
            /\ p - touch < kCent * kLadderScanLimit
            /\ touch - p < kCent * kLadderScanLimit) <=>
           \E i \in 0..(kLadderScanLimit - 1) : p = Rung(side, touch, i)
<1> DEFINE N == kLadderScanLimit
           d == p - touch
           Near == is_on_tick(d, kCent) /\ d < kCent * N /\ touch - p < kCent * N
<1>0. /\ N \in Nat /\ N \in Int /\ kCent \in Nat \ {0} /\ d \in Int
      /\ kCent * N = N * kCent /\ N * kCent \in Int
      /\ touch - p = -d
  BY BoundsAssumption, LadderAssumption
<1>1. \A i : p = Rung(side, touch, i) <=> p = IF side = Buy THEN touch - i * kCent ELSE touch + i * kCent
  BY DEF Rung
<1>2. IF side = Buy THEN d <= 0 ELSE d >= 0
  BY DEF Better
<1>3. is_on_tick(d, kCent) <=> d % kCent = 0
  BY <1>0, OnTickIsMultiple
<1>4. ASSUME Near PROVE \E i \in 0..(N - 1) : p = Rung(side, touch, i)
  <2>1. PICK k \in Int : d = k * kCent
    BY <1>0, <1>3, <1>4, ModMultiple
  <2> DEFINE i == IF side = Buy THEN -k ELSE k
  <2>2. i \in Int /\ i * kCent = (IF side = Buy THEN -d ELSE d) /\ i * kCent \in Int
    <3>1. (-k) * kCent = -(k * kCent)
      BY <1>0
    <3> QED BY <1>0, <2>1, <3>1
  <2> HIDE DEF i
  <2>3. i * kCent < N * kCent /\ ~(i * kCent < 0 * kCent)
    <3>1. 0 * kCent = 0
      BY <1>0
    <3>2. d < N * kCent /\ -d < N * kCent
      BY <1>0, <1>4
    <3> HIDE DEF d
    <3> QED BY ONLY <1>0, <1>2, <2>2, <3>1, <3>2
  <2>4. i < N /\ ~(i < 0)
    BY <1>0, <2>2, <2>3, ProductsOrder
  <2>5. i \in 0..(N - 1)
    BY <1>0, <2>2, <2>4
  <2>6. p = IF side = Buy THEN touch - i * kCent ELSE touch + i * kCent
    BY <1>0, <2>2
  <2> HIDE DEF N
  <2> QED BY <1>1, <2>5, <2>6
<1>5. ASSUME NEW i \in 0..(N - 1), p = Rung(side, touch, i) PROVE Near
  <2>1. i \in Int /\ -i \in Int /\ 0 <= i /\ i < N
    BY <1>0
  <2>2. /\ i * kCent \in Int /\ (-i) * kCent = -(i * kCent)
        /\ 0 * kCent = 0 /\ i * kCent < N * kCent /\ ~(i * kCent < 0 * kCent)
    <3>1. i * kCent < N * kCent /\ i * kCent \in Int
      BY <1>0, <2>1, ProductsOrder
    <3>2. ~(i * kCent < 0 * kCent)
      BY <1>0, <2>1, ProductsOrder
    <3> QED BY <1>0, <2>1, <3>1, <3>2
  <2>3. d = IF side = Buy THEN -(i * kCent) ELSE i * kCent
    BY <1>0, <1>1, <1>5, <2>2
  <2>4. d = IF side = Buy THEN (-i) * kCent ELSE i * kCent
    BY <2>2, <2>3
  <2>5. d % kCent = 0
    BY <1>0, <2>1, <2>4, MultipleMod
  <2> HIDE DEF d
  <2>6. d < N * kCent /\ -d < N * kCent
    BY ONLY <1>0, <2>2, <2>3
  <2> QED BY <1>0, <1>3, <2>5, <2>6
<1> QED BY <1>4, <1>5

\* A side with an order has one best price, and nothing rests ahead of it.
LEMMA BestIsOne ==
    ASSUME NEW side \in BookSide, NEW touch \in Best(side)
    PROVE  /\ touch \in Prices /\ touch \in Int
           /\ Best(side) = {touch}
           /\ \A p \in Prices : queue[side][p] # <<>> => ~Better(side, p, touch)
<1>1. /\ touch \in Prices /\ touch \in Int /\ queue[side][touch] # <<>>
      /\ \A q \in Prices : Better(side, q, touch) => queue[side][q] = <<>>
  BY PricesAssumption DEF Best
<1>2. ASSUME NEW p \in Best(side) PROVE p = touch
  <2>1. /\ p \in Prices /\ p \in Int /\ queue[side][p] # <<>>
        /\ \A q \in Prices : Better(side, q, p) => queue[side][q] = <<>>
    BY PricesAssumption DEF Best
  <2>2. ~Better(side, p, touch) /\ ~Better(side, touch, p)
    BY <1>1, <2>1
  <2> QED BY <1>1, <2>1, <2>2 DEF Better
<1> QED BY <1>1, <1>2

Reached(side) ==
    {p \in Prices : /\ qty_at(side, p) > 0
                    /\ \E touch \in Best(side) :
                         /\ is_on_tick(p - touch, kCent)
                         /\ p - touch < kCent * kLadderScanLimit
                         /\ touch - p < kCent * kLadderScanLimit}

LEMMA ReachedAre ==
    ASSUME queue \in Queues, NEW side \in BookSide, NEW touch \in Best(side)
    PROVE  Reached(side) = Rungs(side, touch, kLadderScanLimit)
<1>1. /\ touch \in Prices /\ touch \in Int /\ Best(side) = {touch}
      /\ \A p \in Prices : queue[side][p] # <<>> => ~Better(side, p, touch)
  BY BestIsOne
<1>2. ASSUME NEW p \in Prices, qty_at(side, p) > 0
      PROVE  (/\ is_on_tick(p - touch, kCent)
              /\ p - touch < kCent * kLadderScanLimit
              /\ touch - p < kCent * kLadderScanLimit) <=>
             \E i \in 0..(kLadderScanLimit - 1) : p = Rung(side, touch, i)
  <2>1. queue[side][p] # <<>> /\ p \in Int
    BY <1>2, QtyAtIs, PricesAssumption
  <2>2. ~Better(side, p, touch)
    BY <1>1, <2>1
  <2> QED BY <1>1, <2>1, <2>2, OnRung
<1> DEFINE Near(p, t) == /\ is_on_tick(p - t, kCent)
                         /\ p - t < kCent * kLadderScanLimit
                         /\ t - p < kCent * kLadderScanLimit
           On(p) == \E i \in 0..(kLadderScanLimit - 1) : p = Rung(side, touch, i)
<1>3. \A p \in Prices : qty_at(side, p) > 0 => (Near(p, touch) <=> On(p))
  BY <1>2
<1>4. Reached(side) = {p \in Prices : qty_at(side, p) > 0 /\ \E t \in Best(side) : Near(p, t)}
  BY DEF Reached
<1>5. Rungs(side, touch, kLadderScanLimit) = {p \in Prices : qty_at(side, p) > 0 /\ On(p)}
  BY DEF Rungs
<1> HIDE DEF Near, On
<1> QED BY <1>1, <1>3, <1>4, <1>5

\* What the property says of the rows of a side.
LadderOf(side, rows) ==
    LET shown == {rows[i].price : i \in DOMAIN rows}
    IN  /\ shown \subseteq Reached(side)
        /\ Len(rows) = Lesser(kDepthShown, Cardinality(Reached(side)))
        /\ \A i \in DOMAIN rows : rows[i].qty = qty_at(side, rows[i].price)
        /\ \A i, j \in DOMAIN rows : i < j => Better(side, rows[i].price, rows[j].price)
        /\ \A p \in shown, q \in Reached(side) \ shown : Better(side, p, q)

LEMMA LadderOfSide ==
    ASSUME queue \in Queues, NEW side \in BookSide
    PROVE  LadderOf(side, ladder(side))
<1>1. CASE Best(side) = {}
  <2>1. ladder(side) = <<>>
    BY <1>1 DEF ladder
  <2>2. Reached(side) = {}
    BY <1>1 DEF Reached
  <2>3. Cardinality(Reached(side)) = 0
    BY <2>2, FS_EmptySet
  <2>4. Len(<<>>) = Lesser(kDepthShown, 0)
    BY LadderAssumption DEF Lesser
  <2>5. DOMAIN <<>> = {}
    OBVIOUS
  <2> QED BY <2>1, <2>2, <2>3, <2>4, <2>5 DEF LadderOf
<1>2. ASSUME NEW touch \in Best(side) PROVE LadderOf(side, ladder(side))
  <2> DEFINE rows == ladder(side)
             reached == Reached(side)
  <2>1. touch \in Int /\ Best(side) = {touch} /\ reached = Rungs(side, touch, kLadderScanLimit)
    BY BestIsOne, ReachedAre
  <2>2. Shows(rows, side, touch, kLadderScanLimit)
    BY <2>1, LadderShows
  <2> HIDE DEF rows, reached
  <2>3. /\ rows \in Seq(Row)
        /\ \A i \in 1..Len(rows) : /\ rows[i].price \in reached
                                   /\ rows[i].qty = qty_at(side, rows[i].price)
        /\ \A i, j \in 1..Len(rows) : i < j => Better(side, rows[i].price, rows[j].price)
        /\ Len(rows) = Lesser(kDepthShown, Cardinality(reached))
        /\ \A p \in reached : \/ \E i \in 1..Len(rows) : rows[i].price = p
                              \/ \A i \in 1..Len(rows) : Better(side, rows[i].price, p)
    BY <2>1, <2>2 DEF Shows
  <2>4. DOMAIN rows = 1..Len(rows)
    BY <2>3
  <2> DEFINE shown == {rows[i].price : i \in DOMAIN rows}
  <2>5. shown \subseteq reached
    BY <2>3, <2>4
  <2>6. ASSUME NEW p \in shown, NEW q \in reached \ shown PROVE Better(side, p, q)
    <3>1. PICK i \in 1..Len(rows) : p = rows[i].price
      BY <2>4
    <3>2. ~ \E j \in 1..Len(rows) : rows[j].price = q
      BY <2>4
    <3> QED BY <2>3, <3>1, <3>2
  <2> QED BY <2>3, <2>4, <2>5, <2>6 DEF LadderOf, rows, reached
<1> QED BY <1>1, <1>2

\* The ladder printed for a side shows, of the prices its walk can reach, the
\* kDepthShown best with a quantity, best first: it skips none and repeats
\* none, whatever rests in the book (main.cpp:72-89).
THEOREM LadderCorrect == Spec => []LadderShowsBest
<1>1. IInv => LadderShowsBest
  <2> SUFFICES ASSUME IInv, NEW side \in BookSide PROVE LadderOf(side, ladder(side))
    BY DEF LadderShowsBest, LadderOf, Reached
  <2>1. queue \in Queues
    BY IInvParts DEF BookType
  <2> QED BY <2>1, LadderOfSide
<1> QED BY <1>1, Invariance, PTL
=============================================================================
