-------------------------------- MODULE Price --------------------------------
(***************************************************************************)
(* common::Price: a price is a signed count of ticks, kDecimals of them to *)
(* the decimal place, so here it is an integer.  What the class does with  *)
(* one: read it from a decimal text, print it, and move it down or up to a *)
(* multiple of a tick size.                                                *)
(*                                                                         *)
(* A text is a sequence of characters.  The arithmetic is of int64_t and   *)
(* long long; the integers here are those of texts short enough for it.    *)
(***************************************************************************)
EXTENDS Integers, Sequences, SequencesExt

CONSTANT kDecimals  \* 4 implied decimals in the code, where 10^4 is kPriceScale

ASSUME DecimalsAssumption == kDecimals \in Nat \ {0}

\* The table of powers; its last is kPriceScale.
kPow10[n \in Nat] == IF n = 0 THEN 1 ELSE 10 * kPow10[n - 1]
kPriceScale == kPow10[kDecimals]
-----------------------------------------------------------------------------
(***************************************************************************)
(* Rounding to a tick                                                      *)
(***************************************************************************)
\* Division and remainder in C++ truncate towards zero.
Quotient(m, n)  == IF m >= 0 THEN m \div n ELSE -((-m) \div n)
Remainder(m, n) == m - Quotient(m, n) * n

\* Mutant of round_down_to_tick: the naive form, which rounds towards zero.
RoundTowardsZero(ticks, tick_size) ==
    IF tick_size <= 0 THEN 0 ELSE Quotient(ticks, tick_size) * tick_size

round_down_to_tick(ticks, tick_size) ==
    IF tick_size <= 0 THEN 0
    ELSE IF ticks >= 0 \/ Remainder(ticks, tick_size) = 0
         THEN Quotient(ticks, tick_size) * tick_size
         ELSE Quotient(ticks - tick_size, tick_size) * tick_size

round_up_to_tick(ticks, tick_size) ==
    IF tick_size <= 0 THEN 0
    ELSE IF ticks <= 0 \/ Remainder(ticks, tick_size) = 0
         THEN Quotient(ticks, tick_size) * tick_size
         ELSE Quotient(ticks + tick_size, tick_size) * tick_size

is_on_tick(ticks, tick_size) ==
    round_down_to_tick(ticks, tick_size) = round_up_to_tick(ticks, tick_size)

\* m is the greatest multiple of tick_size at or below ticks, or the least at
\* or above.
IsFloor(m, ticks, tick_size) ==
    m % tick_size = 0 /\ m <= ticks /\ ticks < m + tick_size
IsCeiling(m, ticks, tick_size) ==
    m % tick_size = 0 /\ ticks <= m /\ m < ticks + tick_size
-----------------------------------------------------------------------------
(***************************************************************************)
(* Reading a text                                                          *)
(***************************************************************************)
Digits  == <<"0", "1", "2", "3", "4", "5", "6", "7", "8", "9">>
Signs   == {"+", "-"}
Digit(c) == CHOOSE d \in 0..9 : Digits[d + 1] = c
IsDigit(c) == \E d \in DOMAIN Digits : Digits[d] = c

\* The locals of the loop; post_dot_count is -1 until there is a dot.
BeforeText == [malformed |-> FALSE, i |-> 0, dot_count |-> 0, post_dot_count |-> -1,
               ifNegative |-> FALSE, integral_part |-> 0, decimal_part |-> 0]

\* One round of the loop.  A sign is a sign at the front only, and a second
\* dot is counted here and refused below.
Scan(at, c) ==
    LET has_dot == c = "." \/ at.post_dot_count >= 0
        shifted(part) == IF IsDigit(c) THEN part * 10 + Digit(c) ELSE part
    IN  [malformed |-> \/ at.malformed
                       \/ ~IsDigit(c) /\ c \notin Signs \cup {"."}
                       \/ c \in Signs /\ at.i # 0,
         i |-> at.i + 1,
         dot_count |-> at.dot_count + (IF c = "." THEN 1 ELSE 0),
         post_dot_count |-> at.post_dot_count + (IF has_dot THEN 1 ELSE 0),
         ifNegative |-> at.ifNegative \/ c = "-",
         integral_part |-> IF has_dot THEN at.integral_part ELSE shifted(at.integral_part),
         decimal_part |-> IF has_dot THEN shifted(at.decimal_part) ELSE 0]

\* The loop.
Scanned(text) ==
    LET upTo[n \in 0..Len(text)] == IF n = 0 THEN BeforeText ELSE Scan(upTo[n - 1], text[n])
    IN  upTo[Len(text)]

\* Mutant of IsPrice: the dots are not counted.
IsPriceWithDots(text) ==
    /\ text # <<>>
    /\ ~Scanned(text).malformed
    /\ ~(Len(text) = 1 /\ text[1] \in Signs \cup {"."})
    /\ Scanned(text).post_dot_count <= kDecimals

\* The text is a price: from_string returns true.
IsPrice(text) ==
    /\ text # <<>>
    /\ ~Scanned(text).malformed
    /\ Scanned(text).dot_count <= 1
    /\ ~(Len(text) = 1 /\ text[1] \in Signs \cup {"."})
    /\ Scanned(text).post_dot_count <= kDecimals

\* The price that from_string makes of such a text.
from_string(text) ==
    LET at       == Scanned(text)
        decimals == IF at.post_dot_count >= 0
                    THEN at.decimal_part * kPow10[kDecimals - at.post_dot_count] ELSE 0
        temp     == at.integral_part * kPriceScale + decimals
    IN  IF at.ifNegative THEN -temp ELSE temp
-----------------------------------------------------------------------------
(***************************************************************************)
(* Printing                                                                *)
(***************************************************************************)
\* std::to_string of a number without its sign.
Decimal[n \in Nat] ==
    IF n < 10 THEN <<Digits[n + 1]>> ELSE Append(Decimal[n \div 10], Digits[(n % 10) + 1])

\* At least one digit before the dot and kDecimals after it.
Padded(str) == [i \in 1..(kDecimals + 1 - Len(str)) |-> "0"] \o str

to_string(ticks) ==
    LET str == Padded(Decimal[IF ticks < 0 THEN -ticks ELSE ticks])
        dot == Len(str) - kDecimals
    IN  (IF ticks < 0 THEN <<"-">> ELSE <<>>)
            \o SubSeq(str, 1, dot) \o <<".">> \o SubSeq(str, dot + 1, Len(str))
=============================================================================
