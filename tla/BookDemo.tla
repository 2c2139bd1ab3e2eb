------------------------------ MODULE BookDemo -------------------------------
(***************************************************************************)
(* tools/book_demo: a script of orders and cancels run through one of the  *)
(* four books, line after line, with a report after each.                  *)
(*                                                                         *)
(* The program is the caller of the book: it numbers the orders, reads     *)
(* their limits with Price::from_string, and has to tell from the fills    *)
(* and from one returned quantity what became of each.  The book is        *)
(* PriceTimeBook, a trade at a time: `map` holds every price, `array` the  *)
(* prices of its window, and `pool` and `flat` those prices and no more    *)
(* than kMaxOrders orders.                                                 *)
(***************************************************************************)
EXTENDS Price, BookTypes, FiniteSetsExt

CONSTANTS Books,            \* the books --book may choose
          Lines(_, _),      \* the lines a script for a book may have at a line number
          kMaxLines,        \* bound: lines in a script
          Prices,           \* the prices in play; a script for `map` names no other
          WindowPrices,     \* those ArrayOrderBook has a level for
          kMaxOrders,       \* slots of the pool
          kCent,            \* ticks between two rungs of the ladder
          kDepthShown,      \* rungs shown for a side
          kLadderScanLimit, \* rungs tried
          None              \* no submit is being worked

NoLine == [verb |-> "no line"]
Refs   == 1..kMaxLines

VARIABLES which,    \* the book chosen
          queue, taker, fills, result,  \* the book; see PriceTimeBook
          line_no,  \* how many lines have been read
          command,  \* the line at work, or NoLine
          next_ref, \* the last reference number given to an order
          totals,   \* the struct Totals
          said,     \* what the last report said of its order or cancel
          status,   \* "running"; run_script returned true: "done", or false: "failed"
          ledger    \* history: shares asked for, cancelled, and turned away

bookVars == <<queue, taker, fills, result>>
vars     == <<which, bookVars, line_no, command, next_ref, totals, said, status, ledger>>

Map    == INSTANCE PriceTimeBook WITH Qtys <- Int, Tradable <- Prices, Capacity <- -1
Array  == INSTANCE PriceTimeBook WITH Qtys <- Int, Tradable <- WindowPrices, Capacity <- -1
Pooled == INSTANCE PriceTimeBook WITH Qtys <- Int, Tradable <- WindowPrices,
                                      Capacity <- kMaxOrders

InBook(ref) == Map!InBook(ref)

\* A line is a verb with what follows it: of an order a quantity and the text
\* of a price, of a cancel a reference.  A line without one of these, or with
\* another verb, is unreadable.
Line == [verb : {"BUY", "SELL"}, qty : Int, text : Seq(STRING)]
            \cup [verb : {"CANCEL"}, ref : Nat] \cup [verb : {"#", "unreadable"}]

IsOrder(line) == line.verb \in {"BUY", "SELL"}
SideOf(line)  == IF line.verb = "BUY" THEN Buy ELSE Sell

ASSUME LinesAssumption ==
    \A book \in Books, n \in 1..kMaxLines : \A line \in Lines(book, n) :
        /\ line \in Line
        /\ book = "map" /\ IsOrder(line) /\ IsPrice(line.text) => from_string(line.text) \in Prices
ASSUME BooksAssumption ==
    Books \subseteq {"map", "array", "pool", "flat"} /\ WindowPrices \subseteq Prices
ASSUME PricesAssumption == Prices \subseteq Int /\ IsFiniteSet(Prices)
ASSUME BoundsAssumption == kMaxLines \in Nat /\ kCent \in Nat \ {0}
ASSUME LadderAssumption == kDepthShown \in Nat /\ kLadderScanLimit \in Nat
ASSUME NoneAssumption   == None \notin Map!Taker

Init ==
    /\ which \in Books
    /\ Map!Init
    /\ line_no = 0
    /\ command = NoLine
    /\ next_ref = 0
    /\ totals = [submitted |-> 0, cancelled |-> 0, fills |-> 0, volume |-> 0]
    /\ said = "nothing yet"
    /\ status = "running"
    /\ ledger = [asked |-> 0, cancelled |-> 0, away |-> 0]
-----------------------------------------------------------------------------
\* getline: the next line of the script.
ReadLine(line) ==
    /\ status = "running"
    /\ command = NoLine
    /\ line \in Lines(which, line_no + 1)
    /\ line_no < kMaxLines
    /\ line_no' = line_no + 1

\* An order is given the next number and submitted.
SubmitOrder(line) ==
    /\ ReadLine(line)
    /\ IsOrder(line)
    /\ IsPrice(line.text)
    /\ command' = line
    /\ next_ref' = next_ref + 1
    /\ LET limit == from_string(line.text)
       IN  \/ /\ which = "map"
              /\ Map!Arrive(next_ref', SideOf(line), line.qty, limit)
           \/ /\ which # "map"
              /\ \/ Array!Arrive(next_ref', SideOf(line), line.qty, limit)
                 \/ Array!Refuse(next_ref', limit)
    /\ ledger' = [ledger EXCEPT !.asked = @ + line.qty,
                                !.away = @ + (IF taker' = None THEN line.qty ELSE 0)]
    /\ UNCHANGED <<which, totals, said, status>>

\* Mutant of Matching: a trade for less than nothing is passed over, and the
\* order that came to it goes round again.
MatchingPassesOver ==
    /\ \/ which = "map" /\ (Map!Trade \/ Map!Rest \/ Map!Done)
       \/ which = "array" /\ (Array!Trade \/ Array!Rest \/ Array!Done)
       \/ which \in {"pool", "flat"} /\ Pooled!Working
    /\ \A i \in DOMAIN fills' : fills'[i].qty > 0
    /\ ledger' = IF taker' = None /\ UNCHANGED queue
                 THEN [ledger EXCEPT !.away = @ + taker.remaining] ELSE ledger
    /\ UNCHANGED <<which, line_no, command, next_ref, totals, said, status, ledger>>

\* The call of the book.  Only a book with a pool can run out of room.
Matching ==
    /\ \/ which = "map" /\ (Map!Trade \/ Map!Rest \/ Map!Done)
       \/ which = "array" /\ (Array!Trade \/ Array!Rest \/ Array!Done)
       \/ which \in {"pool", "flat"} /\ Pooled!Working
    /\ ledger' = IF taker' = None /\ UNCHANGED queue
                 THEN [ledger EXCEPT !.away = @ + taker.remaining] ELSE ledger
    /\ UNCHANGED <<which, line_no, command, next_ref, totals, said, status>>

PriceRefused ==
    "nothing filled, nothing rested: price is off-grid or outside this book's window"

\* Mutant of Verdict: a submit that returns 0 has filled its order.
VerdictByResult(filled, rested) ==
    IF rested > 0 THEN "rested" ELSE "fully filled, nothing rested"

\* What the report of an order says of it.
Verdict(filled, rested) ==
    IF rested > 0 THEN "rested"
    ELSE IF filled = <<>> THEN PriceRefused ELSE "fully filled, nothing rested"

\* What a list of fills comes to.
Volume(filled) == Total([i \in DOMAIN filled |-> filled[i].qty])

\* Mutant of Counted: one fill for a call, however many it had.
CountedOnce(filled) ==
    [totals EXCEPT !.submitted = @ + 1,
                   !.fills = @ + (IF filled = <<>> THEN 0 ELSE 1),
                   !.volume = @ + (IF filled = <<>> THEN 0 ELSE filled[Len(filled)].qty)]

\* The totals with one order more, and its fills.
Counted(filled) ==
    [totals EXCEPT !.submitted = @ + 1,
                   !.fills = @ + Len(filled),
                   !.volume = @ + Volume(filled)]

\* The call has returned, and its fills and what rests are printed.
ReportOrder ==
    /\ status = "running"
    /\ command # NoLine
    /\ taker = None
    /\ totals' = Counted(fills)
    /\ said' = Verdict(fills, result)
    /\ command' = NoLine
    /\ UNCHANGED <<which, bookVars, line_no, next_ref, status, ledger>>

\* A cancel is called and reported.
CancelOrder(line) ==
    /\ ReadLine(line)
    /\ line.verb = "CANCEL"
    /\ Map!Cancel(line.ref) \/ Map!CancelUnknown(line.ref)
    /\ totals' = [totals EXCEPT !.cancelled = @ + (IF result' > 0 THEN 1 ELSE 0)]
    /\ said' = IF result' > 0 THEN "cancelled"
             ELSE "nothing to cancel: already filled, already cancelled, or never existed"
    /\ ledger' = [ledger EXCEPT !.cancelled = @ + result']
    /\ UNCHANGED <<which, command, next_ref, status>>

SkipComment(line) ==
    /\ ReadLine(line)
    /\ line.verb = "#"
    /\ UNCHANGED <<which, bookVars, command, next_ref, totals, said, status, ledger>>

\* A line that cannot be read, or whose price is none, ends the run.
RejectLine(line) ==
    /\ ReadLine(line)
    /\ line.verb = "unreadable" \/ (IsOrder(line) /\ ~IsPrice(line.text))
    /\ command' = line
    /\ status' = "failed"
    /\ UNCHANGED <<which, bookVars, next_ref, totals, said, ledger>>

\* The script has no more lines.
EndOfScript ==
    /\ status = "running"
    /\ command = NoLine
    /\ status' = "done"
    /\ UNCHANGED <<which, bookVars, line_no, command, next_ref, totals, said, ledger>>
-----------------------------------------------------------------------------
(***************************************************************************)
(* The ladder                                                              *)
(***************************************************************************)
\* best_bid(), best_ask(): a price, or none; and qty_at().
Best(side) ==
    {p \in Prices : queue[side][p] # <<>> /\ \A q \in Prices : Better(side, q, p) => queue[side][q] = <<>>}
qty_at(side, price) == IF price \in Prices THEN TotalLeft(queue[side][price]) ELSE 0

\* Mutant of Rung: the steps of both sides go up.
RungUp(side, touch, i) == touch + i * kCent

\* The price i steps outward from the touch.
Rung(side, touch, i) == IF side = Buy THEN touch - i * kCent ELSE touch + i * kCent

\* One step of the walk: rung i joins the rows, if it has a quantity above 0 and
\* there is room for it.
Walk(side, touch, i, rows) ==
    LET price == Rung(side, touch, i)
    IN  IF Len(rows) < kDepthShown /\ qty_at(side, price) > 0
        THEN Append(rows, [price |-> price, qty |-> qty_at(side, price)])
        ELSE rows

\* The rows print_book shows for a side, from the touch outward.
ladder(side) ==
    LET touch == CHOOSE p \in Best(side) : TRUE
        walked[n \in 0..kLadderScanLimit] ==
            IF n = 0 THEN <<>> ELSE Walk(side, touch, n - 1, walked[n - 1])
    IN  IF Best(side) = {} THEN <<>> ELSE walked[kLadderScanLimit]
-----------------------------------------------------------------------------
Next ==
    \/ \E line \in Lines(which, line_no + 1) :
          SubmitOrder(line) \/ CancelOrder(line) \/ SkipComment(line) \/ RejectLine(line)
    \/ Matching
    \/ ReportOrder
    \/ EndOfScript

Spec == Init /\ [][Next]_vars

\* A script is a file, and has an end; until then the program carries on.
FairSpec == Spec /\ WF_vars(Matching) /\ WF_vars(ReportOrder) /\ WF_vars(EndOfScript)
-----------------------------------------------------------------------------
(***************************************************************************)
(* Properties                                                              *)
(***************************************************************************)
BetweenLines == command = NoLine

\* Where an order rests, and what is left of it there.
Places(ref) == UNION {{<<side, p, i>> : i \in {j \in DOMAIN queue[side][p] :
                                                  queue[side][p][j].resting = ref}} :
                      side \in BookSide, p \in Prices}
Held(ref) == IF Places(ref) = {} THEN 0
             ELSE LET at == CHOOSE place \in Places(ref) : TRUE
                  IN  queue[at[1]][at[2]][at[3]].remainQty

\* Every structure has its type; no resting order has a number not yet given,
\* or the number of another.
TypeOK ==
    /\ Map!TypeOK
    /\ which \in Books
    /\ line_no \in 0..kMaxLines
    /\ next_ref \in 0..line_no
    /\ command \in Line \cup {NoLine}
    /\ totals \in [submitted : Nat, cancelled : Nat, fills : Nat, volume : Int]
    /\ totals.cancelled <= totals.submitted /\ totals.submitted <= next_ref
    /\ status \in {"running", "done", "failed"}
    /\ ledger \in [asked : Int, cancelled : Int, away : Int]
    /\ \A r \in Refs : /\ InBook(r) => r <= next_ref
                       /\ \A at, other \in Places(r) : at = other

\* A decimal text: a sign or none, digits with at most one dot among them, at
\* most kDecimals after it, and not a dot or a sign alone.  With a sign before
\* it a dot will do: price.cpp:66 looks at texts of one character.
WithoutSign(text) == IF text[1] \in Signs THEN Tail(text) ELSE text
DotAt(text) == IF Contains(text, ".") THEN CHOOSE i \in DOMAIN text : text[i] = "."
               ELSE Len(text) + 1
IsDecimal(text) ==
    /\ text \notin {<<>>, <<".">>, <<"+">>, <<"-">>}
    /\ LET body == WithoutSign(text)
       IN  /\ \A i \in DOMAIN body : i = DotAt(body) \/ IsDigit(body[i])
           /\ Len(body) - DotAt(body) <= kDecimals

\* The ticks of a decimal, place by place.
PlaceValue(body, i) ==
    kPow10[kDecimals + DotAt(body) - (IF i < DotAt(body) THEN i + 1 ELSE i)]
TicksOf(text) ==
    LET body  == WithoutSign(text)
        value == Total([i \in DOMAIN body |-> IF i = DotAt(body) THEN 0
                                              ELSE Digit(body[i]) * PlaceValue(body, i)])
    IN  IF text[1] = "-" THEN -value ELSE value

\* The script stops at an order exactly when its price is not a decimal; one
\* that is stands for the ticks its digits say, and is printed with kDecimals
\* decimals and a digit before them, in a form that reads back as the same.
PricesReadAndPrint ==
    IsOrder(command) =>
        LET limit   == from_string(command.text)
            printed == to_string(limit)
        IN  IF status = "failed" THEN ~IsDecimal(command.text)
            ELSE /\ IsDecimal(command.text)
                 /\ limit = TicksOf(command.text)
                 /\ IsPrice(printed) /\ from_string(printed) = limit
                 /\ DotAt(printed) = Len(printed) - kDecimals
                 /\ IsDigit(printed[DotAt(printed) - 1])

\* A limit, above zero or below, is rounded down to the nearest multiple of a
\* tick size at or below it, up to the nearest at or above it, and is on the
\* tick exactly when it is a multiple itself.
RoundsToTick ==
    IsOrder(command) /\ status = "running" =>
        LET limit == from_string(command.text)
        IN  \A tick_size \in 1..kCent :
                /\ IsFloor(round_down_to_tick(limit, tick_size), limit, tick_size)
                /\ IsCeiling(round_up_to_tick(limit, tick_size), limit, tick_size)
                /\ is_on_tick(limit, tick_size) <=> limit % tick_size = 0

\* The book has a level for the price; and every slot of its pool is taken.
HasLevel(price) == which = "map" \/ price \in WindowPrices
NoSlot == which \in {"pool", "flat"} /\ Cardinality({r \in Refs : InBook(r)}) >= kMaxOrders

\* What each report of an order stands for (main.cpp:214-226).  One that
\* "rested" rests with what its fills have left of it, and one "fully filled"
\* was filled to the share and is not in the book.  That its price was refused
\* is said of every order whose price was, but not only of them, as the comment
\* at main.cpp:217-219 has it: it is said too of an order that traded with
\* nothing and was for a quantity of 0, or found no slot (neither is in the
\* book), or was for less than 0, which is in the book as it came.
OutcomeTold ==
    [][IsOrder(command) /\ command' = NoLine =>
         LET limit == from_string(command.text)
         IN  /\ CASE said' = "rested" ->
                       Held(next_ref) > 0 /\ Held(next_ref) = command.qty - Volume(fills)
                  [] said' = "fully filled, nothing rested" ->
                       /\ ~InBook(next_ref)
                       /\ Volume(fills) = command.qty /\ command.qty > 0
                  [] said' = PriceRefused ->
                       /\ fills = <<>>
                       /\ \/ ~InBook(next_ref) /\ (~HasLevel(limit) \/ command.qty = 0 \/ NoSlot)
                          \/ HasLevel(limit) /\ command.qty < 0 /\ Held(next_ref) = command.qty
             /\ ~HasLevel(limit) => said' = PriceRefused]_vars

\* The summary adds up: every share asked for was traded (with another that
\* was asked for), rests, was cancelled or was turned away, whatever the sign.
SharesAddUp ==
    BetweenLines =>
        ledger.asked = 2 * totals.volume + Total([r \in Refs |-> Held(r)])
                         + ledger.cancelled + ledger.away

\* A bid at or above an ask can only be the doing of a quantity below 0: of
\* two orders that cross, the one that came later has such a quantity.
CrossedOnlyByNegative ==
    \A p, q \in Prices : p >= q =>
        \A i \in DOMAIN queue[Buy][p], j \in DOMAIN queue[Sell][q] :
            LET bid == queue[Buy][p][i]
                ask == queue[Sell][q][j]
            IN  IF bid.resting > ask.resting THEN bid.remainQty < 0 ELSE ask.remainQty < 0

\* The ladder is the kDepthShown best of the prices it can reach: those whole
\* cents from the touch, within the scan limit, with a quantity above 0.
LadderShowsBest ==
    BetweenLines => \A side \in BookSide :
        LET rows    == ladder(side)
            shown   == {rows[i].price : i \in DOMAIN rows}
            reached == {p \in Prices : /\ qty_at(side, p) > 0
                                       /\ \E touch \in Best(side) :
                                            /\ is_on_tick(p - touch, kCent)
                                            /\ p - touch < kCent * kLadderScanLimit
                                            /\ touch - p < kCent * kLadderScanLimit}
        IN  /\ shown \subseteq reached
            /\ Len(rows) = Lesser(kDepthShown, Cardinality(reached))
            /\ \A i \in DOMAIN rows : rows[i].qty = qty_at(side, rows[i].price)
            /\ \A i, j \in DOMAIN rows : i < j => Better(side, rows[i].price, rows[j].price)
            /\ \A p \in shown, q \in reached \ shown : Better(side, p, q)

\* A script comes to its end or to the line it stops at: no call of the book
\* goes round for ever, though a fill against a quantity below 0 leaves the
\* incoming order with more to do than before.
ScriptEnds == <>(status # "running")
=============================================================================
