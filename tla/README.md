# Order books of the low-latency equities trading project, in TLA+

The repository is a C++20 trading system in the making: a venue (matching
engine, market-data publisher) and a participant (feed handler, strategy, risk,
order gateway). Most of it is still a skeleton; what is written, and what this
directory is about, is `libs/matching`, four order books with one contract, each
built to remove one cost of the one before; the `Price` they are called with; and
`book_demo`, the program that runs a script of orders through a book. Three of
the books keep the same facts in several places at once, by hand, which is where
such code goes wrong.

## 1. Inventory

### Components with logic

| component | state | operations |
| --- | --- | --- |
| `OrderBook` (`order_book.{hpp,cpp}`) | a `std::map` price -> `Level` per side (bids with `std::greater`), a `std::list` of `RestingOrder` and a running `total_qty` in each level, an `unordered_map` ref -> `Locator` (side, price, list iterator), two order counters | `submit`, `cancel`, views `best_bid`, `best_ask`, `qty_at`, `empty`, `order_count` |
| `ArrayOrderBook` | arrays of 4096 levels over a price window, a 64-word occupancy bitmap per side, a hint to the best level per side, index, counters | the same; `submit` also refuses prices off the grid or outside the window; `next_up`, `next_down`, `on_level_occupied`, `on_level_emptied` |
| `PoolOrderBook` | the window and the touch as above; a fixed pool of `PooledOrder` slots with `prev` and `next`, a free list threaded through `next`, `head`/`tail` per level, an `unordered_map` ref -> slot | the same; `alloc`, `release`, `push_back`, `unlink`; a full pool refuses |
| `FlatOrderBook` | as above, with an open-addressed table ref -> slot (Empty, Occupied, Tombstone) and two counters instead of the `unordered_map` | the same; `ref_find`, `ref_insert`, `ref_erase` |
| `Side` and friends (`types.hpp`) | - | four sides, of which the books name two |
| `Price` (`price.hpp`, `price.cpp`) | a count of 1/10000 | parse, print, convert, round to a tick |
| `bits.hpp` | - | three helpers on powers of two |
| `book_demo` | one book, a ref counter, the vector of fills, totals | runs a script of BUY, SELL, CANCEL, reports after each line, prints a ladder of the best levels |
| `appkit`, `config_demo` | - | command line and configuration |
| `bench_matching` | the books | timed workloads |

A book is owned by one thread. It is called by its owner (tests, benchmarks,
`book_demo`; later the matching engine), calls nobody back, and appends to the
caller's vector of fills. The books share no state: they are four
implementations of one contract, written down in `order_book.hpp`. The other
three headers are `#include`d for their types only.

### Placeholders

`apps/venue/*`, `apps/participant/*`, `libs/ipc`, `libs/protocol`,
`tools/sim_client`, and `time`, `cpu`, `symbol` in `libs/common` hold empty
namespaces and a `main` that prints a line. `docs/ARCHITECTURE.md` designs them
(SPSC rings, sequencing, risk), but there is no code to model.

### What is hard here

There is no concurrency, no message and no crash: the difficulty is long
sequences of legal calls over redundant structures.

* Four facts are kept twice or more: which orders rest (lists, index, counters,
  free list), how much rests at a level (`total_qty`, list), which levels are
  occupied (bitmap, list heads), which is best (hint, bitmap).
* They are updated at different lines of two nested loops, so that each is
  stale for a while in the middle of a `submit`.
* Boundaries: level 0 and the last level, word boundaries, the sentinel; a pool
  of which the last slot is taken or given back in the same call; a table
  without an Empty entry.
* Loops that end only because each round makes headway, also against an order
  for less than nothing, which no book refuses.
* `submit` has one number for three outcomes (filled, refused, nothing asked),
  and `book_demo` has to tell its user which it was.
* Signed arithmetic that C++ truncates towards zero, and a parser that treats
  signs, dots and short fractions by cases.

`PROJECT.json` lists these as hazards, each at its line with the properties that
would catch it.

### What makes each component correct

* Every book: price-time priority; fills at the resting price; what is left
  rests, with `submit` returning it; `cancel` removes that order and no other
  and returns what it had left; never crossed; each call returns.
* `OrderBook`: no empty level in the maps; index and lists in step.
* `ArrayOrderBook`: bitmap follows lists, hints follow bitmap, prices it cannot
  hold are refused whole.
* `PoolOrderBook`: each slot is on exactly one list; queues doubly linked; an
  order is refused for want of a slot only if it has traded with nothing.
* `FlatOrderBook`: the table finds exactly the resting orders, whatever has
  been erased before.
* `Price`: a text is read exactly or refused, what is printed reads back as the
  same price, rounding is floor and ceiling for negative prices too.
* `book_demo`: each report stands for known cases, the totals add up, the ladder
  shows the best levels it can reach, a script ends.

## 2. Modules

| module | models |
| --- | --- |
| `BookTypes` | sides, which of two prices is better, when an order may trade at a price |
| `AtomicBook` | *abstract.* The contract of `submit` and `cancel` in one step each, over a list of orders in order of arrival, with no levels or queues: the opposing orders within the limit are ranked by price and arrival, and each receives what is left after those ranked before it |
| `PriceTimeBook` | *abstract.* The contract one trade at a time: a queue per side and price, a taker at work |
| `PriceTimeHistory` | a history variable over `PriceTimeBook` (the order of arrival, what the caller last saw), needed to map it to `AtomicBook` |
| `OrderBook` | `order_book.cpp`, for any quantity |
| `OrderBookContract` | the same for callers who keep to quantities above 0: what the proofs assume |
| `Bitmap`, `Window` | `next_up`, `next_down`; `index`, `on_level_occupied`, `on_level_emptied`, the touch. `ArrayOrderBook`'s, copied verbatim into the two books after it |
| `ArrayOrderBook` | `array_order_book.cpp` |
| `OrderPool` | `alloc`, `release`, `push_back`, `unlink` |
| `PooledBook` | what `PoolOrderBook` and `FlatOrderBook` share: `submit` and `cancel`, all but the index |
| `PoolOrderBook` | `pool_order_book.cpp`: `PooledBook` and a map ref -> slot |
| `RefTable` | `ref_find`, `ref_insert`, `ref_erase` |
| `FlatOrderBook` | `flat_order_book.cpp`: `PooledBook` and `RefTable` |
| `Price` | `price.hpp`, `price.cpp`: parsing, printing and rounding as operators on integers and sequences of characters |
| `BookDemo` | `tools/book_demo/main.cpp`: the loop over a script as the caller of a book, which is `PriceTimeBook`, once for each of `map`, `array` and the pooled two; the ladder |
| `OrderBookRefines`, `ArrayOrderBookRefines`, `PoolOrderBookRefines` | the mapping under which each book is `PriceTimeBook` |
| `FlatOrderBookRefines` | the mapping under which `FlatOrderBook` is `PoolOrderBook` |
| `MC...` | instances for TLC |
| `Lists_proofs` | lemmas about lists (a member taken out, the sum of what is left of its orders) and about functions defined round after round |
| `OrderBook_proofs` | theorems about `OrderBook`, its refinement among them |
| `Window_proofs` | lemmas about the bitmap, its searches, the hints, prices and levels |
| `ArrayOrderBook_proofs` | theorems about `ArrayOrderBook`, its refinement among them |
| `PooledBook_proofs` | lemmas about the free list, the queues and the steps the pooled books share |
| `PoolOrderBook_proofs` | theorems about `PoolOrderBook`, its refinement among them |
| `FlatOrderBook_proofs` | theorems about `FlatOrderBook` and its table, that refinement among them |
| `BookDemo_proofs` | theorems about `Price` and `BookDemo`, and the type of `PriceTimeBook` |

Who implements whom (each arrow is a PROPERTY of a run):

    FlatOrderBook -> PoolOrderBook -+
                     ArrayOrderBook +-> PriceTimeBook (with history) -> AtomicBook
                     OrderBook      +

`BookDemo` calls `PriceTimeBook`, so what its run shows of the caller holds with
any of the four behind it.

### How state and actions correspond to the code

`submit` is the one operation with loops, and it is split where they turn:

| action | code |
| --- | --- |
| `Submit` | entry: `fills.clear()`, `remaining = req.qty`, and in the window books the price has an index |
| `SubmitRefused` | `if(!index(...)) return 0` |
| `EnterLevel` | the condition of the outer loop holds |
| `FillFront` | one round of the inner loop, the removal of a spent order included |
| `LeaveLevel` | the inner loop has ended; the drained level is erased, or its bit and hint are updated |
| `SubmitFilled` | `if (remaining == 0) return 0` |
| `SubmitRests` | the rest path (in the flat book with the branch on `ref_insert`) |
| `SubmitNoSlot` | `alloc()` returned `kNil` |
| `SubmitFallsThrough` | neither `if` names the side: the final `return remaining` |
| `Cancel`, `CancelUnknown` | `cancel`, in one step |

`pc` says where `submit` is ("idle", "match" at the head of the outer loop,
"level" at the head of the inner one), `req` and `remaining` are its locals, and
an operation begins only at "idle", which is what one thread means. The actions
are finer than any caller can see; it lets invariants speak of the middle of a
`submit` and makes the termination of its loops a property.

What is abstracted: a `std::list` is a sequence and an iterator into it the
position of the locator's own ref, so that a locator without its node is visible
(`IndexAgrees`) rather than undefined; a bitmap word is the set of its bits; the
payload of a free pool slot is undefined (TLC reports a read of it) while its
links keep their stale values; the ref table's walk is the first entry along it
that satisfies the stopping condition. The two early returns of
`OrderBook::cancel` for a locator without a level are not modelled, being what
`IndexAgrees` excludes: were it to fail, the model would find no node to remove
and `Cancel` would be disabled.

`book_demo`'s loop is split where a book is called: `SubmitOrder` reads a line,
numbers the order and calls `submit`; `Matching` is a step of the book's;
`ReportOrder` is what follows the return. `CancelOrder`, `SkipComment`,
`RejectLine` and `EndOfScript` are whole turns of the loop, `cancel` being one
call without loops over levels. A line of a script is what the stream extraction
has made of it: a verb, a quantity, the text of a price, character by character
because the parser's cases are what is checked there. `ledger` is a history
variable: the shares asked for, cancelled and turned away, which the program does
not count.

What is assumed of callers of a book, stated in `order_book.hpp`: a ref is unique
among live orders. That quantities are positive is assumed by the invariants of
the detailed books and the proofs (`OrderBookContract`), and not by
`PriceTimeBook`, the refinements or `BookDemo`. Order type and time in force are
not in the model because no code reads them.

## 3. Runs

| run | what it shows | instance | distinct states |
| --- | --- | --- | --- |
| `price_time` | `PriceTimeBook` with its history implements `AtomicBook`; no order is filled beyond what it asked | 4 refs, at most 3 at rest, 2 ticks and a third that is refused, quantities 1 and 3 | 51,000 |
| `order_book` | invariants of the map-based book | 4 refs, 3 prices, quantities 1..2, three sides | 34,000 |
| `order_book_refines` | it implements `PriceTimeBook`; `submit` returns | 3 refs, 2 prices, quantities -1, 1, 2 | 187,000 |
| `array_book` | bitmap, hints, index, counters; the levels' prices and no others are taken | 6 levels in words of 2 bits, prices below, above and between | 372,000 |
| `array_book_refines` | it implements `PriceTimeBook`; `submit` returns | 4 levels, 3 refs, the first and the last price of the window and one before, between and behind the levels, quantities -1, 1, 2 | 187,000 |
| `pool_book` | slots, links, totals, bitmap, hints | 3 slots, 4 refs | 76,000 |
| `pool_book_refines` | it implements `PriceTimeBook` with capacity 2; short sales are sales | 2 slots, 3 refs, quantities -1, 2 | 109,000 |
| `flat_book` | it implements `PoolOrderBook`; table invariants | 2 slots, 4 entries, 1 level, refs 0, 2, 3, 7 | 564,000 |
| `book_demo` | prices are read and printed exactly and rounded right; what each report stands for; totals add up; a book is crossed only by a quantity below 0; the ladder; a script ends | see below | 245,000 |
| `order_book_short` | *violated:* "Returns the quantity left resting in the book" | 2 refs | |
| `pool_book_empty` | *violated:* "If an order arrives when the free list is empty, it is rejected" | 1 slot | |
| `flat_book_full` | *violated:* a table at load 0.5 always keeps an Empty entry | the same | |

### Why these bounds are enough

* Three prices let an order sweep one level, stop inside the next and leave a
  third untouched, and let a limit fall at, between and beyond occupied levels.
* Quantities 1 and 2 (1 and 3 for `price_time`) give exact fills, partial fills
  of either party, and one order filling several.
* Four refs allow a queue of three with an aggressor: first, middle and last to
  be filled or cancelled, `unlink`'s four cases, and a ref used again after it
  has left. Refs are symmetric where nothing does arithmetic on them.
* Words of two bits put word boundaries inside and at both ends of a window of
  four or six levels, so each mask, each skip of a zero word and both sentinels
  are met. 64 plays no other part in the code.
* A pool of two or three slots runs out; the orders of a level fill it.
* In `flat_book` two of four refs have the last entry for home, so walks wrap,
  pass tombstones and reuse them, and 0, the ref of an entry never used, is a
  real ref. States without an Empty entry are reached (it is what
  `flat_book_full` finds), so a search that only the bound ends is among those
  checked. One level is enough here: levels and refusals are `pool_book`'s.

* In `book_demo` a script has four lines: two orders of three prices and
  quantities -1, 1, 2 (or a cancel or a comment after the first), one above them
  or a cancel, and one that trades with what is there. Three orders before the
  last fill both slots of the pool and leave one over; a negative order is met
  by a later one, or crosses an earlier. The prices have a level, lie between
  two levels or above the window. The first line of a script for `array` is
  also, in turn, each of the 2,801 texts of up to four characters of
  `0 1 5 . - + x`: signs and dots anywhere, up to one decimal too many
  (kDecimals is 2 there), a letter. The ladder shows two rungs of three, so both
  of its bounds bite.

The refinement runs of `OrderBook` and `ArrayOrderBook` check `PriceTime!FairSpec`,
that of `PoolOrderBook` its safety part `PriceTime!Spec`; that a `submit` returns is
`SubmitReturns`, a property of its own in all three, under the fairness below.

No bound is placed on the length of a session of a book: every run but
`book_demo` explores all of it.

### Fairness

`FairSpec` is weak fairness of `Working`, the disjunction of the steps of a
`submit` that has begun. The code is a function running to its return with
nothing to wait for, so the thread that runs it takes the next step. Nothing is
assumed of callers: no submit or cancel has to come.

In `BookDemo` it is weak fairness of `Matching`, of `ReportOrder` and of
`EndOfScript`: the one thread of the program goes on from a call to its return
and from there to the report, and a script is a file, whose end is reached. It
does not say that lines are read: `EndOfScript` may come after any of them, which
is a shorter script. `ScriptEnds` is therefore about the calls of the book and
the loop, and not about `getline`. Deadlock is not checked: the program ends.

`flat_book` checks safety only, to afford four refs. Its `submit` returns all
the same: each of its steps is a step of `PoolOrderBook`'s `submit`, whose loops
end, and the run checks for deadlock, so that a step is possible whenever one
has begun.

### Findings

Each is a run that TLC ends with a counterexample.

1. `OrderBook` and `ArrayOrderBook` return the whole quantity of a short sale as
   resting, though nothing rests (`order_book.cpp:96`, against
   `order_book.hpp:127`); the two pooled books treat it as a sale. The four
   books are not interchangeable for such orders.
2. An order that arrives with the pool full is not rejected: it trades, and
   rests if its own fills freed a slot (`pool_order_book.cpp:231`, against
   `pool_order_book.hpp:62` and the comment at `pool_order_book.cpp:171`). What
   the comment is after does hold: no refusal is half applied, since an order
   that trades with part of a resting order has nothing left, and one that has
   something left has freed a slot. `PriceTimeBook`'s `Drop` demands exactly
   this and the refinement run checks it.
3. Tombstones are never turned back into Empty, so in the end the ref table has
   no Empty entry at any load (`flat_order_book.cpp:124`, against
   `flat_order_book.hpp:185`). The bound on the walks, which the comments call
   redundant at this load, is what ends a search for an absent ref.

### Also seen

Places where a comment and the code part ways, read while modelling. They have
no run of their own; the properties named say how far the code is right.

* `main.cpp:216` to `223` take every order without fills for which `submit`
  returned no more than 0 for the refusal of a price ("this is the refusal case — a
  price off the tick grid or outside ArrayOrderBook's window"), and print so. It may
  also be an order for 0, one that found no slot, whose price is then blamed, or one
  for less than 0, which *is* in the book. `OutcomeTold` lists what the report stands
  for; that its words are true is not claimed, and does not hold.
* Cancelling an order for less than 0 takes it out of the book and is reported
  as "nothing to cancel": `main.cpp:160` asks for more than 0.
* `main.cpp:25` to `27` say that prices off the whole cent rest correctly and
  only do not appear in the ladder. With `array`, `pool` and `flat` they are
  refused, and with `map` one of them at the touch hides every level on the cent,
  since the ladder starts at the touch and steps whole cents
  (`LadderShowsBest`). So the "same script, same output" of lines 12 to 14 holds
  for prices on the grid and inside the window.
* `price.cpp:31` lists "." and "-" among what is refused; the check is of texts
  of one character, so "+." and "-." are read as 0 (`PricesReadAndPrint` has them
  as decimals). The digits are accumulated without bound before any is counted.
* `order_book.hpp:44` asks for quantities above 0 and no book checks it. With
  fewer an order rests across the touch without matching
  (`CrossedOnlyByNegative`), and whoever meets it trades its whole negative
  quantity and has more left than it came with. Shares still add up
  (`SharesAddUp`) and the loops still end (`ScriptEnds`, `SubmitReturns`).
* `bench_matching.cpp:343` adds more resting orders between rebuilds than the
  pool has slots, so that part of what it times on the pooled books is refusals.

## 4. Theorems

TLC shows a property on an instance, a theorem for every value of the constants.
The theorems about the four detailed books assume the contract of `order_book.hpp`:
quantities above 0 (`ContractAssumption` in `OrderBookContract`, `PositiveQtys` as a
hypothesis elsewhere) and a ref that is not live. Besides, only what the modules
assume of their constants: prices are integers, a word has at least one bit and
the levels fill whole words, the tick size is above 0, the pool has a slot, the
ref table at least two entries for each slot, `None` is no request.

Those about `Price`, `BookDemo` and the promised book ask nothing of quantities,
which may be 0 or below. They assume that kDecimals, kCent and the numbers of lines,
rows and rungs are what they are (`DecimalsAssumption`, `BoundsAssumption`,
`LadderAssumption`), that the prices in play are finitely many integers, those of the
window among them, and that a script for `map` names no others (any script does, for a
large enough set of them).

| theorem | of | says |
| --- | --- | --- |
| `TypeCorrect` | each book | `TypeOK` |
| `BookNeverCrossed` | each but `FlatOrderBook`, whose refinement carries it over | `NotCrossed` |
| `NoGhostLevels`, `RunningSumsCorrect` | `OrderBook` | `NoGhostLevel`, `RunningSumsAgree` |
| `IndexCorrect` | `OrderBook`, `ArrayOrderBook`, `PoolOrderBook` | `IndexAgrees` |
| `BitmapCorrect`, `TouchCorrect` | `ArrayOrderBook`, `PoolOrderBook` | `BitmapAgrees`, `TouchIsBest` |
| `SlotsCorrect`, `QueuesCorrect` | `PoolOrderBook` | `SlotsPartitioned`, `QueuesWellLinked` |
| `TotalsCorrect` | `PoolOrderBook` | `TotalsAgree` |
| `TouchHasQuantityHolds` | `ArrayOrderBook` | `TouchHasQuantity` |
| `LevelPricesTaken` | `ArrayOrderBook` | `TakesLevelPrices` |
| `PooledCorrect` | `FlatOrderBook` | `SlotsPartitioned`, `QueuesWellLinked`, `TotalsAgree`, `BitmapAgrees`, `TouchIsBest` |
| `FindCorrect`, `WalksCorrect`, `CountersCorrect` | `FlatOrderBook` | `FindAgrees`, `WalksUnbroken`, `CountersAgree` |
| `Refinement` | `OrderBook`, `ArrayOrderBook`, `PoolOrderBook` | it implements `PriceTimeBook` (safety) |
| `Refinement` | `FlatOrderBook` | it implements `PoolOrderBook` (`ImplementsPoolOrderBook`) |
| `BookTypeCorrect` | `PriceTimeBook`, for any prices, capacity and quantities | its `TypeOK` |
| `PriceIsDecimal`, `LimitIsTicks`, `PrintReadsBack` | `Price` | reading and printing, of texts of any length |
| `RoundDownIsFloor`, `RoundUpIsCeiling`, `OnTickIsMultiple` | `Price` | rounding |
| `TypeCorrect`, `CrossingsCorrect`, `SummaryCorrect`, `ReportsCorrect` | `BookDemo` | `TypeOK`, `CrossedOnlyByNegative`, `SharesAddUp`, `OutcomeTold` |
| `PricesCorrect`, `RoundingCorrect` | `BookDemo` | `PricesReadAndPrint`, `RoundsToTick` |
| `LadderCorrect` | `BookDemo` | `LadderShowsBest` |

Each safety theorem about a state follows from the module's `Invariance`:
`Spec => []IInv`.
The proofs have one lemma per action, one step per conjunct under it, and rest on
lemmas about the operators.

### Lists and sums

A total is a sum over a list of any length (`Total` in `BookTypes`) and a queue is
the chain of `next` from its head (`Chain` in `OrderPool`): both are recursive
functions. The induction rules of the library take an operator as a parameter,
which the provers cannot instantiate, so an induction is written as a least
counterexample: the numbers up to the length at which the claim fails are a set
of naturals, and if it is not empty it has a least member (`LeastNat`, from the
well-foundedness of `<`), of which the claim holds after all. `Lists_proofs` shows
in this way that every list of integers has a running sum (`RunningExists`), that
any running sum ends at `Total` (`RunningTotal`), what becomes of one when a member
joins, leaves or changes (`TotalMore`, `TotalLess`, `TotalChanged`), and that a sum
of positive members is positive. `LeftMore`, `LeftOut` and `LeftFront` say the same
of what is left of orders.

A recursive function whose values are not numbers (the parser's state after n
characters, the rows of a ladder after n rungs) is treated the same way. `EveryNat` is
induction over a set of naturals instead of a predicate; with it `Iterate` shows that
every step function has its iterates, so that the function the code's loop defines
exists, and from then on its equation can be used: an invariant of the loop is a set of
the n at which it holds, and `EveryNat` does the rest.

### OrderBook

    IInv == TypeOK /\ NewRef /\ NotCrossed /\ NoGhostLevel /\ IndexAgrees

None of the parts is inductive alone. `NotCrossed` is preserved by
`SubmitRests` because each opposing level is then beyond the limit, which
follows from the order of `begin()`. That a trade removes the right index entry
needs `IndexAgrees`, and that the new entry shadows no other needs `NewRef`: the
order being worked is not in the index, which is the caller's promise carried
through the loops. `NoGhostLevel` needs the level being drained to be the best
one, which is what a trade leaves unchanged. The lemmas are about erase and
`operator[]` on maps, a node taken out of a sequence (`NodeOut`), and the index
before and after a node leaves, stays or joins (`NodeGone`, `NodesKept`,
`NodeAdded`).

`CountsCorrect` adds that the refs of a side are finitely many and as many as its
counter says; a ref leaves or joins exactly as the counter steps, because of
`IndexAgrees` and `NewRef`. That `empty()` is then right between calls needs
`NoGhostLevel`.

`TotalsCorrect` adds that the total of each level is the sum over its list: each of
the four places that change a total changes the list by the same quantity. The two
together are `RunningSumsCorrect`.

The refinement uses `IInv` with `WithinLimit` (inside the inner loop the level is
within the limit). Queues are the lists of the levels, the taker is `req` with
`remaining`. `EnterLevel` and `LeaveLevel` change nothing of that and are stutters;
every other action has a lemma that it is the abstract one. It assumes the two
sides the abstract book has (`TwoSides`: a short sale is the finding above) and
that "no order at work" is not an order at work (`NoWorker`).

### ArrayOrderBook

    IInv == TypeOK /\ BitmapAgrees /\ TouchIsBest /\ NotCrossed /\ AtWork /\ Priced

`Window_proofs` shows that `next_up` and `next_down` return the nearest set bit
or the sentinel, at any position in any word: within the first word it is the
least or greatest bit kept by the mask, beyond it that of the first word with
one, and words are ordered as the levels in them. From that, `LevelOccupied` and
`LevelEmptied`: given hints that are best and a bitmap that agrees but for the
level in hand, the two functions leave hints that are best and a bitmap that
agrees. `AtWork` (the request has an index; inside the loop the level is one of
the window) and `Priced` (an occupied level's price was once asked for) are what
the steps need to stay in range. A second invariant over it, `Summed`, gives
`IndexCorrect` and `TouchHasQuantityHolds`: index and lists agree, no ref has two
nodes, the order at work is not in the index; counters count the index; totals are
the sums of their lists. Quantity behind the touch then follows: the hinted level
has an order, and a sum of positive quantities is positive.

`LevelPricesTaken` has `AtWork` for the orders taken in, and for those refused that
`index()` inverts `priceAt` at every level (`PriceOfLevel`).

The refinement reads the queue of a price at its level (`PricesAsLevels`: prices
of the window compare as their indices do) and an empty queue at any other price. The
prices of the window are those of the levels, whatever `index()` accepts, so that a
bound of `index()` in the wrong place is a step the promise does not allow or a refusal
`TakesLevelPrices` excludes. The
code never compares prices beyond the hint, so that there is no better price than
the one it trades at is `TouchIsBest` and `BitmapAgrees`, in the middle of a submit
(`TouchMeansBest`).

### The pooled books

`PooledBook_proofs` proves once, for whatever index a book keeps, that each
shared step preserves

    BInv == BookTypeOK /\ Linked /\ QueuesListed /\ FreeListed
            /\ BitmapAgrees /\ TouchIsBest /\ NotCrossed /\ AtWork /\ Priced

The runs state the lists by walking them; the invariant states them by a list that
the links spell. `IsList(c, links, first, S)`: `c` has each slot of `S` once, begins
at `first`, and `next` of each member is the one after it, of the last `kNil`.
`QueuesListed`: each level's orders have such a list from its head. `FreeListed`: so
have the slots without an order, from `free_head`. `Linked` adds the links backwards:
what is before a slot names it as its next and what is after names it as its
previous, a slot without one is the head or the tail of its level. An `unlink` takes
a member out of one list (`ListOut`), `push_back` appends one (`ListAppended`),
`release` and `alloc` put one at the front of the free list and take it off again
(`ListFronted`, `ListRest`), and every other list stays as it was because its members
are others. `ListIsChain` then shows that walking from `first` finds exactly `c`,
which turns the invariant into `SlotsPartitioned` and `QueuesWellLinked`
(`Partitioned`, `WellLinked`). `Sums` is a second invariant over it: totals are the
sums over these lists and counters the numbers of slots.

`PoolOrderBook_proofs` adds the map: `IndexAgrees` survives the reuse of slots
because a ref is submitted only when it does not rest and a slot's ref leaves the
map in the step that releases it.

Its refinement needs two more invariants. `WithinLimit` as above; and `Roomy`: an
order that has traded and has something left finds the free list not empty, since
it emptied the order it met and that slot was released. The queue of a price is
what the links of its level spell, the promise's book holds a ref exactly if a slot
does (`InBookIs`), and it is full exactly if the free list is empty (`FullIs`: refs
and slots with an order correspond one to one). `QueuesOut`, `QueuesLowered` and
`QueuesPushed` say that one queue changes as the promise wants and no other does. Short
sales need no hypothesis here: the pooled books keep them as sales.

`FlatOrderBook_proofs` adds the table instead:

    TableInv == ref_table \in [EntryIdx -> Entry]
                /\ WalksUnbroken /\ EntriesMatch /\ CountersAgree

A search ends at the entry that holds a ref, if there is one, since no walk to it
is broken (`FindHolds`). An insertion reuses the first tombstone it passed or
takes the Empty entry it stopped at, so it breaks no walk; an erasure leaves no
new Empty entry. Occupied entries have slots of their own, so they are at most
as many as slots (`LiveAtMost`), and a table of twice as many entries always has
one to spare, which every walk reaches (`ProbeReaches`, `RoomForMore`): the
refusal at `flat_order_book.cpp:322` is dead code, for any history of tombstones.
With that `Refinement` maps each step to the step of `PoolOrderBook` of the same
name, the map being what the Occupied entries say.

### Price

In `BookDemo_proofs`, for every kDecimals above 0:

* `RoundDownIsFloor`, `RoundUpIsCeiling`: for every integer number of ticks and
  every tick size above 0 the roundings are the greatest multiple at or below, and the
  least at or above. `OnTickIsMultiple`: comparing the two, as the code does, is the
  same as having no remainder. They rest on `Truncation` (what C++ division does for
  either sign) and on facts about `\div` and `%` from their definition (`DivMod`,
  `QuotientOfSum`): the correction of one tick size for the other sign turns truncation
  into floor.
* `PriceIsDecimal`: `from_string` decides in one pass, by two counters and two flags,
  what `IsDecimal` says of the text as a whole. Its
  state after each character (`IsScan`) is told by where the first dot of the text is
  (`FirstDot`), and whether there is another (`OneDot`).
* `LimitIsTicks`: the two numbers that pass accumulates, one multiplied by kPriceScale
  and one by the power of ten its length calls for, are together the sum of the digits
  at their places (`TicksOf`), a sum over a list as above.
* `PrintReadsBack`: the digits `to_string` writes are those of the number
  (`DecimalWrites`), the zeros put before them change nothing (`PaddedWrites`), and the
  dot splits them where `from_string` looks; so the text is accepted and read back as
  the same number, below 0 too.

### BookDemo and the promised book

    IInv == TypeOK /\ CrossedOnlyByNegative /\ InCall /\ Returned /\ Counts /\ Balance

`SharesAddUp` and `OutcomeTold` speak of the moments between lines and at a report; the
invariant says what holds inside a call. `InCall`: the taker is the order of the line,
what is left of it is what was asked for less its fills, and it is not in the book.
`Returned`: after the return the quantity that came back is what rests of it, and if it
is 0 any fills were for all of it. `Counts` bounds the cancels by the orders. `Balance`
is `SharesAddUp` with what the call still owes (`Pending`): the shares of the fills not
yet counted, twice, and what is left of the taker.

The three instances of `PriceTimeBook` take the same steps but for two, turning an
order away at the door (`Refused`) or for want of room (`Dropped`), so one argument
serves the four books (`TradeIsMaps`, `RestIsMaps`). It is in terms of what each order
holds (`HeldIn`): `Sets(q, new, r, h)` says that from the book `q` to the book `new`
the order `r` now holds `h` and every other what it held. A trade, a rest and a cancel
each set one order (`TradeSets`, `RestSets`, `CancelSets`), and a set changes the sum
over all orders by the difference (`SumSets`) and the number of orders by at most one
(`LiveSets`). No order is in two places (`Once`), which `TypeOK` has for this reason:
it is what makes "what an order holds" one number.

`CrossedOnlyByNegative` survives a rest because an order with something left that can
trade no more crosses nothing (`NothingToTrade`, from the existence of a best price
among finitely many, `BestExists`), and an order below 0 may rest anywhere; an order
lowered by a fill was above 0 and stays above 0.

`ReportsCorrect` is about a step: the only step that ends a line with an order is
`ReportOrder`, and there `Returned` says what rests and what was filled. What the
third report may stand for needs a second invariant, `Excused`: an order at work has
a level for its price, one without a level has done nothing, and any other that has
done nothing was for 0 or met a full pool. It is kept because a trade leaves a fill, a
rest a number other than 0, and `Drop` is possible in a full pool only. The theorem
does not say that the report is right (see "Also seen"); it says what it means.

`PricesCorrect` puts the theorems about `Price` under the invariant that a script has
failed exactly at a line whose price is none (`Judged`).

`LadderCorrect` is a loop invariant, `Shows`: after n rungs the rows are the kDepthShown
best of the prices those rungs reach, best first. The rungs go outward (`RungsApart`),
so a row is appended behind all others; nothing rests ahead of the touch (`BestIsOne`);
and a price no better than the touch is a rung exactly if it is whole cents away
(`OnRung`, from `OnTickIsMultiple`).

`BookTypeCorrect` is about the promised book by itself, with a window, a capacity and
any integer quantities. Its steps have a lemma each, shared with the map's book.

### Model-checked only

* `ImplementsAtomicBook`: `AtomicBook` ranks orders by sums over sets and filters lists
  with operators given as arguments (`MapThenSumSet`, `SelectSeq`), for which there are
  no rules here, and the rules for which would be induction over data.
* `SubmitReturns`, `ScriptEnds`, and the fairness in `ImplementsPriceTimeBook` of the
  first two books (its safety part is their `Refinement`): liveness is outside what
  the prover handles.
* Detailed books with quantities of 0 and below: the refinement runs. Their invariants
  are stated for callers who keep to the contract.

## 5. Plan

Done: the four books, the two abstract specifications, prices, the script
runner. Proved: every invariant the runs check, what the reports of the script runner
say, and that each book implements the promised one (the flat one through the pooled
one). Left, in the order of what it would add:

1. That a submit of `PriceTimeBook` is `AtomicBook`'s, for every value of the
   constants: `AtomicBook` would first have to be stated by lists and running sums.
2. `BookDemo` over each detailed book rather than over `PriceTimeBook`, if the
   state space allows.
3. Models of the rings, the sequencer and risk, when there is code for them.

## 6. Not modelled, and why

* Placeholders: there is no code.
* `appkit`, `config_demo`, the rendering of `book_demo`: input and output. How a
  stream splits a line into words is the library's (`BUY 10.5 100` is quantity 10
  at price ".5").
* The benchmarks: what they say is about time.
* `bits.hpp`: no code of the tree calls it outside its tests.
* `Price::from_dollars` and `to_dollars`: floating point, at the edges only.
* Memory allocation failure in the rest path of the first three books.
* The width of quantities and counters (64 bits): no total in reach of a
  session comes near it; prices are `int64_t` ticks and are only compared,
  subtracted from the window's base after the range check, and divided.
* Layout (cache lines, padding, `static_assert`s of sizes) and speed, which are
  what the later books are for and no property of their behaviour.
