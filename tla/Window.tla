------------------------------- MODULE Window --------------------------------
(***************************************************************************)
(* The price window of ArrayOrderBook, and of the books built on it: which *)
(* prices have a level, the occupancy bitmap of each side, and the hint to *)
(* the best occupied level (the touch).                                    *)
(***************************************************************************)
EXTENDS BookTypes, Bitmap

CONSTANTS Prices,      \* limit prices in ticks, inside and outside the window
          kTickSize,   \* ticks between two levels
          kBaseTicks   \* the price of level 0

ASSUME PricesAssumption == Prices \subseteq Int
ASSUME WindowAssumption == kTickSize \in Nat \ {0} /\ kBaseTicks \in Int

kCeilTicks == kBaseTicks + (kLevels - 1) * kTickSize
kNone      == kLevels

VARIABLES occupied,  \* occupied[side]: buy_occupied_, sell_occupied_
          best_idx   \* best_idx[side]: best_bid_idx_, best_ask_idx_

touch == <<occupied, best_idx>>

TouchInit ==
    /\ occupied = [side \in BookSide |-> NoBits]
    /\ best_idx = [side \in BookSide |-> kNone]

\* Mutant of HasIndex: the ceiling is one level too high.
HasIndexPastEnd(price) ==
    /\ price >= kBaseTicks
    /\ price <= kCeilTicks + kTickSize
    /\ (price - kBaseTicks) % kTickSize = 0

\* index(): the level of a price, for the prices that have one.
HasIndex(price) ==
    /\ price >= kBaseTicks
    /\ price <= kCeilTicks
    /\ (price - kBaseTicks) % kTickSize = 0
index(price) == (price - kBaseTicks) \div kTickSize
priceAt(i)   == kBaseTicks + i * kTickSize

\* Mutant of on_level_occupied: the hint follows the last level occupied.
on_level_occupied_last(side, i) ==
    /\ occupied' = [occupied EXCEPT ![side] = SetBit(@, i)]
    /\ best_idx' = [best_idx EXCEPT ![side] = i]

\* A level that gains its first order: higher is better for bids, lower for asks.
on_level_occupied(side, i) ==
    /\ occupied' = [occupied EXCEPT ![side] = SetBit(@, i)]
    /\ best_idx' = IF best_idx[side] = kNone \/ Better(side, i, best_idx[side])
                   THEN [best_idx EXCEPT ![side] = i] ELSE best_idx

\* Mutant of on_level_emptied: the bit is cleared and the hint left as it was.
on_level_emptied_hint_kept(side, i) ==
    /\ occupied' = [occupied EXCEPT ![side] = ClearBit(@, i)]
    /\ UNCHANGED best_idx

\* A level that loses its last.  The hint is looked for again only when that
\* level is the touch.
on_level_emptied(side, i) ==
    LET bits == ClearBit(occupied[side], i)
        next == CASE side = Sell           -> next_up(bits, i + 1)
                  [] side = Buy /\ i = 0   -> kNone
                  [] side = Buy /\ i # 0   -> next_down(bits, i - 1)
    IN  /\ occupied' = [occupied EXCEPT ![side] = bits]
        /\ best_idx' = IF best_idx[side] = i THEN [best_idx EXCEPT ![side] = next] ELSE best_idx

\* best_bid(), best_ask(): a price, or none.
best(side) == IF best_idx[side] = kNone THEN {} ELSE {priceAt(best_idx[side])}

TouchTypeOK ==
    /\ occupied \in [BookSide -> BitmapType]
    /\ best_idx \in [BookSide -> LevelIdx \cup {kNone}]

\* The hint is the best bit of the bitmap, and none exactly when there is no
\* bit: best_bid() and best_ask() never name a price that has been passed.
TouchIsBest ==
    \A side \in BookSide :
        LET bits == {i \in LevelIdx : IsSet(occupied[side], i)}
        IN  IF bits = {} THEN best_idx[side] = kNone
            ELSE /\ best_idx[side] \in bits
                 /\ \A i \in bits : ~Better(side, i, best_idx[side])

\* The book is never crossed: the bid hint is below the ask hint.
NotCrossed ==
    best_idx[Buy] # kNone /\ best_idx[Sell] # kNone => best_idx[Buy] < best_idx[Sell]
=============================================================================
