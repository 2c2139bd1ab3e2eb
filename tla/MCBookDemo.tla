----------------------------- MODULE MCBookDemo ------------------------------
(***************************************************************************)
(* BookDemo with two decimals, a cent of ten ticks, a window of three      *)
(* levels and a pool of two slots: "1", "1.1" and "1.2" have a level,      *)
(* "1.05" lies between two of them and "1.4" above the window.  The ladder *)
(* shows two rungs and tries three.                                        *)
(***************************************************************************)
EXTENDS BookDemo, TLC

Orders(texts, qtys) == [verb : {"BUY", "SELL"}, qty : qtys, text : texts]
Cancels(refs) == [verb : {"CANCEL"}, ref : refs]

Low  == {<<"1">>, <<"1", ".", "0", "5">>, <<"1", ".", "1">>}
High == {<<"1", ".", "1">>, <<"1", ".", "2">>, <<"1", ".", "4">>}
MCPrices == {100, 105, 110, 120, 140}

\* The first line of a script for a book with a window may also name any price
\* of up to four characters, for a quantity of 0.
Chars    == {"0", "1", "5", ".", "-", "+", "x"}
AnyText  == UNION {[1..n -> Chars] : n \in 0..4}
AnyPrice(book) ==
    IF book = "array" THEN [verb : {"BUY"}, qty : {0}, text : AnyText] ELSE {}

\* Two orders below, with a cancel of the first between them, then one above,
\* then one that trades with whatever is there, or a cancel.
MCLines(book, n) ==
    CASE n = 1 -> Orders(Low, {-1, 1, 2}) \cup AnyPrice(book) \cup {[verb |-> "unreadable"]}
      [] n = 2 -> Orders(Low, {-1, 1, 2}) \cup Cancels({1}) \cup {[verb |-> "#"]}
      [] n = 3 -> Orders(High, {-1, 1, 2}) \cup Cancels({1, 2})
      [] OTHER -> Orders({<<"1", ".", "1">>}, {1, 2}) \cup Cancels({2})
=============================================================================
