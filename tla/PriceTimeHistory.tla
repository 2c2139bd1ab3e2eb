-------------------------- MODULE PriceTimeHistory ---------------------------
(***************************************************************************)
(* PriceTimeBook with a history variable, and the two results it serves:   *)
(* the book implements AtomicBook, and the atomic view it implements is    *)
(* the one in order of arrival.                                            *)
(***************************************************************************)
EXTENDS PriceTimeBook, SequencesExt

VARIABLES arrived,  \* the book as its caller knows it between calls, oldest order first
          told      \* the fills vector as the caller last saw it

hvars == <<queue, taker, fills, result, arrived, told>>

\* What queue holds of one order: nothing, or its single entry.
EntriesOf(ref) ==
    {[ref |-> ref, side |-> s, price |-> p, remaining |-> queue[s][p][i].remainQty] :
        <<s, p, i>> \in {t \in BookSide \X Prices \X (1..Cardinality(Refs)) :
                            Rests(ref, t[1], t[2], t[3])}}

\* When a call returns, the orders the caller knew and still rest keep their
\* order and whatever rests for the first time comes last.
Refresh(known) ==
    LET stay == SelectSeq(known, LAMBDA o : InBook(o.ref))
        new  == {r \in Refs : InBook(r) /\ \A i \in DOMAIN known : known[i].ref # r}
        refs == [i \in DOMAIN stay |-> stay[i].ref] \o SetToSeq(new)
    IN  [i \in DOMAIN refs |-> CHOOSE e \in EntriesOf(refs[i]) : TRUE]

HInit == Init /\ arrived = <<>> /\ told = <<>>

HNext ==
    /\ Next
    /\ IF taker' = None
       THEN /\ \E known \in {arrived} : arrived' = Refresh(known)'
            /\ told' = fills'
       ELSE UNCHANGED <<arrived, told>>

HSpec == HInit /\ [][HNext]_hvars

Atomic == INSTANCE AtomicBook WITH book <- arrived, fills <- told
=============================================================================
