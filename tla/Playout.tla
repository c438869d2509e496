------------------------------ MODULE Playout ------------------------------
(***************************************************************************)
(* What RTPPacketManager (rfcvoip/RTP.py) promises its reader: a media     *)
(* timeline read through a cursor.  tape is what will be heard from the    *)
(* cursor on; positions it does not hold are silence.  Packets may come in *)
(* any order; once reading has begun, what lies before the cursor is over. *)
(***************************************************************************)
EXTENDS Integers, Sequences

CONSTANTS Span, Erase, Silence, Offsets, Packets, Lengths, Deltas

VARIABLES
    cursor,     \* position of the next byte read
    tape,       \* unread bytes that were received, by position
    playing,    \* the reader has begun
    ready,      \* something was received
    out         \* what the last read returned

vars == <<cursor, tape, playing, ready, out>>

Positions(o, d) == o..(o + Len(d) - 1)
Only(o, d) == [p \in Positions(o, d) |-> d[p - o + 1]]
\* d at o over what was there.
Over(t, o, d) == [p \in DOMAIN t \cup Positions(o, d) |->
                     IF p \in Positions(o, d) THEN d[p - o + 1] ELSE t[p]]
From(t, c) == [p \in {q \in DOMAIN t : q >= c} |-> t[p]]
\* More than Span before a byte that was received.
TooOld(p) == \E q \in DOMAIN tape : q - p > Span
\* The tape, with or without what is too old.
Remembered == {[p \in DOMAIN tape \ lost |-> tape[p]] :
                  lost \in SUBSET {p \in DOMAIN tape : TooOld(p)}}

Init ==
    /\ cursor = 0 /\ tape = [p \in {} |-> Silence]
    /\ playing = FALSE /\ ready = FALSE /\ out = <<>>

\* A new stream: nothing of the old one is heard any more.
Begin(o, d) ==
    /\ cursor' = o /\ tape' = Only(o, d)
    /\ ready' = TRUE /\ playing' = FALSE /\ UNCHANGED out

\* A packet whose rest, d at o, the reader has yet to reach.  One further than
\* Span away is a new beginning, one that is too old is dropped.
Fill(o, d) ==
    \/ TooOld(o) /\ UNCHANGED vars
    \/ o - cursor > Span /\ Begin(o, d)
    \/ /\ o - cursor <= Span /\ tape' = Over(tape, o, d)
       /\ UNCHANGED <<cursor, playing, ready, out>>

\* What the reader has passed is dropped.
Late(o, d) ==
    /\ playing /\ o < cursor
    /\ IF cursor - o >= Len(d) THEN UNCHANGED vars
       ELSE Fill(cursor, SubSeq(d, cursor - o + 1, Len(d)))

\* Before reading begins an earlier packet becomes the new beginning.  One
\* far earlier erases what follows; one that is too old is dropped.
Early(o, d) ==
    /\ ~playing /\ o < cursor
    /\ \/ TooOld(o) /\ UNCHANGED vars
       \/ /\ cursor' = o
          /\ tape' \in IF cursor - o >= Erase THEN {Only(o, d)}
                       ELSE {Over(t, o, d) : t \in Remembered}
          /\ UNCHANGED <<playing, ready, out>>

Write(o, d) ==
    IF ready THEN (o >= cursor /\ Fill(o, d)) \/ Late(o, d) \/ Early(o, d)
    ELSE Begin(o, d)

Read(n) ==
    /\ out' = [k \in 1..n |-> IF cursor + k - 1 \in DOMAIN tape
                              THEN tape[cursor + k - 1] ELSE Silence]
    /\ IF ready THEN /\ cursor' = cursor + n /\ playing' = (playing \/ n > 0)
                     /\ tape' = From(tape, cursor + n)
       ELSE UNCHANGED <<cursor, tape, playing>>
    /\ UNCHANGED ready

\* What is unread from boundary on was put at the wrong place.
Shift(boundary, delta) ==
    \E t \in Remembered :
        LET kept == {p \in DOMAIN t : p < boundary}
            moved == {p + delta : p \in DOMAIN t \ kept}
        IN /\ kept \cap moved = {}
           /\ tape' = [p \in kept \cup {q \in moved : q >= cursor} |->
                          IF p \in kept THEN t[p] ELSE t[p - delta]]
           /\ UNCHANGED <<cursor, playing, ready, out>>

Next ==
    \/ \E o \in Offsets, d \in Packets : Write(o, d) \/ Begin(o, d)
    \/ \E n \in Lengths : Read(n)
    \/ \E b \in Offsets, delta \in Deltas : Shift(b, delta)

Spec == Init /\ [][Next]_vars
=============================================================================
