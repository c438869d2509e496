---------------------------- MODULE PacketBuffer ----------------------------
(***************************************************************************)
(* RTPPacketManager (rfcvoip/RTP.py): what its methods do to its           *)
(* attributes, each of them one call made under bufferLock.                *)
(*                                                                         *)
(* A byte is a number, 0 the silence byte.  The manager is the record      *)
(*   offset   position of buffer[1] in the media timeline                  *)
(*   buffer   the io.BytesIO                                               *)
(*   pos      buffer.tell(): bytes consumed; may be past the end           *)
(*   log      what was written: entries [at, data], disjoint               *)
(*   ready    _initialized                                                 *)
(*   started  _read_started                                                *)
(***************************************************************************)
EXTENDS Integers, Sequences, FiniteSets, SequencesExt

CONSTANTS
    Span,       \* max_log_span: 200000
    Erase       \* how far before the buffer a packet erases it: 100000

ASSUME SpanAssumption == Span \in Nat \ {0} /\ Erase \in 1..Span

Silence == 0
Quiet(n) == [k \in 1..n |-> Silence]
End(e) == e.at + Len(e.data)

\* The bytes of an entry from position lo up to hi, as an entry.
Part(e, lo, hi) ==
    LET first == IF lo > e.at THEN lo ELSE e.at
        last == IF hi < End(e) THEN hi ELSE End(e)
    IN [at |-> first,
        data |-> SubSeq(e.data, first - e.at + 1, last - e.at)]
Visible(entries) == {e \in entries : e.data # <<>>}

New == [offset |-> 0, buffer |-> <<>>, pos |-> 0, log |-> {},
        ready |-> FALSE, started |-> FALSE]
\* rebuild(True, o, d): nothing is left of what was there.
Reset(o, d) == [offset |-> o, buffer |-> d, pos |-> 0,
                log |-> Visible({[at |-> o, data |-> d]}),
                ready |-> TRUE, started |-> FALSE]

Cursor(m) == m.offset + m.pos
Available(m) == IF m.pos < Len(m.buffer) THEN Len(m.buffer) - m.pos ELSE 0

\* Mutant: the start of an entry decides whether it is kept
CompactByStart(m) ==
    IF m.pos = 0 \/ ~m.ready THEN m
    ELSE [m EXCEPT !.buffer = SubSeq(@, m.pos + 1, Len(@)),
                   !.offset = Cursor(m), !.pos = 0,
                   !.log = {e \in @ : e.at >= Cursor(m)}]
\* Consumed bytes are discarded.  The cursor does not move.
Compact(m) ==
    IF m.pos = 0 \/ ~m.ready THEN m
    ELSE [m EXCEPT !.buffer = SubSeq(@, m.pos + 1, Len(@)),
                   !.offset = Cursor(m), !.pos = 0,
                   !.log = {e \in @ : End(e) > Cursor(m)}]
\* What read(n) returns: silence where nothing was received.
Taken(m, n) ==
    LET have == IF n < Available(m) THEN n ELSE Available(m)
    IN SubSeq(m.buffer, m.pos + 1, m.pos + have) \o Quiet(n - have)
\* Mutant: playout is not noted as started
ReadUnnoted(m, n) ==
    LET r == [m EXCEPT !.pos = @ + n]
    IN IF r.pos >= Span \div 2 THEN Compact(r) ELSE r
Read(m, n) ==
    LET r == [m EXCEPT !.pos = @ + n,
                       !.started = @ \/ (n > 0 /\ m.ready)]
    IN IF r.pos >= Span \div 2 THEN Compact(r) ELSE r

\* d written at index i of a buffer, after silence where there is a gap.
Overlay(buffer, i, d) ==
    LET padded == IF i > Len(buffer)
                  THEN buffer \o Quiet(i - Len(buffer)) ELSE buffer
    IN SubSeq(padded, 1, i) \o d
           \o SubSeq(padded, i + Len(d) + 1, Len(padded))

Covers(e, p) == e.at <= p /\ p < End(e)
\* rebuild(False): the buffer is made again from the log, what starts later
\* written over what starts earlier.
Rebuild(m) ==
    LET size == Max({0} \cup {End(e) - m.offset : e \in m.log})
        Byte(p) ==
            LET over == {e \in m.log : Covers(e, p)}
                top == CHOOSE e \in over : \A x \in over : x.at <= e.at
            IN IF over = {} THEN Silence ELSE top.data[p - top.at + 1]
    IN [m EXCEPT !.buffer = [k \in 1..size |-> Byte(m.offset + k - 1)]]

\* The log once d is written at o: what d covers, and what is more than Span
\* before the newest start, is forgotten.
Cutoff(m, o) ==
    (CHOOSE newest \in {e.at : e \in m.log} \cup {o} :
        \A e \in m.log : e.at <= newest /\ o <= newest) - Span
\* Mutant: an overlapped packet stays whole in the log
LoggedWhole(m, o, d) ==
    LET cutoff == Cutoff(m, o)
        Kept(e) == IF e.at < cutoff THEN Part(e, cutoff, End(e)) ELSE e
    IN {[at |-> o, data |-> d]}
           \cup Visible({Kept(e) : e \in {x \in m.log : x.at # o}})
Logged(m, o, d) ==
    LET cutoff == Cutoff(m, o)
        Kept(e) == IF e.at < cutoff THEN Part(e, cutoff, End(e)) ELSE e
        kept == Visible({Kept(e) : e \in m.log})
    IN {[at |-> o, data |-> d]}
           \cup Visible({Part(e, e.at, o) : e \in kept}
                            \cup {Part(e, o + Len(d), End(e)) : e \in kept})

\* write(o, d) past the late-byte and the age check.
Insert(m, o, d) ==
    LET logged == [m EXCEPT !.log = Logged(m, o, d)]
        near == IF o - m.offset > Span THEN Compact(logged) ELSE logged
    IN CASE o < m.offset /\ m.offset - o >= Erase -> Reset(o, d)
         [] o < m.offset /\ m.offset - o < Erase ->
                Rebuild([logged EXCEPT !.offset = o])
         [] o >= m.offset /\ o - near.offset > Span -> Reset(o, d)
         [] OTHER ->
                [near EXCEPT !.buffer = Overlay(@, o - near.offset, d)]

\* Once playout has started, bytes before the cursor are cut off.
Late(m, o, d) ==
    IF m.started THEN Part([at |-> o, data |-> d], Cursor(m), o + Len(d))
    ELSE [at |-> o, data |-> d]
Write(m, o, d) ==
    LET w == Late(m, o, d)
    IN CASE d = <<>> -> m
         [] d # <<>> /\ ~m.ready -> Reset(o, d)
         [] OTHER -> IF w.data = <<>> \/ w.at < Cutoff(m, w.at) THEN m
                     ELSE Insert(m, w.at, w.data)

\* _shift_unread_receive_suffix(): unread bytes from boundary on move by
\* delta.
ShiftRefused(m, boundary, delta) ==
    delta < 0 /\ \E e \in m.log :
        e.at < boundary /\ End(e) > boundary + delta
Shifted(m, boundary, delta) ==
    LET Moved(e) ==
            LET start == IF e.at > boundary THEN e.at ELSE boundary
                unread == Part(e, IF start > Cursor(m) THEN start
                                  ELSE Cursor(m), End(e))
                moved == [unread EXCEPT !.at = @ + delta]
            IN Part(moved, Cursor(m), End(moved))
    IN Visible({Part(e, e.at, boundary) : e \in m.log}
                   \cup {Moved(e) : e \in m.log})
Newest(entries) == CHOOSE n \in {e.at : e \in entries} :
                       \A e \in entries : e.at <= n
Oldest(entries) == CHOOSE n \in {e.at : e \in entries} :
                       \A e \in entries : e.at >= n
ShiftExceeds(m, boundary, delta) ==
    LET s == Shifted(m, boundary, delta)
    IN s # {} /\ Newest(s) - m.offset > Span
Shift(m, boundary, delta) ==
    LET s == Shifted(m, boundary, delta)
        cutoff == Newest(s) - Span
        recent == Visible({Part(e, cutoff, End(e)) : e \in s})
    IN CASE ShiftRefused(m, boundary, delta) -> m
         [] ~ShiftRefused(m, boundary, delta)
                /\ ShiftExceeds(m, boundary, delta) ->
                Rebuild([m EXCEPT !.log = recent, !.offset = Oldest(recent),
                                  !.pos = 0, !.started = FALSE])
         [] OTHER -> Rebuild([m EXCEPT !.log = s])
=============================================================================
