--------------------------- MODULE MCRTPReceive ---------------------------
(* Small instances of RTPReceive for TLC: what a peer may have sent.       *)
EXTENDS RTPReceive, TLC

A(ssrc, seq, ts, pos) ==
    [audio |-> TRUE, ssrc |-> ssrc, seq |-> (SeqWrap - 8 + seq) % SeqWrap,
     ts |-> (TsWrap - 16 + ts) % TsWrap,
     pos |-> pos, len |-> 2, marker |-> FALSE, reports |-> <<>>]
E(seq, ts, marker, reports) ==
    [audio |-> FALSE, ssrc |-> 1, seq |-> (SeqWrap - 8 + seq) % SeqWrap,
     ts |-> (TsWrap - 16 + ts) % TsWrap,
     pos |-> 0, len |-> 0, marker |-> marker, reports |-> reports]
R(press, dur, end) == [press |-> press, code |-> 5, dur |-> dur, end |-> end]

\* A short press between audio; timestamps and sequence numbers wrap.
PressInSpeech == <<
    A(1, 6, 12, 0), A(1, 7, 14, 2),
    E(8, 16, TRUE, <<R(1, 1, FALSE)>>), E(9, 16, FALSE, <<R(1, 2, TRUE)>>),
    A(1, 10, 18, 8), A(1, 11, 20, 10)>>
\* The same key pressed again at once, the two final reports in one packet.
PressTwice == <<
    A(1, 6, 12, 0),
    E(7, 14, TRUE, <<R(1, 1, FALSE)>>),
    E(8, 14, FALSE, <<R(1, 1, TRUE), R(2, 1, TRUE)>>),
    A(1, 9, 16, 6)>>
\* A press longer than a report can say: two segments.
LongPress == <<
    A(1, 6, 12, 0),
    E(7, 14, TRUE, <<R(1, 2, FALSE)>>), E(8, 16, FALSE, <<R(1, 1, FALSE)>>),
    E(9, 16, FALSE, <<R(1, 2, TRUE)>>), A(1, 10, 18, 10)>>
\* The peer changes its source.
NewSource == <<
    A(1, 6, 12, 0), A(1, 7, 14, 2), A(2, 3, 5, 0), A(2, 4, 7, 2), A(2, 5, 9, 4)>>
MCScripts == {PressInSpeech, PressTwice, LongPress, NewSource}
=============================================================================
