------------------------------ MODULE Framing ------------------------------
(***************************************************************************)
(* The stream buffer of a SIPConnection (rfcvoip/SIPTransport.py): how     *)
(* messages are cut out of a stream of bytes.                              *)
(*                                                                         *)
(* A unit of the stream is [of, part, what]: part number `part` of message *)
(* `of`; what is "head" for a piece of the header, "blank" for the empty   *)
(* line that ends it (a body may hold one too) and "body".  The halves of  *)
(* a keepalive are Cr and Lf.                                              *)
(***************************************************************************)
EXTENDS Integers, Sequences, SequencesExt, FiniteSets, FiniteSetsExt

CONSTANTS
    Lengths,    \* Lengths[m]: what the header of message m declares: the
                \* length of its body, or Bad
    Bad         \* missing, conflicting or malformed Content-Length

Cr == [of |-> 0, part |-> 1, what |-> "cr"]
Lf == [of |-> 0, part |-> 2, what |-> "lf"]

\* _discard_stream_keepalive_prefix(): every CRLF in front.
Trimmed(buffer) ==
    LET Pairs(n) == \A i \in 1..n : buffer[2 * i - 1] = Cr /\ buffer[2 * i] = Lf
        most == Max({n \in 0..(Len(buffer) \div 2) : Pairs(n)})
    IN SubSeq(buffer, 2 * most + 1, Len(buffer))

\* Where the first empty line is; 0 when there is none yet.
HeaderEnd(buffer) ==
    LET ends == {i \in 1..Len(buffer) : buffer[i].what = "blank"}
    IN IF ends = {} THEN 0 ELSE Min(ends)

\* The header that ends there; it must begin with a start line.
Misframed(buffer) ==
    HeaderEnd(buffer) > 0
    /\ (buffer[1].what # "head" \/ Lengths[buffer[1].of] = Bad)

\* Mutant: the empty line is not counted
NeededShort(buffer) ==
    IF HeaderEnd(buffer) = 0 \/ Misframed(buffer) THEN 0
    ELSE HeaderEnd(buffer) + Lengths[buffer[1].of] - 1
\* _stream_message_length(); 0 while the header is not complete.
Needed(buffer) ==
    IF HeaderEnd(buffer) = 0 \/ Misframed(buffer) THEN 0
    ELSE HeaderEnd(buffer) + Lengths[buffer[1].of]

HasMessage(buffer) == Needed(buffer) > 0 /\ Len(buffer) >= Needed(buffer)

\* _pop_stream_message()
Popped(buffer) == SubSeq(buffer, 1, Needed(buffer))
Left(buffer) == SubSeq(buffer, Needed(buffer) + 1, Len(buffer))
=============================================================================
