----------------------------- MODULE MCReinvite -----------------------------
(* Small instances of Reinvite for TLC.                                    *)
EXTENDS Reinvite

Line(base, addresses) == [family |-> "IP4", base |-> base, addresses |-> addresses]

Pcmu == [p \in {0} |-> "pcmu"]
Full == [p \in {0, 101} |-> IF p = 0 THEN "pcmu" ELSE "event"]

Audio(port, dir) ==
    [type |-> "audio", avp |-> TRUE, port |-> port, ports |-> 1,
     lines |-> <<Line(1, 1)>>, dir |-> dir, payloads |-> Full]
Pair(port, dir) ==
    [Audio(port, dir) EXCEPT !.ports = 2, !.lines = <<Line(1, 2)>>]
Off(s) == [s EXCEPT !.port = 0]
Video == [Audio(0, "sendrecv") EXCEPT !.type = "video"]

\* A single stream; a stream after a refused section, and one of two ports.
One == <<Audio(1, "sendrecv")>>
Mixed == <<Off(Video), Audio(1, "sendrecv"), Pair(3, "sendonly")>>

\* A peer that was called puts the stream on hold, or offers what is refused:
\* another address family.
Outgoing ==
    { <<Audio(1, "sendonly")>>,
      <<[Audio(3, "sendrecv") EXCEPT !.lines[1].family = "IP6"]>> }

\* A peer that called moves the stream and adds a section that is off, or offers
\* what is refused: no stream, or one with a payload missing.
Incoming ==
    { <<Audio(2, "sendrecv"), Off(Video)>>,
      <<Off(Audio(1, "sendrecv"))>>,
      <<[Audio(3, "inactive") EXCEPT !.payloads = Pcmu]>> }

\* Offers for the streams of Mixed: met, met but for a section that stays
\* refused, and one that would need other clients.
MixedLater ==
    { <<Audio(4, "sendrecv"), Audio(5, "recvonly"), Pair(6, "inactive")>>,
      <<Off(Video), Audio(5, "sendrecv"), Pair(8, "sendrecv"), Off(Video)>>,
      <<Off(Video), Pair(3, "sendrecv"), Audio(7, "sendrecv")>> }

MCInitials == {[origin |-> "in", offer |-> Mixed, later |-> MixedLater],
               [origin |-> "in", offer |-> One, later |-> Incoming],
               [origin |-> "out", offer |-> One, later |-> Outgoing]}

\* The section of the stream is switched off and another is added.
MCSlotInitials ==
    {[origin |-> "in", offer |-> One,
      later |-> {<<Off(Audio(1, "sendrecv")), Audio(3, "sendrecv")>>}]}
=============================================================================
