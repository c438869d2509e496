---------------------------- MODULE Negotiation ----------------------------
(***************************************************************************)
(* The offers of a call (rfcvoip/VoIP/VoIP.py): which media sections of an *)
(* SDP offer get a stream, whether a later offer can be met with the RTP   *)
(* clients the call has, and how its sections are answered.                *)
(*                                                                         *)
(* A section is a record: its type, whether its profile is RTP/AVP, port   *)
(* and number of ports, its connection lines with the addresses each       *)
(* stands for, its direction, and the codec of each payload number.  A     *)
(* codec stands for a codec with the parameters and bandwidth that matter  *)
(* to it.                                                                  *)
(***************************************************************************)
EXTENDS Integers, Sequences, SequencesExt

CONSTANTS
    Desired,    \* _desired_sendmode
    Family,     \* address family of the phone
    Codecs,     \* RTPCompatibleCodecs
    Speech,     \* those of them that carry audio, not telephone events
    LastPort    \* 65535

Directions == {"sendrecv", "sendonly", "recvonly", "inactive"}

Sends(direction) == direction \in {"sendrecv", "sendonly"}
Receives(direction) == direction \in {"sendrecv", "recvonly"}

Negotiated(remote) ==
    CHOOSE local \in Directions :
        /\ Sends(local) <=> Sends(Desired) /\ Receives(remote)
        /\ Receives(local) <=> Receives(Desired) /\ Sends(remote)

(***************************************************************************)
(* Sections.                                                               *)
(***************************************************************************)
Enabled(s) == s.avp /\ s.port > 0
Live(s) == s.type = "audio" /\ Enabled(s)

Addresses(s) ==
    FlattenSeq([c \in DOMAIN s.lines |->
        [k \in 1..s.lines[c].addresses |-> s.lines[c].base + k - 1]])

Parses(s) ==
    /\ \A c \in DOMAIN s.lines : s.lines[c].addresses > 0
    /\ s.port + Len(Addresses(s)) - 1 <= LastPort

Targets(s) ==
    [k \in DOMAIN Addresses(s) |->
        [address |-> Addresses(s)[k], port |-> s.port + k - 1]]

Usable(s) ==
    [p \in {q \in DOMAIN s.payloads : s.payloads[q] \in Codecs} |->
        s.payloads[p]]

Speaks(s) == \E p \in DOMAIN Usable(s) : Usable(s)[p] \in Speech

OurFamily(offer) ==
    \A i \in DOMAIN offer : Live(offer[i]) =>
        \A c \in DOMAIN offer[i].lines : offer[i].lines[c].family = Family

Assignable(offer) ==
    /\ \E i \in DOMAIN offer : Live(offer[i])
    /\ \A i \in DOMAIN offer : Live(offer[i]) =>
          /\ Parses(offer[i])
          /\ offer[i].lines # <<>>
          /\ offer[i].ports = Len(Targets(offer[i]))

Audible(offer) == \E i \in DOMAIN offer : Live(offer[i]) /\ Speaks(offer[i])

Admitted(offer) == OurFamily(offer) /\ Assignable(offer) /\ Audible(offer)

(***************************************************************************)
(* The streams of a new call.                                              *)
(***************************************************************************)
Indices(offer, Chosen(_)) == SelectSeq([i \in DOMAIN offer |-> i], Chosen)

Streamed(offer) ==
    Indices(offer, LAMBDA i :
        /\ Live(offer[i])
        /\ Speaks(offer[i])
        /\ Negotiated(offer[i].dir) # "inactive")

Creatable(offer) ==
    /\ \A i \in DOMAIN offer : ~(offer[i].type = "video" /\ Enabled(offer[i]))
    /\ Streamed(offer) # <<>>

Groups(offer) ==
    [g \in DOMAIN Streamed(offer) |->
        LET slot == Streamed(offer)[g]
        IN [slot |-> slot, size |-> Len(Targets(offer[slot]))]]

Client(s, k) ==
    [remote |-> Targets(s)[k], dir |-> Negotiated(s.dir),
     send |-> Usable(s), receive |-> Usable(s)]

Clients(offer) ==
    FlattenSeq([g \in DOMAIN Streamed(offer) |->
        LET s == offer[Streamed(offer)[g]]
        IN [k \in DOMAIN Targets(s) |-> Client(s, k)]])

(***************************************************************************)
(* A later offer.                                                          *)
(***************************************************************************)
SizeAt(groups, slot) ==
    LET there == {g \in DOMAIN groups : groups[g].slot = slot}
    IN {groups[g].size : g \in there}

\* A section that was refused when the call was set up stays refused.
Considered(groups, original, offer) ==
    Indices(offer, LAMBDA i :
        /\ i <= Len(original) => SizeAt(groups, i) # {}
        /\ Live(offer[i]))

Laid(groups, original, offer) ==
    \A n \in DOMAIN Considered(groups, original, offer) :
        LET i == Considered(groups, original, offer)[n]
        IN /\ Parses(offer[i])
           /\ offer[i].ports = Len(Targets(offer[i]))
           /\ SizeAt(groups, i) \subseteq {Len(Targets(offer[i]))}

\* The section and the target each client would take.
Places(groups, original, offer) ==
    FlattenSeq([n \in DOMAIN Considered(groups, original, offer) |->
        LET i == Considered(groups, original, offer)[n]
        IN [k \in DOMAIN Targets(offer[i]) |->
               [section |-> i, remote |-> Targets(offer[i])[k]]]])

Keeps(client, s) ==
    \A p \in DOMAIN client.send :
        p \in DOMAIN s.payloads /\ s.payloads[p] = client.send[p]

Acceptable(groups, original, clients, offer) ==
    LET places == Places(groups, original, offer)
    IN /\ OurFamily(offer)
       /\ Laid(groups, original, offer)
       /\ Len(places) = Len(clients)
       /\ \A k \in DOMAIN clients : Keeps(clients[k], offer[places[k].section])

Moved(groups, original, clients, offer) ==
    LET places == Places(groups, original, offer)
    IN [k \in DOMAIN clients |->
           [remote |-> places[k].remote,
            dir |-> Negotiated(offer[places[k].section].dir),
            send |-> clients[k].send, receive |-> clients[k].send]]

(***************************************************************************)
(* The answer: for each section the stream it advertises, 0 for none.      *)
(***************************************************************************)
\* Mutant: sections after those with a stream are forgotten.
KeepsFewerSlots(groups, offer) == \E g \in DOMAIN groups : groups[g].slot # g
KeepsSlots(groups, offer) ==
    \/ Len(offer) # Len(groups)
    \/ \E g \in DOMAIN groups : groups[g].slot # g

SlotOf(groups, offer, g) ==
    IF KeepsSlots(groups, offer) THEN groups[g].slot ELSE g

Answer(groups, offer) ==
    [i \in DOMAIN (IF KeepsSlots(groups, offer) THEN offer ELSE groups) |->
        IF \E g \in DOMAIN groups : SlotOf(groups, offer, g) = i
        THEN CHOOSE g \in DOMAIN groups : SlotOf(groups, offer, g) = i
        ELSE 0]
=============================================================================
