--------------------------- MODULE PacketManager ---------------------------
(***************************************************************************)
(* RTPPacketManager of an RTPClient (rfcvoip/RTP.py): the receive thread   *)
(* writes packets and starts new streams, the application reads, and a     *)
(* late telephone-event moves what is unread.  Each call is one step: all  *)
(* of it is made under bufferLock.                                         *)
(*                                                                         *)
(* Every byte written is a number of its own, so that a byte heard twice   *)
(* or out of place is seen.                                                *)
(***************************************************************************)
EXTENDS PacketBuffer

CONSTANTS
    Offsets,    \* positions packets are written at
    Largest,    \* bytes in the largest packet
    Sizes,      \* bytes in a packet
    Lengths,    \* bytes a reader asks for
    Deltas,     \* corrections of a late telephone-event
    MaxWrites,  \* bound: packets written
    MaxReads,   \* bound: reads
    MaxBegins,  \* bound: new streams after the first
    MaxShifts,  \* bound: corrections
    FarShifts   \* whether a correction may exceed Span

ASSUME LargestAssumption == Largest \in Nat \ {0}
ASSUME BoundsAssumption ==
    /\ Offsets \subseteq Nat /\ Sizes \subseteq 1..Largest /\ Lengths \subseteq Nat
    /\ Deltas \subseteq Int /\ FarShifts \in BOOLEAN
    /\ {MaxWrites, MaxReads, MaxBegins, MaxShifts} \subseteq Nat

VARIABLES
    pm,         \* the manager
    out,        \* what the last read returned
    heard,      \* history: bytes returned by the reads before it
    writes, reads, begins, shifts   \* counters of the bounds

counters == <<writes, reads, begins, shifts>>
vars == <<pm, out, heard, counters>>

\* The packet numbered n: bytes that no other packet has.
Packet(n, size) == [k \in 1..size |-> Largest * n + k]
Bytes(s) == {s[k] : k \in 1..Len(s)} \ {Silence}

Init ==
    /\ pm = New /\ out = <<>> /\ heard = {}
    /\ writes = 0 /\ reads = 0 /\ begins = 0 /\ shifts = 0

Receive(o, size) ==
    /\ writes < MaxWrites
    /\ pm' = Write(pm, o, Packet(writes, size)) /\ writes' = writes + 1
    /\ UNCHANGED <<out, heard, reads, begins, shifts>>

\* A new stream: the first packet of another source, or a restarted client.
Begin(o, size) ==
    /\ writes < MaxWrites /\ begins < MaxBegins
    /\ pm' = Reset(o, Packet(writes, size))
    /\ writes' = writes + 1 /\ begins' = begins + 1
    /\ UNCHANGED <<out, heard, reads, shifts>>

Play(n) ==
    /\ reads < MaxReads
    /\ out' = Taken(pm, n) /\ pm' = Read(pm, n)
    /\ heard' = heard \cup Bytes(out)
    /\ reads' = reads + 1
    /\ UNCHANGED <<writes, begins, shifts>>

Correct(boundary, delta) ==
    /\ shifts < MaxShifts /\ pm.log # {} /\ delta # 0
    /\ FarShifts \/ ~ShiftExceeds(pm, boundary, delta)
    /\ pm' = Shift(pm, boundary, delta) /\ shifts' = shifts + 1
    /\ UNCHANGED <<out, heard, writes, reads, begins>>

Next ==
    \/ \E o \in Offsets, size \in Sizes : Receive(o, size) \/ Begin(o, size)
    \/ \E n \in Lengths : Play(n)
    \/ \E b \in Offsets, delta \in Deltas : Correct(b, delta)

Spec == Init /\ [][Next]_vars

(***************************************************************************)
(* Properties                                                              *)
(***************************************************************************)
\* The bytes held from the cursor on, by position, without silence.
Ahead == LET Byte(p) == pm.buffer[p - pm.offset + 1]
         IN [p \in {q \in Cursor(pm)..(pm.offset + Len(pm.buffer) - 1) :
                       Byte(q) # Silence} |-> Byte(p)]

\* The manager plays what Playout promises: RTPPacketManager.write, read and
\* rebuild, with padding, compaction, the log and its eviction, are one
\* timeline read once from its cursor on.
Timeline == INSTANCE Playout WITH
    cursor <- IF pm.ready THEN Cursor(pm) ELSE 0,
    tape <- Ahead, playing <- pm.started, ready <- pm.ready,
    Packets <- {Packet(n, size) : n \in 0..MaxWrites, size \in Sizes}
ImplementsPlayout == Timeline!Spec

\* A rebuild changes nothing that is yet to be read, but for what lies more
\* than Span before a byte that was received: RTPPacketManager.log, cut by
\* every overlap, by age and by compaction, says of each unread position the
\* byte the buffer holds there.
LogIsTheBuffer ==
    LET logged == {p \in UNION {e.at..(End(e) - 1) : e \in pm.log} :
                      p >= Cursor(pm)}
    IN /\ \A a, b \in pm.log : a.at < b.at => End(a) <= b.at
       /\ \A p \in logged : \E e \in pm.log :
             /\ Covers(e, p)
             /\ p \in DOMAIN Ahead /\ Ahead[p] = e.data[p - e.at + 1]
       /\ \A p \in DOMAIN Ahead \ logged : \E q \in DOMAIN Ahead : q - p > Span

\* No byte of a packet is heard twice, whatever was written again, late, far
\* ahead or far behind ("late bytes must not rewind it or be replayed after a
\* rebuild", RTPPacketManager.write).
NothingReplayed ==
    /\ Bytes(out) \cap heard = {}
    /\ \A j, k \in 1..Len(out) : out[j] = out[k] => j = k \/ out[j] = Silence

=============================================================================
