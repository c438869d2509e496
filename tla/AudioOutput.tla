---------------------------- MODULE AudioOutput ----------------------------
(***************************************************************************)
(* RTPAudioOutput (rfcvoip/RTP.py): the queue of PCM that waits to be      *)
(* sent.  Each operator is one call made under bufferLock.                 *)
(*                                                                         *)
(* The queue is a record: bytes, the content of _chunks in order, each     *)
(* [at, data] with the time its chunk was queued; live, whether            *)
(* enable_realtime() was called (_max_latency is set); primed, _primed;    *)
(* skip, _expired_alignment_skip; dropped and expired, the counters of     *)
(* discarded bytes.                                                        *)
(***************************************************************************)
EXTENDS Integers, Sequences

CONSTANTS
    Frame,      \* bytes of a frame
    Align,      \* bytes of one sample of all channels
    Period,     \* time a frame lasts
    Latency,    \* max_latency: how old PCM may get when live
    Lead        \* prefill: how long live PCM is gathered before it is sent

ASSUME FrameAssumption ==
    /\ {Frame, Align, Period} \subseteq Nat \ {0} /\ Frame % Align = 0
    /\ Latency \in Nat \ {0} /\ Lead \in 0..Latency

Larger(a, b) == IF a > b THEN a ELSE b
Smaller(a, b) == IF a < b THEN a ELSE b
RoundedUp(n) == ((n + Align - 1) \div Align) * Align

Maximum == Larger(Frame, (Latency \div Period) * Frame)
Prefill == Smaller(Maximum,
                   Larger(1, (Lead + Period - 1) \div Period) * Frame)

Empty(live) == [bytes |-> <<>>, live |-> live, primed |-> FALSE, skip |-> 0,
                dropped |-> 0, expired |-> 0]

Size(q) == Len(q.bytes)

\* The first n bytes are taken out; n is at most the size.
Without(q, n) == SubSeq(q.bytes, n + 1, Size(q))

\* Mutant: what is too much is dropped to the byte
TrimToByte(q) ==
    LET excess == Size(q) - Maximum
    IN IF ~q.live \/ excess <= 0 THEN q
       ELSE [q EXCEPT !.bytes = Without(q, excess), !.dropped = @ + excess]
\* A live queue drops its oldest samples beyond the maximum.
Trim(q) ==
    LET excess == Smaller(Size(q), RoundedUp(Size(q) - Maximum))
    IN IF ~q.live \/ Size(q) <= Maximum THEN q
       ELSE [q EXCEPT !.bytes = Without(q, excess), !.dropped = @ + excess]

GoLive(q) == Trim([q EXCEPT !.live = TRUE, !.primed = FALSE])

Put(q, now, d) ==
    LET skipped == Smaller(Len(d), q.skip)
        rest == [k \in 1..(Len(d) - skipped) |-> [at |-> now,
                                                  data |-> d[skipped + k]]]
        kept == [q EXCEPT !.skip = @ - skipped, !.expired = @ + skipped]
    IN IF rest = <<>> THEN kept ELSE Trim([kept EXCEPT !.bytes = @ \o rest])

\* Chunks that are too old, up to the end of their last sample.
Expire(q, now) ==
    LET old == {n \in 0..Size(q) :
                   \A i \in 1..n : now - q.bytes[i].at > Latency}
        whole == RoundedUp(CHOOSE n \in old : \A m \in old : m <= n)
        taken == Smaller(whole, Size(q))
    IN IF ~q.live THEN q
       ELSE [q EXCEPT !.bytes = Without(q, taken), !.expired = @ + taken,
                      !.skip = @ + whole - taken]

Waited(q, now) == q.bytes # <<>> /\ now - q.bytes[1].at >= Lead
\* A live queue that is not primed gathers PCM first.
Primes(q, now) ==
    q.primed \/ (Size(q) >= Frame /\ (Size(q) >= Prefill \/ Waited(q, now)))
Starved(q, now) == q.live /\ (~Primes(q, now) \/ Size(q) < Frame)

\* How many bytes of the queue a frame is made of: whole samples.  The rest
\* is silence.
Count(q, now) ==
    LET n == Smaller(Frame, Size(q))
    IN IF Starved(q, now) THEN 0 ELSE n - (n % Align)
Given(q, now) ==
    LET e == Expire(q, now)
    IN [k \in 1..Count(e, now) |-> e.bytes[k].data]
Get(q, now) ==
    LET e == Expire(q, now)
    IN [e EXCEPT !.bytes = Without(e, Count(e, now)),
                 !.primed = e.live /\ ~Starved(e, now)]
=============================================================================
