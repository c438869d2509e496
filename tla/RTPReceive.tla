----------------------------- MODULE RTPReceive -----------------------------
(***************************************************************************)
(* The receiving half of an RTPClient (rfcvoip/RTP.py): audio packets and  *)
(* telephone-events of the peer are placed on one timeline of PCM samples  *)
(* and handed to the packet manager, digits to the DTMF callback.          *)
(*                                                                         *)
(* The peer has sent the packets of a script: audio on the clock of the    *)
(* codec, events on a clock of their own, on one SSRC (RFC 7160).  The     *)
(* network delays, repeats and loses them.  A packet of the script says    *)
(* where its audio really is (pos), so that a sample out of place is seen. *)
(***************************************************************************)
EXTENDS PacketBuffer, FiniteSetsExt

CONSTANTS
    None,
    TsWrap, SeqWrap,  \* 2^32 and 2^16: RTP timestamps and sequence numbers wrap
    AudioRate, EventRate,   \* clocks of the codec and of telephone-events
    PcmRate,        \* audio_sample_rate
    MaxDuration,    \* longest segment of an event: 65535
    Memory,         \* packets, reports and clock changes remembered: 256
    Scripts,        \* what the peer may have sent
    Window,         \* bound: a packet is overtaken by fewer than Window others
    MaxRepeats,     \* bound: packets delivered again
    MaxReads,       \* bound: reads of the application
    Lengths,        \* bytes it asks for
    MaxRestarts,    \* bound: stop() and start()
    MayLose,        \* whether packets are lost
    Faults          \* {"decode"} when a payload may fail to decode

ASSUME ClocksAssumption ==
    /\ {TsWrap, SeqWrap, AudioRate, EventRate, PcmRate} \subseteq Nat \ {0}
    /\ TsWrap % 2 = 0 /\ SeqWrap % 2 = 0
    /\ MaxDuration \in 1..(TsWrap - 1) /\ Memory \in Nat \ {0}
    /\ MayLose \in BOOLEAN /\ Faults \subseteq {"decode"}

VARIABLES
    script,     \* what the peer sent
    todo,       \* packets of it that are still on the way
    rx,         \* the _receive attributes
    dtmf,       \* _received_dtmf: segments [key, dur, end], oldest first
    pmin,       \* the packet manager
    digits,     \* history: key presses given to the DTMF callback
    placed,     \* history: packets of this run that reached a clock
    first,      \* history: the packet the current source began with
    torn,       \* history: presses seen to go on before a whole segment was
    heard,      \* history: bytes read from the current source, in order
    past,       \* history: bytes read from it before the last switch
    repeats, reads, restarts

bounds == <<repeats, reads, restarts>>
vars == <<script, todo, rx, dtmf, pmin, digits, placed, first, torn, heard, past, bounds>>

\* ssrc, high: _receive_ssrc, _receive_timestamp; seen: _receive_sequences;
\* seq, ts: _receive_media_sequence, _timestamp; end: _receive_event_end.
NoSource == [ssrc |-> None, high |-> None, seen |-> <<>>, seq |-> None,
             ts |-> None, epochs |-> <<>>, history |-> <<>>, end |-> None]

Init ==
    /\ script \in Scripts /\ todo = 1..Len(script)
    /\ rx = NoSource /\ dtmf = <<>> /\ pmin = Reset(0, <<>>)
    /\ digits = <<>> /\ placed = {} /\ first = 0 /\ torn = {}
    /\ heard = <<>> /\ past = {}
    /\ repeats = 0 /\ reads = 0 /\ restarts = 0

\* A deque with maxlen.
Keep(s, x) == LET t == Append(s, x)
              IN IF Len(t) > Memory THEN Tail(t) ELSE t
\* The value nearest to the high-water mark that is v on the wire.
Unfold(v, high, mod) ==
    IF high = None THEN v
    ELSE high + ((v - high + mod \div 2) % mod) - (mod \div 2)
At(stamp, clock) == (stamp * PcmRate) \div clock

(***************************************************************************)
(* _receive_media_offset()                                                 *)
(***************************************************************************)
Forward(r, s, t) == (r.seq = None \/ s >= r.seq) /\ (r.ts = None \/ t >= r.ts)

Epoch(s, t, clock, pcm) == [seq |-> s, ts |-> t, clock |-> clock, pcm |-> pcm]
PcmIn(epoch, t) == epoch.pcm + At(t, epoch.clock) - At(epoch.ts, epoch.clock)

\* Audio after an event of known end resumes at that end.
Turn(epoch, t, audio, end) ==
    IF audio /\ epoch.clock = EventRate /\ end # None
         /\ epoch.ts <= end /\ end <= t
    THEN end ELSE t

Epochs(r, s, t, clock, audio) ==
    LET known == IF r.epochs = <<>> THEN <<Epoch(s, t, clock, At(t, clock))>>
                 ELSE r.epochs
        turn == Turn(Last(known), t, audio, r.end)
    IN IF Forward(r, s, t) /\ clock # Last(known).clock
       THEN Keep(known, Epoch(s, turn, clock, PcmIn(Last(known), turn)))
       ELSE known

\* The clock a packet is placed by.  Audio that was overtaken by later audio
\* goes by the clock of that one.
EpochOf(r, epochs, s, t, clock, audio) ==
    LET begun == {i \in 1..Len(epochs) : epochs[i].seq <= s}
        of == IF begun = {} THEN 1 ELSE Max(begun)
        later == {i \in 1..Len(epochs) :
                     epochs[i].seq > s /\ epochs[i].clock = clock}
    IN IF ~Forward(r, s, t) /\ audio /\ epochs[of].clock # clock /\ later # {}
       THEN epochs[Min(later)] ELSE epochs[of]

Seen(s, t, clock, pcm, audio, end) ==
    [seq |-> s, ts |-> t, clock |-> clock, pcm |-> pcm, audio |-> audio,
     end |-> end]

Place(r, s, t, clock, audio, end) ==
    LET epochs == Epochs(r, s, t, clock, audio)
        epoch == EpochOf(r, epochs, s, t, clock, audio)
        pcm == epoch.pcm + At(t, clock) - At(epoch.ts, clock)
        item == Seen(s, t, clock, pcm, audio, end)
        old == ToSet(r.history)
        oldest == IF old = {} THEN s ELSE Min({h.seq : h \in old})
    IN [pcm |-> pcm, ts |-> t,
        \* where the history has to be read again from, if it has to
        from |-> Min({s} \cup {h.seq : h \in {x \in old :
                                               ~x.audio /\ x.ts = t}}
                         \cup {h.seq - 1 : h \in {x \in old :
                                                   x.audio /\ x.ts > t}}),
        oldest |-> oldest,
        overtaken |-> ~Forward(r, s, t),
        r |-> [r EXCEPT
                  !.epochs = epochs,
                  !.history = IF s >= oldest /\ item \notin old
                              THEN Keep(@, item) ELSE @,
                  !.seq = IF Forward(r, s, t) THEN s ELSE @,
                  !.ts = IF Forward(r, s, t) THEN t ELSE @,
                  !.end = CASE ~Forward(r, s, t) -> @
                            [] Forward(r, s, t) /\ audio -> None
                            [] OTHER -> IF end # None THEN end
                                        ELSE IF @ # None /\ t >= @ THEN None
                                        ELSE @]]

(***************************************************************************)
(* _repair_late_event_clock(): an event arrives after audio that followed  *)
(* it.  What was observed since is placed again; unread audio is moved.    *)
(***************************************************************************)
LongestEnd(items, stamp) ==
    LET ends == {x.end : x \in {y \in items : ~y.audio /\ y.end # None
                                                  /\ y.ts = stamp}}
    IN IF ends = {} THEN None ELSE Max(ends)

Observations(r, from, stamp) ==
    LET items == SelectSeq(r.history, LAMBDA x : x.seq >= from)
        Before(a, b) == a.seq < b.seq \/ (a.seq = b.seq /\ a.ts < b.ts)
        sorted == SortSeq(items, Before)
        known == \E x \in ToSet(items) :
                     x.seq = from /\ x.ts = stamp /\ ~x.audio
    IN IF known THEN sorted
       ELSE <<Seen(from, stamp, EventRate, 0, FALSE,
                   LongestEnd(ToSet(items), stamp))>> \o sorted

\* One observation placed again: a carries the clocks so far (epochs), the
\* end of the event under way, the observations as corrected, where the
\* first audio was put and by how much it was wrong.
Again(items, a, x) ==
    LET end == IF x.audio \/ LongestEnd(items, x.ts) = None THEN x.end
               ELSE LongestEnd(items, x.ts)
        last == Last(a.epochs)
        turn == Turn(last, x.ts, x.audio, a.end)
        epochs == IF x.clock = last.clock THEN a.epochs
                  ELSE Append(a.epochs, Epoch(x.seq, turn, x.clock,
                                              PcmIn(last, turn)))
        pcm == PcmIn(Last(epochs), x.ts)
        item == [x EXCEPT !.pcm = pcm, !.end = end]
    IN IF a.unsafe THEN a
       ELSE IF ~x.audio /\ x.ts < a.latest
       THEN [a EXCEPT !.items = Append(@, [x EXCEPT !.end = end])]
       ELSE [a EXCEPT
           !.epochs = epochs,
           !.items = Append(@, item),
           !.latest = Max({@, x.ts}),
           !.end = CASE x.audio -> None
                     [] ~x.audio /\ end # None -> end
                     [] OTHER -> IF @ # None /\ x.ts >= @ THEN None
                                 ELSE @,
           !.first = IF x.audio /\ @ = None THEN x.pcm ELSE @,
           !.wrong = IF x.audio /\ a.first = None THEN pcm - x.pcm
                     ELSE @,
           !.unsafe = x.audio /\ a.first # None
                              /\ pcm - x.pcm # a.wrong]

SameItem(x, y) == /\ x.seq = y.seq /\ x.ts = y.ts
                  /\ x.clock = y.clock /\ x.audio = y.audio

\* The corrections a are made, unless audio that was read would move, or some
\* audio by more than the rest.
Correct(r, m, prefix, a) ==
    LET Corrected(x) ==
            LET same == {i \in 1..Len(a.items) : SameItem(a.items[i], x)}
            IN IF same = {} THEN x ELSE a.items[Max(same)]
    IN IF \/ prefix = <<>> \/ a.unsafe \/ a.first = None \/ a.wrong = 0
          \/ ShiftRefused(m, a.first, a.wrong)
       THEN [r |-> r, m |-> m]
       ELSE [r |-> [r EXCEPT
                       !.epochs = a.epochs, !.end = a.end,
                       !.history = [i \in DOMAIN @ |-> Corrected(@[i])]],
             m |-> Shift(m, a.first, a.wrong)]

\* Mutant: nothing is placed again
NoRepair(r, m, from, stamp) == [r |-> r, m |-> m]
\* The receiver and the packet manager once the event is known.
Repair(r, m, from, stamp) ==
    LET prefix == SelectSeq(r.epochs, LAMBDA x : x.seq < from)
        start == [epochs |-> prefix, end |-> None, items |-> <<>>,
                  first |-> None, wrong |-> 0, unsafe |-> FALSE,
                  latest |-> Last(prefix).ts]
        recent == {x \in ToSet(r.history) : x.seq >= from}
    IN Correct(r, m, prefix, FoldLeft(LAMBDA b, x : Again(recent, b, x), start,
                                      Observations(r, from, stamp)))

(***************************************************************************)
(* parse_audio()                                                           *)
(***************************************************************************)
Key(p) == <<p.ssrc, p.seq>>
\* The bytes of packet i: every byte of the script is a number of its own.
Samples(i) == [k \in 1..script[i].len |-> 8 * i + k]

\* Mutant: what was seen is forgotten
SourceIsFresh(ssrc) == [NoSource EXCEPT !.ssrc = ssrc]
\* A new source has clocks of its own; what was seen of others is still known.
SourceIs(ssrc) == [NoSource EXCEPT !.ssrc = ssrc, !.seen = rx.seen,
                                   !.high = rx.high]
\* Whether a payload decodes.
Decodes == IF "decode" \in Faults THEN BOOLEAN ELSE {TRUE}

Audio(i) ==
    LET p == script[i]
        same == rx.ssrc = p.ssrc
        t == Unfold(p.ts, IF same THEN rx.high ELSE None, TsWrap)
        base == IF same THEN rx ELSE SourceIs(p.ssrc)
        put == Place(base, Unfold(p.seq, base.seq, SeqWrap),
                     Unfold(t, base.ts, TsWrap), AudioRate, TRUE, None)
    IN /\ p.audio
       /\ \/ /\ Contains(rx.seen, Key(p))
             /\ UNCHANGED <<rx, pmin, placed, first, heard, past>>
          \/ /\ ~Contains(rx.seen, Key(p))
             /\ \E decoded \in Decodes :
                    IF ~decoded THEN UNCHANGED <<rx, pmin, placed, first, heard, past>>
                    ELSE /\ pmin' = IF same THEN Write(pmin, put.pcm, Samples(i))
                                    ELSE Reset(put.pcm, Samples(i))
                         /\ rx' = [put.r EXCEPT
                                      !.high = IF ~same \/ t > @ THEN t ELSE @,
                                      !.seen = Keep(@, Key(p))]
                         /\ placed' = IF same THEN placed \cup {i} ELSE {i}
                         /\ first' = IF same THEN first ELSE i
                         /\ heard' = IF same THEN heard ELSE <<>>
                         /\ past' = IF same THEN past
                                    ELSE past \cup ToSet(heard)
       /\ UNCHANGED <<dtmf, digits, torn>>

(***************************************************************************)
(* parse_telephone_event(): the reports of a packet, one after another     *)
(***************************************************************************)
Repaired(st, fixed) == [st EXCEPT !.r = fixed.r, !.m = fixed.m]
Settled(st, put) ==
    IF put.overtaken /\ st.r.history # <<>> /\ put.from >= put.oldest
    THEN Repaired(st, Repair(put.r, st.m, put.from, put.ts))
    ELSE [st EXCEPT !.r = put.r]

Clocked(st, p, t, report) ==
    LET r == st.r
        stamp == Unfold(t, r.ts, TsWrap)
    IN IF r.ssrc # p.ssrc THEN st
       ELSE Settled(st, Place(r, Unfold(p.seq, r.seq, SeqWrap), stamp,
                              EventRate, FALSE,
                              IF report.end THEN stamp + report.dur ELSE None))

\* Mutant: timestamps of segments do not wrap
ContinuesUnwrapped(known, p, t, report, marker) ==
    /\ ~marker \/ Len(p.reports) > 1
    /\ \E x \in ToSet(known) :
           /\ x.key = <<p.ssrc, t - MaxDuration, report.code>>
           /\ x.dur = MaxDuration /\ ~x.end
\* The segment before this one lasted MaxDuration and did not end the press.
Continues(known, p, t, report, marker) ==
    /\ ~marker \/ Len(p.reports) > 1
    /\ \E x \in ToSet(known) :
           /\ x.key = <<p.ssrc, (t - MaxDuration) % TsWrap, report.code>>
           /\ x.dur = MaxDuration /\ ~x.end

Reported(st, p, t, report, marker) ==
    LET key == <<p.ssrc, t, report.code>>
        at == {k \in 1..Len(st.dtmf) : st.dtmf[k].key = key}
        segment == [key |-> key, dur |-> report.dur, end |-> report.end]
    IN IF at # {}
       THEN [st EXCEPT !.dtmf[Min(at)] =
                [@ EXCEPT !.dur = Max({@, report.dur}),
                          !.end = @ \/ report.end]]
       ELSE [st EXCEPT !.dtmf = Keep(@, segment),
                       !.digits = IF Continues(st.dtmf, p, t, report, marker)
                                  THEN @ ELSE Append(@, report.press)]

Reports(p) ==
    LET Step(st, report) ==
            LET next == Reported(Clocked(st, p, st.t, report),
                                 p, st.t, report, st.marker)
            IN [next EXCEPT !.t = (@ + report.dur) % TsWrap,
                            !.marker = report.end]
    IN FoldLeft(Step, [r |-> rx, m |-> pmin, dtmf |-> dtmf, digits |-> digits,
                       t |-> p.ts, marker |-> p.marker], p.reports)

\* Packet i goes on with a press of which no whole segment has come.
Tears(i, report) ==
    LET Of(j, n) == {x \in ToSet(script[j].reports) : x.press = n}
        whole == {j \in 1..(i - 1) : \E x \in Of(j, report.press) :
                                        x.dur = MaxDuration /\ ~x.end}
    IN whole # {} /\ whole \cap placed = {}

Event(i) ==
    LET p == script[i]
    IN /\ ~p.audio
       /\ \E done \in {Reports(p)} :
             /\ rx' = done.r /\ pmin' = done.m
             /\ dtmf' = done.dtmf /\ digits' = done.digits
       /\ placed' = IF rx.ssrc = p.ssrc THEN placed \cup {i} ELSE placed
       /\ UNCHANGED <<first, heard, past>>
       /\ torn' = torn \cup {x.press : x \in {y \in ToSet(p.reports) :
                                                 Tears(i, y)}}

(***************************************************************************)
(* The threads                                                             *)
(***************************************************************************)
InWindow(i) == \A j \in todo : i < j + Window

Receive(i) ==
    /\ i \in todo /\ InWindow(i) /\ todo' = todo \ {i}
    /\ Audio(i) \/ Event(i)
    /\ UNCHANGED <<script, bounds>>

\* The network delivers a packet again.
Repeat(i) ==
    /\ i \in 1..Len(script) \ todo /\ InWindow(i) /\ repeats < MaxRepeats
    /\ Audio(i) \/ Event(i)
    /\ repeats' = repeats + 1
    /\ UNCHANGED <<script, todo, reads, restarts>>

\* Lost on the way, malformed, of an unknown codec, or read while the call is
\* on hold.
Lose(i) ==
    /\ MayLose /\ i \in todo /\ InWindow(i)
    /\ todo' = todo \ {i}
    /\ UNCHANGED <<script, rx, dtmf, pmin, digits, placed, first, torn, heard, past, bounds>>

AppReads(n) ==
    /\ reads < MaxReads /\ reads' = reads + 1
    /\ heard' = heard \o SelectSeq(Taken(pmin, n), LAMBDA b : b # Silence)
    /\ pmin' = Read(pmin, n)
    /\ UNCHANGED <<script, todo, rx, dtmf, digits, placed, first, torn, past, repeats, restarts>>

Restart ==
    /\ restarts < MaxRestarts /\ restarts' = restarts + 1
    /\ rx' = NoSource /\ dtmf' = <<>> /\ pmin' = Reset(0, <<>>)
    /\ digits' = <<>> /\ placed' = {} /\ first' = 0 /\ torn' = {}
    /\ heard' = <<>> /\ past' = {}
    /\ UNCHANGED <<script, todo, repeats, reads>>

Next ==
    \/ \E i \in 1..Len(script) : Receive(i) \/ Repeat(i) \/ Lose(i)
    \/ \E n \in Lengths : AppReads(n)
    \/ Restart

Spec == Init /\ [][Next]_vars

(***************************************************************************)
(* Properties                                                              *)
(***************************************************************************)
Origin(b) == script[b \div 8].pos + (b % 8) - 1

\* Bytes of a source are heard in the order the peer spoke them, and no byte
\* is heard twice, whatever the network reorders, repeats or wraps:
\* parse_audio's duplicate history, the unfolding of timestamps and sequence
\* numbers, and the packet manager together.
HeardInOrder ==
    /\ \A j, k \in 1..Len(heard) :
           j < k => Origin(heard[j]) < Origin(heard[k])
    /\ ToSet(heard) \cap past = {}

Unread == {x \in UNION {{<<e.at + k - 1, e.data[k]>> : k \in 1..Len(e.data)} :
                           e \in pmin.log} : x[1] >= Cursor(pmin)}
\* No packet of this source from its first to its newest is missing, and none
\* is older than the first.
Complete ==
    \A i \in 1..Len(script) :
        script[i].ssrc = rx.ssrc /\ (\E j \in placed : i <= j)
            => (i \in placed <=> i >= first)
\* Unread samples are as far apart as the peer spoke them, once every packet
\* before the newest has arrived: _receive_media_offset and its repair place
\* audio on one timeline across clock changes, wraps and overtaken events.
TimelineFaithful ==
    Complete /\ torn = {} =>
                \A x, y \in Unread :
                    x[1] - y[1] = Origin(x[2]) - Origin(y[2])

\* A key press is one digit, however often and in however many segments the
\* peer reports it: _parse_telephone_event_report's segments.
PressIsOneDigit ==
    \A j, k \in 1..Len(digits) :
        digits[j] = digits[k] /\ digits[j] \notin torn => j = k
=============================================================================
