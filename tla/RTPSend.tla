------------------------------ MODULE RTPSend ------------------------------
(***************************************************************************)
(* The sending half of an RTPClient (rfcvoip/RTP.py): the transmitter      *)
(* thread paces frames of PCM and key presses on one timestamp clock; the  *)
(* application writes PCM, dials, sends a press at once from a thread of   *)
(* its own (transmit_dtmf()), stops and starts the client; the SIP side    *)
(* puts the call on hold and resumes it.                                   *)
(*                                                                         *)
(* Time passes at any point of any thread: a thread may be late by any     *)
(* amount.  A step of a thread ends where it sleeps, takes or gives back a *)
(* lock, acts on an attribute read without one, or reads the clock again.  *)
(***************************************************************************)
EXTENDS AudioOutput, FiniteSets

CONSTANTS
    None,
    TsWrap, SeqWrap,        \* 2^32 and 2^16
    AudioRate, EventRate,   \* timestamp ticks per unit of time
    Tone,       \* time a key press lasts; it is reported every unit
    Finals,     \* transmissions of its final report: 3
    Poll,       \* time between two looks at a call on hold
    MaxTime,    \* bound: time
    MaxDials,   \* bound: digits dialled
    MaxNow,     \* bound: presses sent at once
    Sizes,      \* bytes written at once
    MaxWrites,  \* bound: writes
    MaxHolds,   \* bound: changes of direction
    MaxStops,   \* bound: stop()
    MaxCalls,   \* bound: all of these together; writes exclude
                \* presses at once and stops
    Modes,      \* of the audio output: buffered, realtime
    Faults      \* {"encode"} when a frame may fail to encode

ASSUME SendAssumption ==
    /\ {TsWrap, SeqWrap, AudioRate, EventRate, Tone, Finals, Poll}
           \subseteq Nat \ {0}
    /\ Finals > 1 /\ None \notin Nat
    /\ Modes \subseteq {"buffered", "realtime"} /\ Faults \subseteq {"encode"}
    /\ Sizes \subseteq Nat

VARIABLES
    now,
    running,    \* NSD
    held,       \* sendrecv is recvonly or inactive
    outTs, outSeq,
    pending,    \* _pending_dtmf
    pmout,      \* the audio output
    tx,         \* the transmitter thread
    direct,     \* the thread that sends a press at once
    \* history
    last,       \* the last packet sent
    toned,      \* time the timestamps counted at the rate of events
    late,       \* time the transmitter was due and did not run
    twice,      \* time the transmitter was late between its two looks at the
                \* clock at the end of a hold
    begun,      \* digits whose tone began
    raced,      \* digits in hand when a hold ended that had just refused them
    sentBytes,  \* bytes taken out to be sent
    dials, nows, writes, written, holds, stops

counts == <<dials, nows, writes, written, holds, stops>>
vars == <<now, running, held, outTs, outSeq, pending, pmout, tx, direct, last,
          toned, late, twice, begun, raced, sentBytes, counts>>

\* at: label; wake: due to run from then on; due: next_due; since:
\* hold_started; gap: event_gap in time; after: after_event; digit: in hand;
\* began: time a tone began; sent: packets of it so far; ts: timestamp of the
\* tone or frame; kept: previous_timestamp, previous_gap
Idle == [at |-> "head", wake |-> 0, due |-> 0, since |-> None, gap |-> 0,
         after |-> FALSE, digit |-> None, began |-> 0, sent |-> 0, ts |-> 0,
         kept |-> [ts |-> 0, gap |-> 0, toned |-> 0]]

StartTs == TsWrap - AudioRate
Plus(ts, time, rate) == (ts + time * rate) % TsWrap

Nobody == [at |-> "idle", wake |-> 0, ts |-> 0, sent |-> 0]

Init ==
    /\ now = 0 /\ running = TRUE /\ held = FALSE
    /\ outTs = StartTs /\ outSeq = SeqWrap - 1 /\ pending = <<>>
    /\ \E mode \in Modes : pmout = Empty(mode = "realtime")
    /\ tx = Idle
    /\ direct = Nobody
    /\ last = None /\ toned = 0 /\ late = 0 /\ twice = 0
    /\ begun = <<>> /\ raced = {} /\ sentBytes = <<>>
    /\ dials = 0 /\ nows = 0 /\ writes = 0 /\ written = 0
    /\ holds = 0 /\ stops = 0

\* There is room for one more call within the bounds.
Room(count, max) ==
    count < max /\ dials + nows + writes + holds + stops < MaxCalls

\* _send_rtp_packet(), under _socket_lock.
Send(kind, ts) ==
    IF running /\ ~held
    THEN /\ last' = [kind |-> kind, seq |-> outSeq, ts |-> ts]
         /\ outSeq' = (outSeq + 1) % SeqWrap
    ELSE UNCHANGED <<last, outSeq>>

(***************************************************************************)
(* The transmitter                                                         *)
(***************************************************************************)
\* It goes on from label l and next runs after a sleep.
Runs(l) == tx.at = l /\ now >= tx.wake /\ late' = late + (now - tx.wake)
Goes(t, l, sleep) == tx' = [t EXCEPT !.at = l, !.wake = now + sleep]
\* Around the top of the loop only the loop's own variables have a meaning.
Loops(t, l, sleep) ==
    tx' = [Idle EXCEPT !.at = l, !.wake = now + sleep, !.due = t.due,
                       !.since = t.since, !.gap = t.gap, !.after = t.after]

Look ==
    /\ Runs("head") /\ running
    /\ Goes(tx, IF held THEN "hold" ELSE "turn", 0)
    /\ UNCHANGED <<outTs, outSeq, pending, pmout, last, toned, twice, begun,
                   sentBytes>>

Hold ==
    /\ Runs("hold")
    /\ Loops([tx EXCEPT !.since = IF @ = None THEN now ELSE @], "again", Poll)
    /\ UNCHANGED <<outTs, outSeq, pending, pmout, last, toned, twice, begun,
                   sentBytes>>

\* After a look at a call on hold and after a digit the deadline is due anew.
Again ==
    /\ Runs("again")
    /\ Goes([tx EXCEPT !.due = now], "head", 0)
    /\ UNCHANGED <<outTs, outSeq, pending, pmout, last, toned, twice, begun,
                   sentBytes>>

\* Mutant: the timeline stands still while on hold
PausedNever == 0
\* What a hold that is over leaves: the pause is kept in the timeline.
Paused == IF tx.since = None THEN 0 ELSE now - tx.since

\* Past the hold, the next digit or else the next frame.  The time since the
\* deadline was set is in the pause; the frame will find it missed as well.
Turn ==
    /\ Runs("turn")
    /\ twice' = IF tx.since = None THEN twice ELSE twice + (now - tx.due)
    /\ LET on == [tx EXCEPT !.since = None,
                            !.gap = IF tx.after THEN @ + Paused ELSE @]
       IN /\ outTs' = IF tx.after THEN outTs ELSE Plus(outTs, Paused, AudioRate)
          /\ IF pending = <<>>
             THEN /\ Goes(on, "frame", 0) /\ UNCHANGED pending
             ELSE /\ Goes([on EXCEPT !.digit = pending[1]], "event", 0)
                  /\ pending' = Tail(pending)
    /\ UNCHANGED <<outSeq, pmout, last, toned, begun, sentBytes>>

\* The gap after the tone before goes into the timestamp, at the rate of events.
Event ==
    /\ Runs("event")
    /\ outTs' = Plus(outTs, tx.gap, EventRate) /\ toned' = toned + tx.gap
    /\ LET kept == [ts |-> outTs, gap |-> tx.gap, toned |-> toned]
       IN Goes([tx EXCEPT !.gap = 0, !.kept = kept, !.began = now, !.sent = 0],
               "begin", 0)
    /\ UNCHANGED <<outSeq, pending, pmout, last, twice, begun, sentBytes>>

\* transmit_dtmf() looks at the direction again.
Begin ==
    /\ Runs("begin")
    /\ IF running /\ ~held
       THEN /\ Goes([tx EXCEPT !.digit = None, !.ts = outTs % TsWrap], "tone", 0)
            /\ begun' = Append(begun, tx.digit)
       ELSE Goes(tx, "refused", 0) /\ UNCHANGED begun
    /\ UNCHANGED <<outTs, outSeq, pending, pmout, last, toned, twice, sentBytes>>

\* Mutant: the digit waits behind the others
RequeueLast == pending' = Append(pending, tx.digit)
Requeue == pending' = <<tx.digit>> \o pending
\* On hold the digit is kept for later; otherwise it is dropped.
Refused ==
    /\ Runs("refused")
    /\ IF running /\ held
       THEN /\ outTs' = tx.kept.ts /\ toned' = tx.kept.toned /\ Requeue
            /\ Loops([tx EXCEPT !.gap = tx.kept.gap], "again", 0)
       ELSE /\ Loops(tx, "again", 0)
            /\ UNCHANGED <<outTs, toned, pending>>
    /\ UNCHANGED <<outSeq, pmout, last, twice, begun, sentBytes>>

Reports == 1 + Larger(0, Tone - 2) + Finals

\* One report of the tone; after the last one the clock moves by its length.
Report ==
    /\ Runs("tone")
    /\ LET end == ~running \/ tx.sent = Reports - 1
       IN /\ IF running THEN Send("event", tx.ts)
             ELSE UNCHANGED <<last, outSeq>>
          /\ IF end
             THEN /\ outTs' = Plus(tx.ts, Tone, EventRate)
                  /\ toned' = toned + Tone
                  /\ Loops([tx EXCEPT !.gap = Larger(0, now - tx.began - Tone),
                                     !.after = TRUE], "again", 0)
             ELSE /\ Goes([tx EXCEPT !.sent = @ + 1], "tone", 1)
                  /\ UNCHANGED <<outTs, toned>>
    /\ UNCHANGED <<pending, pmout, twice, begun, sentBytes>>

\* The next frame is due.  Missed intervals count, and start a fresh epoch.
FrameDue ==
    /\ Runs("frame")
    /\ LET behind == Larger(0, now - tx.due) \div Period
           ts == Plus(outTs, tx.gap, AudioRate)
       IN /\ outTs' = ts
          /\ Goes([tx EXCEPT !.gap = 0, !.after = FALSE,
                             !.ts = Plus(ts, behind * Period, AudioRate)],
                  IF behind > 0 THEN "epoch" ELSE "encode", 0)
    /\ UNCHANGED <<outSeq, pending, pmout, last, toned, twice, begun, sentBytes>>

Epoch ==
    /\ Runs("epoch")
    /\ Goes([tx EXCEPT !.due = now], "encode", 0)
    /\ UNCHANGED <<outTs, outSeq, pending, pmout, last, toned, twice, begun,
                   sentBytes>>

\* A frame is taken from the output.  One that cannot be encoded takes its time.
Encode ==
    /\ Runs("encode")
    /\ \E coded \in (IF "encode" \in Faults THEN BOOLEAN ELSE {TRUE}) :
          /\ outTs' = IF coded THEN outTs ELSE Plus(tx.ts, Period, AudioRate)
          /\ Goes(tx, IF coded THEN "send" ELSE "pace", 0)
    /\ sentBytes' = sentBytes \o Given(pmout, now)
                        \o [k \in 1..(Frame - Len(Given(pmout, now))) |-> 0]
    /\ pmout' = Get(pmout, now)
    /\ UNCHANGED <<outSeq, pending, last, toned, twice, begun>>

SendFrame ==
    /\ Runs("send")
    /\ Send("audio", tx.ts)
    /\ outTs' = Plus(tx.ts, Period, AudioRate)
    /\ Goes(tx, "pace", 0)
    /\ UNCHANGED <<toned, pending, pmout, twice, begun, sentBytes>>

\* Sleep until the next deadline; deadlines that are over are skipped.
Pace ==
    /\ Runs("pace")
    /\ LET due == tx.due + Period
           skipped == IF now > due THEN (now - due) \div Period + 1 ELSE 0
           next == IF now > due THEN now + Period ELSE due
       IN /\ outTs' = Plus(outTs, skipped * Period, AudioRate)
          /\ Loops([tx EXCEPT !.due = next], "head", next - now)
    /\ UNCHANGED <<toned, outSeq, pending, pmout, last, twice, begun, sentBytes>>

Exit ==
    /\ Runs("head") /\ ~running
    /\ Goes(tx, "done", 0)
    /\ UNCHANGED <<outTs, outSeq, pending, pmout, last, toned, twice, begun,
                   sentBytes>>

Transmit ==
    /\ \/ Look \/ Hold \/ Again \/ Turn \/ Event \/ Begin \/ Refused
       \/ Report \/ FrameDue \/ Epoch \/ Encode \/ SendFrame \/ Pace \/ Exit
    /\ UNCHANGED <<now, running, held, direct, raced, counts>>

(***************************************************************************)
(* transmit_dtmf() called by the application                               *)
(***************************************************************************)
SendNow ==
    /\ direct.at = "idle" /\ Room(nows, MaxNow) /\ writes = 0 /\ running /\ ~held
    /\ nows' = nows + 1
    /\ direct' = [at |-> "tone", wake |-> now, ts |-> outTs, sent |-> 0]
    /\ UNCHANGED <<now, running, held, outTs, outSeq, pending, pmout, tx, last,
                   toned, late, twice, begun, raced, sentBytes, dials, writes,
                   written, holds, stops>>

ReportNow ==
    /\ direct.at = "tone" /\ now >= direct.wake /\ UNCHANGED late
    /\ IF running THEN Send("event", direct.ts)
       ELSE UNCHANGED <<last, outSeq>>
    /\ IF ~running \/ direct.sent = Reports - 1
       THEN /\ outTs' = Plus(direct.ts, Tone, EventRate)
            /\ direct' = Nobody
       ELSE /\ direct' = [direct EXCEPT !.sent = @ + 1, !.wake = now + 1]
            /\ UNCHANGED outTs
    /\ UNCHANGED <<now, running, held, pending, pmout, tx, toned, twice,
                   begun, raced, sentBytes, counts>>

(***************************************************************************)
(* The application, the SIP side, time                                     *)
(***************************************************************************)
\* The bytes of the stream are numbered from 1: sample s is Align bytes.
Write(n) ==
    /\ Room(writes, MaxWrites) /\ nows + stops = 0
    /\ writes' = writes + 1 /\ written' = written + n
    /\ pmout' = Put(pmout, now, [k \in 1..n |-> written + k])
    /\ UNCHANGED <<now, running, held, outTs, outSeq, pending, tx, direct, last,
                   toned, late, twice, begun, raced, sentBytes, dials, nows,
                   holds, stops>>

EnableRealtime ==
    /\ ~pmout.live /\ pmout' = GoLive(pmout)
    /\ UNCHANGED <<now, running, held, outTs, outSeq, pending, tx, direct, last,
                   toned, late, twice, begun, raced, sentBytes, counts>>

Dial ==
    /\ Room(dials, MaxDials) /\ dials' = dials + 1
    /\ pending' = Append(pending, dials + 1)
    /\ UNCHANGED <<now, running, held, outTs, outSeq, pmout, tx, direct, last,
                   toned, late, twice, begun, raced, sentBytes, nows, writes,
                   written, holds, stops>>

SetDirection ==
    /\ Room(holds, MaxHolds) /\ holds' = holds + 1
    /\ held' = ~held
    /\ raced' = IF held /\ tx.at = "refused" THEN raced \cup {tx.digit}
                ELSE raced
    /\ UNCHANGED <<now, running, outTs, outSeq, pending, pmout, tx, direct,
                   last, toned, late, twice, begun, sentBytes, dials, nows,
                   writes, written, stops>>

Stop ==
    /\ running /\ Room(stops, MaxStops) /\ writes = 0
    /\ running' = FALSE /\ stops' = stops + 1
    /\ UNCHANGED <<now, held, outTs, outSeq, pending, pmout, tx, direct, last,
                   toned, late, twice, begun, raced, sentBytes, dials, nows,
                   writes, written, holds>>

\* start() is refused while a worker of the last run is alive.
Start ==
    /\ ~running /\ tx.at = "done"
    /\ running' = TRUE
    /\ tx' = [Idle EXCEPT !.wake = now, !.due = now]
    /\ UNCHANGED <<toned, now, held, outTs, outSeq, pending, pmout, direct, last,
                   late, twice, begun, raced, sentBytes, counts>>

Tick ==
    /\ now < MaxTime /\ now' = now + 1
    /\ UNCHANGED <<running, held, outTs, outSeq, pending, pmout, tx, direct,
                   last, toned, late, twice, begun, raced, sentBytes, counts>>

Next ==
    \/ Transmit \/ SendNow \/ ReportNow
    \/ \E n \in Sizes : Write(n)
    \/ EnableRealtime \/ Dial \/ SetDirection \/ Stop \/ Start \/ Tick

Spec == Init /\ [][Next]_vars

(***************************************************************************)
(* Properties                                                              *)
(***************************************************************************)
\* The timestamp of a frame, if it stands for d more than the present.
Tells(ts, d) ==
    ts = Plus(Plus(StartTs, now + d - toned, AudioRate), toned, EventRate)

\* The timestamp of a frame tells the time it is sent: behind it by no more than
\* the transmitter thread was late.  Holds, key presses and their
\* retransmissions at another clock rate, missed intervals and frames that fail
\* to encode leave no gap in trans()'s clock.  It is ahead of the time only by
\* what the thread was late between its two looks at the clock at the end of a
\* hold, which counts in the pause and again in the intervals missed.
FollowsTheClock ==
    [][SendFrame /\ last' # last /\ nows = 0 /\ stops = 0
           => \E lag \in 0..late', lead \in 0..twice' :
                 Tells(last'.ts, lead - lag)]_vars

\* The same without exception, as the code claims of a hold: "Suppressing RTP
\* does not stop its sampling clock. Keep the pause in the peer's timeline"
\* (RTP.py:1865).
NeverAhead ==
    [][SendFrame /\ last' # last /\ nows = 0 /\ stops = 0
           => \E lag \in 0..late' : Tells(last'.ts, -lag)]_vars

\* The digits whose tone began, that in hand, those that wait.
Line == begun \o (IF tx.digit = None THEN <<>> ELSE <<tx.digit>>) \o pending
Digits(line) == {line[k] : k \in DOMAIN line}
Ascends(line) == \A j, k \in DOMAIN line : j < k => line[j] < line[k]

\* Every digit dialled is given to one tone, in order, or still waits, when
\* the client is not stopped: trans() puts a digit back when a hold comes
\* between its two looks at the direction.  Only a digit refused on hold may be
\* lost, if the hold ends before the second look.
DigitsInOrder ==
    stops = 0 => /\ Ascends(Line)
                 /\ Digits(Line) \subseteq 1..dials
                 /\ (1..dials) \ raced \subseteq Digits(Line)

\* The same without exception: "retain queued digits when hold races event
\* startup" (CHANGELOG.md:13).
NoDigitLost == stops = 0 => Digits(Line) = 1..dials

Whole(n) == n % Align = 0
\* Sounds (0 is silence) that are in step with the samples of the stream: each
\* byte is where its kind of byte belongs, follows the byte before it of its
\* sample, and comes after every sound before it.
InStep(s) ==
    /\ \A k \in 1..Len(s) :
          s[k] # 0 => Whole(s[k] - k) /\ (Whole(k - 1) \/ s[k - 1] = s[k] - 1)
    /\ \A j, k \in 1..Len(s) : j < k /\ s[j] # 0 /\ s[k] # 0 => s[j] < s[k]

\* Channels and bytes of a sample never shift and PCM is never repeated or
\* reordered, however writes split it and expiry, trimming and underruns cut
\* it: RTPAudioOutput keeps sample boundaries.
SamplesStayWhole == InStep(sentBytes)

(***************************************************************************)
(* The inductive invariant behind FollowsTheClock and DigitsInOrder (see   *)
(* RTPSendProofs).                                                         *)
(***************************************************************************)
Stamps == 0..(TsWrap - 1)
Labels == {"head", "hold", "again", "turn", "event", "begin", "tone", "refused",
           "frame", "epoch", "encode", "send", "pace", "done"}
KeptType(kept) ==
    /\ kept = [ts |-> kept.ts, gap |-> kept.gap, toned |-> kept.toned]
    /\ kept.ts \in Int /\ kept.gap \in Nat /\ kept.toned \in Nat
TxType(t) ==
    /\ t = [at |-> t.at, wake |-> t.wake, due |-> t.due, since |-> t.since,
            gap |-> t.gap, after |-> t.after, digit |-> t.digit,
            began |-> t.began, sent |-> t.sent, ts |-> t.ts, kept |-> t.kept]
    /\ t.at \in Labels /\ t.wake \in Nat /\ t.due \in Nat
    /\ t.since \in Nat \cup {None} /\ t.gap \in Nat
    /\ t.digit \in Nat \cup {None} /\ t.began \in Nat /\ t.sent \in Nat
    /\ t.ts \in Stamps /\ KeptType(t.kept)
DirectType(d) ==
    /\ d = [at |-> d.at, wake |-> d.wake, ts |-> d.ts, sent |-> d.sent]
    /\ d.ts \in Int
TypeOK ==
    /\ TxType(tx) /\ DirectType(direct)
    /\ now \in Nat /\ outTs \in Int /\ toned \in Nat /\ late \in Nat
    /\ twice \in Nat
    /\ dials \in Nat /\ nows \in Nat /\ stops \in Nat
    /\ pending \in Seq(Nat) /\ begun \in Seq(Nat)

\* What the transmitter keeps at each label, in a run that was not stopped.
TxInv ==
    /\ stops = 0 => running /\ tx.at # "done"
    /\ nows = 0 => direct = Nobody
    /\ tx.due <= tx.wake
    /\ tx.since # None =>
          tx.at \in {"head", "hold", "again", "turn", "done"} /\ tx.since <= tx.wake
    /\ tx.at \in {"begin", "refused", "tone", "epoch", "encode", "send", "pace"} =>
          tx.gap = 0
    /\ tx.at = "begin" => tx.sent = 0 /\ tx.began = tx.wake
    /\ tx.at = "tone" => tx.began + tx.sent <= tx.wake /\ tx.sent < Reports

\* Timestamp ts stands for time x of the stream, t of it spent in tones.
Shows(ts, x, t) ==
    ts % TsWrap = (StartTs + (x - t) * AudioRate + t * EventRate) % TsWrap
\* Where the stream would be if the transmitter were never late.
Anchor == IF tx.at = "tone" THEN tx.began
          ELSE IF tx.since # None THEN tx.since ELSE tx.wake
\* The stream is at x, whatever the transmitter is doing.
IsAt(x) ==
    /\ tx.at \in {"head", "hold", "again", "turn", "event", "frame"} =>
           Shows(outTs, x - tx.gap, toned)
    /\ tx.at \in {"tone", "epoch", "encode", "send"} => Shows(tx.ts, x, toned)
    /\ tx.at \in {"begin", "refused"} =>
           /\ Shows(outTs, x, toned)
           /\ Shows(tx.kept.ts, x - tx.kept.gap, tx.kept.toned)
    /\ tx.at = "pace" => Shows(outTs, x + Period, toned)
\* The stream is not past what is due at y.
InTime(y) ==
    \/ tx.at \in {"frame", "encode", "send", "pace"}
    \/ tx.at \in {"head", "turn"} /\ tx.since = None
    => y <= tx.due
\* At the end of a hold: time since the deadline was set.
Between == IF tx.at \in {"head", "turn"} /\ tx.since # None
           THEN tx.wake - tx.due ELSE 0
ClockInv ==
    nows = 0 /\ stops = 0 =>
        \E lag \in 0..(late - Between), lead \in 0..twice :
            IsAt(Anchor - lag + lead) /\ InTime(Anchor - lag)

\* The digit in hand is one the transmitter is to send; one it will drop was
\* in hand when a hold ended.
DigitInv ==
    /\ tx.digit # None <=> tx.at \in {"event", "begin", "refused"}
    /\ DigitsInOrder
    /\ stops = 0 /\ tx.at = "refused" => held \/ tx.digit \in raced

IInv == TypeOK /\ TxInv /\ ClockInv /\ DigitInv

(***************************************************************************)
(* The inductive invariant behind SamplesStayWhole: what waits is in step, *)
(* ends with the last byte written, and with what is still to be skipped   *)
(* leaves off within the sample at which the next write goes on.           *)
(***************************************************************************)
Sounds(q) == [k \in 1..Size(q) |-> q.bytes[k].data]
QueueType(q) ==
    /\ q = [bytes |-> q.bytes, live |-> q.live, primed |-> q.primed,
            skip |-> q.skip, dropped |-> q.dropped, expired |-> q.expired]
    /\ q.bytes \in Seq([at : Nat, data : Nat \ {0}]) /\ q.skip \in Nat
InQueue(q, w) ==
    /\ QueueType(q) /\ InStep(Sounds(q))
    /\ Size(q) > 0 => q.skip = 0 /\ q.bytes[Size(q)].data = w
    /\ Whole(w + q.skip - Size(q))
\* x comes before everything that waits.
Before(x, q) == \A k \in 1..Size(q) : x < q.bytes[k].data
SampleInv ==
    /\ written \in Nat /\ InQueue(pmout, written)
    /\ sentBytes \in Seq(Nat) /\ Whole(Len(sentBytes)) /\ SamplesStayWhole
    /\ \A k \in 1..Len(sentBytes) :
          sentBytes[k] <= written /\ Before(sentBytes[k], pmout)
=============================================================================
