# TLA+ model of rfcvoip

rfcvoip is a SIP/RTP soft phone library in Python.  This directory holds TLA+
modules for its control logic, TLC configurations that check them on small
instances, and TLAPS proofs.  Line numbers refer to `src/rfcvoip/`; `VoIP.py`
is `VoIP/VoIP.py`.

## The system

| Component | State it keeps | Operations | Talks to |
|---|---|---|---|
| VoIPCall (`VoIP.py:358`) | state, `_answer_in_progress`, `_finalized`, `_initial_invite_response`, RTP clients, assigned ports | answer, deny, hangup, bye, cancel, answered, renegotiate, finalize | phone registry, port pool, SIP client, RTP clients |
| VoIPPhone (`VoIP.py:1741`) | `calls`, response cache, ended outbound INVITEs, session ids, callback threads, status | callbacks for requests and responses, call, start, stop | SIP client (callbacks on its receive thread), application |
| RTP port pool (`VoIP.py:3137`) | `assignedPorts` | request, reserve, release, dead-call cleanup | calls |
| SIPClient run (`SIP.py:1630`) | NSD, `_run_generation`, sockets, receive thread | start, stop, detach, receive loop, connection failure | phone status, register timer |
| Registration (`SIP.py:5231`) | register timer, registration generation, counters | register, deregister, delayed register | SIP client run, digest authentication |
| INVITE client (`SIP.py:4763`) | pending transaction, pending responses | invite, digest retry, cancel, ACK | phone.call, receive thread |
| Receive and dispatch (`SIP.py:3464`) | socket lock, receive state | recv, parse_message, transaction waits | all of the above |
| Subscriptions (`SIP.py:2704`, `SIPSubscription.py`) | subscriptions, NOTIFY cache, callback queue | subscribe, unsubscribe, NOTIFY, drain | receive thread, application callbacks |
| Transport (`SIPTransport.py`) | stream buffer, SRV records | resolve, connect, send, frame, close | SIP client |
| RTPClient (`RTP.py`) | sockets, clock, buffers, DTMF state | start, stop, recv, trans, DTMF | call, audio application |
| Codecs, Telemetry, parsing | none, or wrapped libraries | conversions, reports | - |

### How they interact, and where it is hard

The SIP receive thread parses messages and calls the phone synchronously.  The
phone starts one thread per incoming call for the application's callback.
Application threads answer, deny and hang up calls and may stop the phone at
any moment.  Every call has a lock for its state, the phone has one for the
registry and one for the ports, and no handler holds a lock from beginning to
end: the difficult behaviour lies between two locked sections.  Messages are
retransmitted, lost and reordered by the network, sending can fail, a port can
be busy, a thread may not start.  Each RTPClient adds a receive and a transmit
thread that share buffers with the application.

What makes the components correct:

* a call: one final response, no revival after ENDED, nothing left behind;
  both sides go by the same terms after any number of re-INVITEs;
* the phone: one call per INVITE, retransmissions answered consistently, stop
  ends everything;
* the pool: each port has one owner, all ports come back;
* the SIP run: nothing of an old run acts on a new one, no socket is left open;
* registration: the status follows the last run, it is renewed for ever;
* INVITE client: no final response is lost or acted on twice;
* subscriptions: events in order, each once, none after the end;
* media: bytes are played and sent in order, once, in whole samples; timelines
  survive wrap-around, holds and key presses; a press is one digit;
* transport: what DNS disables is not used; frames are messages.

`PROJECT.json` lists the hazards one by one, with the property that covers
each, or with the reason there is none.

## Modules

| Module | Models | Uses |
|---|---|---|
| CallLifecycle | abstract: what a phone promises of calls and ports | |
| InboundCall, InboundCallProofs | an incoming call from INVITE to release | CallLifecycle |
| OutboundCall, OutboundCallProofs | an outgoing call from `call()` to release | CallLifecycle |
| Negotiation | media sections of offers and answers, as operators | |
| Reinvite, ReinviteProofs | INVITEs within a call | Negotiation |
| SIPRun, SIPRunProofs | start, stop, registration, connection failure, over runs | |
| Subscriptions, SubscriptionsProofs | SUBSCRIBE, NOTIFY, callback queue | |
| Playout | abstract: one timeline, read once | |
| PacketBuffer, PacketManager, PacketManagerProofs | RTPPacketManager, its methods and its use | Playout |
| RTPReceive | the receive side of an RTPClient | PacketBuffer |
| AudioOutput, RTPSend, RTPSendProofs | RTPAudioOutput and the transmit side | AudioOutput |
| Resolver, Framing, SIPConnection, SIPConnectionProofs | DNS choice, framing, one connection | both |

`MC*` modules give the constants of the larger instances.  In every module a
step is what one thread does between two points at which another thread can see
a difference: a locked section, an unlocked read or write, a message.
Definitions marked *Mutant* are plausible bugs; no action uses them.  They show
that each property can fail.

### CallLifecycle

Implemented by InboundCall and OutboundCall (DIALING counts as ringing): phases
go forward (none, ringing, answered, ended) and a port has at most one holder,
from the construction of a call to its release.

### InboundCall

| Model | Code |
|---|---|
| `state`, `answering`, `initial`, `finalized` | `state`, `_answer_in_progress`, `_initial_invite_response`, `_finalized` of the call |
| `inPort`, `assigned`, `running` | the RTP client's port, `assignedPorts` of the call, NSD of the RTP client |
| `calls`, `tag`, `cache` | `calls`, `sip.tagLibrary`, `_invite_response_cache` |
| `pool`, `sessions` | `assignedPorts` and `session_ids` of the phone |
| `pc`, `routine`, `cur`, `code` | where a thread is, in which routine, on which call, with which response |
| `todo`, `stopping`, `snap` | the loops of `stop()` and `request_ports()` |
| `Answer`..`Unflag` | `answer()`: first lock, RTP start, second lock, except clause, finally clause |
| `Decline`, `HangupGuarded` | the guards of `deny()` and `hangup()` |
| `StopMedia`..`SendBye` | the steps all endings are put together from; `After` is their order |
| `Stop`..`StopReturn` | `phone.stop()` with its three unlocked reads of the call's state |
| `RecvInvite`..`Fail` | the INVITE handler: cache, registered call, ringing, ports, registration, dispatch, failure |
| `Cancel`, `Bye` | the CANCEL and BYE handlers |
| `CallbackRuns`, `CallbackReturns` | the callback thread |

Abstractions: a call has one port; a dialog tag is named by the call it is
generated for; responses are their status codes; the caches neither expire nor
overflow; `stop()` ends with its loop over the calls.  A CANCEL or BYE that
matches no call is answered 481 and changes nothing; it is left out, as is a
request for a call in the wrong state, which raises before it changes anything.
Bounds: `MaxMsgs` limits the requests of the peers; with every object of `Calls`
used, a new INVITE is dropped (`Lookup`).  `Faults` selects which of sending,
binding and thread start may fail.

### OutboundCall

`call()` reads the responses to its INVITE itself, holding the receive lock, up
to the first 18x or final response; it builds and registers the call object only
afterwards, and the receive thread handles whatever comes in that gap.

| Model | Code |
|---|---|
| `state`, `busy`, `finalized`, `running`, `remote` | `state`, `_answer_in_progress`, `_finalized`, NSD of the RTP client, `remote_sip_message` of the call |
| `port`, `assigned`, `pool` | `self.port`, `assignedPorts` of the call and of the phone |
| `calls`, `ended`, `tag` | `calls`, `_ended_outbound_invites`, `sip.tagLibrary` |
| `depth`, `active`, `pending` | `_outbound_call_creation_depth`, `last_invite_debug["call_id"]`, `pending_invite_responses` |
| `recvLock` | the owner of `recvLock`; the receive thread takes it per message, `invite()` for its whole transaction |
| `Dial`..`Replay` | `call()` with `request_port()`, `invite()`, its except and finally clauses, the replay of the queued response |
| `Progress`, `Challenged`, `Final`, `TimedOut`, `Abandon` | the loop of `invite()` and the exit of `_invite_transaction` |
| `Read`, `ReadBye` | a message handled by the receive thread, or by an application thread that waits in `invite()` for another call |
| `Stale`..`Enqueue` | a final failure: stale test, second lookup, queueing |
| `Find`..`Unflag` | a 2xx: lookup, cache of ended INVITEs, claim, `answered()`, ACK, finally clause |
| `Cancel`, `Hangup` | `cancel()` and `hangup()` on calls `call()` has returned |
| `StopMedia`..`SendBoth` | the steps of every ending |
| `Collect` | `__del__` of a call nobody refers to |

`sent`, `answer`, `acked` and `byed` are what the peer sees: it decides each
INVITE once, and may repeat its answer at any time.  A response may be late, lost
or repeated.  `freed`, `tried` and `handed` are history.

Abstractions: a Call-ID names its call object; INVITEs are numbered within the
call; one code stands for all failures; `_ended_outbound_invites` neither expires
(32 s) nor overflows (256), so LateAnswerRecognised speaks of the time it covers
and of the order in which a call enters it and leaves the registry (a 2xx lost in
the registration gap is another matter, `OutboundGap.cfg`); the re-ACK of an
earlier challenge, and a message that matches no call, change nothing and are left
out.  `stop()` is not
modelled here, and a thread without a free port waits, as in the code while the
phone runs.

### Negotiation and Reinvite

Negotiation translates `_negotiate_local_transmit_type`, the tests of an offer
(`_callback_MSG_Invite`), the streams `VoIPCall.__init__` makes of it, the layout
and payload tests of `renegotiate()`, the change of the clients, and which
section of an answer advertises which stream (`_rtp_media_answer_map`,
`gen_answer`).  A codec value stands for a codec with its parameters and
bandwidth.

Reinvite puts them to use on the receive thread: the INVITE handler from the
response cache to `renegotiate()`, one label per point where the application can
get in (`Find`, `Renegotiate`, `Accept`, `Apply`, `SendReply`), against
`Answered`, `Hangup` and `Finalize`.

* A request is its CSeq, which stands for the whole transaction key; the peer
  waits for a final response before it sends another and never gives up.
* `Receive` may take any copy of any request sent so far, which is duplication,
  delay and loss at once.  `PeerLearns` may take any response sent, or none.
* `Forget` drops any cache entry, as its age (32 s) or other INVITEs (256 entries)
  do (`VoIP.py:2455`).
* When the send of a response fails, `parse_message` sends 500 (`Fallback`), which
  may leave or fail as well.  It is not cached and does not move `cseq`.
* So the peer may be refused without a record of it: by a 500 in place of a 200,
  or by a 491 that the cache has forgotten, since `cseq` does not move for it
  either.  `unrecorded` (history) has these requests.  A late copy of one may be
  accepted, and then the call goes by it and the peer does not, until the next
  request that is accepted.  Agreed excepts exactly that state (`applied` is
  `unrecorded`); `ReinviteRefused.cfg` shows it.  A 481 forgotten does no harm: it
  is sent for a call that is no longer registered.
* The first INVITE of a call that has ended belongs to InboundCall.

### SIPRun

| Model | Code |
|---|---|
| `gen`, `nsd`, `conn`, `sock`, `event`, `renewing`, `fails` | `_run_generation`, NSD, `connection`, `s`, `_register_cancel_event`, `registerThread`, `registerFailures` |
| `recvLock`, `lockRun` | owner of `recvLock` and the generation in its receive state |
| `status`, `phoneOn`, `phoneGen`, `starting`, `startGen` | the phone's `_status`, NSD, `_phone_start_generation`, `_start_in_progress`, `_starting_sip_generation` |
| `stack` | frames of each thread: callbacks nest (register, stream failure, fatal, stop) |
| `PhoneStart`..`PhoneStopped` | `VoIPPhone.start`, `stop`, `fatal` |
| `SipStart`..`UndoStart`, `SipStop`, `Detach`, `Cleanup` | `SIPClient.start`, `stop`, `_detach_run`, `_cleanup_detached_run` |
| `Send`..`Erred`, `Renew` | `register()`, `deregister()`, the register thread |
| `Fail`, `Report` | `_fail_signaling_connection` |

`opened`, `accepted` and `torn` are history.  Expires and delays are abstracted:
a register thread's delay ends at any time, or outlasts the behaviour (`Later`).

### Subscriptions

One action per locked section of `subscribe_to`, `unsubscribe_from`,
`_handle_notify`, the late response to SUBSCRIBE, `stop()`, and
`_drain_subscription_callbacks` (`Claim`, `Take`, `Call`, `Yield`).  Any message
of a subscription that was asked for may be read at any time, so the network
loses, repeats and reorders.  Packages, bodies and expiry are left out; the code
leaves refreshing to the application.  After `stop()` a receive thread of the
ended run can still put an event into the new queue; ReportedIffAnswered speaks
of subscriptions of the running run.

### Playout, PacketBuffer, PacketManager

PacketBuffer has one operator per method of RTPPacketManager: write with
padding, erasure and the log, rebuild, read with its compaction, reset, and the
correction of `_shift_unread_receive_suffix`.  All calls are made under
`bufferLock`, so each is a step of PacketManager.  Playout is the abstraction:
a tape of bytes by position, a cursor that goes forward while playing.

What is more than `max_log_span` before the start of the newest log entry is cut
from the log, and then lost to the reader if an earlier packet or a correction has
the buffer rebuilt.  An insertion keeps every packet within the span of the
cursor, so one might think that nothing unread is ever cut.  But the remainder of
a packet that a shorter one overwrites becomes an entry of its own, and its start
counts as the newest (`RTP.py:760`): up to a packet's length of unread bytes can be
cut.  Playout therefore lets a rebuild forget bytes that are more than the span
before a received byte (`TooOld`, `Remembered`), and nothing else; it takes four
packets to see it.

### RTPReceive

A script of packets as a peer would send it (audio, a key press, two presses in
one packet, a press of two segments, a new source) is delivered within a window
in any order, more than once or not at all, while the application reads, frames
fail to decode and the client restarts.  State is the receive clock of RTPClient
(`_receive_ssrc`, unwrapped timestamp and sequence number, PCM position), the
current telephone event and the memory of finished ones.

Known limits, excluded by the properties: the first late packet of an abandoned
source switches playback back to it; segments of a long press overtaken before
audio resumes report another digit; a packet older than the first received one
has no place; reordering stays below half of the sequence numbers.

### AudioOutput, RTPSend

AudioOutput has one operator per method of RTPAudioOutput.  The queue is kept byte
by byte, each with the time its chunk was queued, instead of as the deque of chunks:
expiry takes whole chunks, which are the bytes with the same time, and everything
else the methods do counts bytes.  RTPSend is the
`trans()` loop over a discrete clock, with holds (`sendrecv`), the queue of
digits, `transmit_dtmf` of the loop and of a thread that sends at once, `stop()`
and restart.  Each wait may last longer than asked, and each step may come later
than the one before (`late`): the loop reads the clock at many places, and every
read is a step of its own.

| Label | Code (`RTP.py`) |
|---|---|
| `head`, `hold`, `again` | the look at `sendrecv` (1858), the start of a hold and the wait (1859-1861), `next_due = clock()` after it or after a digit (1862, 1911) |
| `turn` | the end of a hold (1864-1875) and the queue of digits |
| `event`, `begin`, `tone` | the gap before a tone (1884-1891), the look of `transmit_dtmf` at the direction (1639), its reports |
| `refused` | the second look of `trans()`: the digit goes back or is dropped (1899-1912) |
| `frame`, `epoch`, `encode`, `send`, `pace` | the missed intervals (1930), `next_due = clock()` after them, the frame, the next deadline |

Two things go otherwise than the code says, and the properties state them as their
exceptions.  The end of a hold adds the time up to now to the timestamp, while
`next_due` was read before: what the thread was late in between (`twice`, history)
is in the pause, and again in the intervals missed if it comes to a period, so that
the timestamp runs ahead by it for the rest of the call; FollowsTheClock allows a
`lead` of at most `twice` (`RTPSendStall.cfg` refutes NeverAhead).  And a hold that
ends between the look of `transmit_dtmf` and the second look of `trans()` loses the
digit (`raced`, history); DigitsInOrder excepts these digits and no others
(`RTPSendDigit.cfg` refutes NoDigitLost).  A hold that begins just after the look
suppresses the packets of the tone.  Errors of `start()` are not modelled.
FollowsTheClock speaks of behaviours without a press sent at once and without a
stop, and is proved, with DigitsInOrder and SamplesStayWhole, in RTPSendProofs.

### Resolver, Framing, SIPConnection

Resolver is the choice of transport and service (NAPTR, SRV, priorities and
weights, disabled services); a failed query counts as no answer.  Framing cuts
a stream into messages.  SIPConnection puts them in sequence: lookup, connection
attempts, then senders under `_send_lock` with partial writes and time-outs,
one reader, and the close.  A time-out leaves half a message on the wire and the
next sender goes on behind it (`SIPTransport.py:613`), which WireWhole allows.
The client makes one connection per run, so it is never reopened here.  UDP,
parsing of URI text and TLS identity are left out.

## Runs

| Run | Instance | Question |
|---|---|---|
| inbound_races | 2 application threads, 1 call, all faults, 3 messages | Do answer, deny, hangup, stop, CANCEL, BYE and retransmissions of one call keep its decision single, its end final and its response remembered, and is everything released in the end? |
| inbound_two_calls | 2 INVITEs, 2 calls, 1 port, 4 messages | Exhaustion, reclaim and refusal; a Call-ID that gets a second call while the first is still being removed |
| outbound_answer | 2 application threads, 1 call, all faults, 4 messages | Do 18x, 2xx, failures and BYE, against call(), cancel() and hangup(), keep one answerer, a final end, and every late 2xx recognisable? Does call() come back? |
| outbound_setup | 2 calls, 1 port, 2 retries, 5 messages, no 2xx | Does a call() that is challenged, fails or times out undo exactly what it did, two of them reading each other's responses? |
| reinvite | an inbound call with a refused section, a stream and a stream of two ports, an inbound and an outbound call with one stream; 2 or 3 possible offers each; 3 requests, 1 failing send | Do both sides go by the same request, whatever is repeated, overtaken, lost or forgotten, unless one was refused without a record? Is every section answered as its stream behaves? |
| reinvite_slots | an inbound call with one stream | violated: an answered section is the one the packets go to |
| sip_run | 1 application thread, 2 receive threads, 1 register thread, origin and proxy challenges, 1 stop, 2 faults, failure threshold 2 | Does nothing of an ended run act on a later one, is nothing left open, is the registration renewed, do start() and stop() come back? |
| subscriptions | 2 application threads, 1 subscription, 2 NOTIFYs, 3 messages read, challenges, 481 and failing sends | Are events delivered in order, once, exactly when answered; do table and tags follow the outcome; does the queue drain? |
| packet_manager | packets of 1 and 3 bytes at 3 positions, 4 writes, 2 reads, a new stream, a correction; span 4 | Does the manager play one timeline, each byte once, with its log equal to its buffer but for what is too old? |
| rtp_receive | 4 scripts of 4 to 6 packets, window 4, 2 repeats, loss, 2 reads, a restart; timestamps modulo 32, sequence numbers modulo 16 | Is audio in its place and heard in order, and each press one digit? |
| rtp_send | both modes; of writes, digits, holds, a press at once and a stop any 3; 4 units of time; timestamps modulo 32 | Are digits sent in order, samples whole, timestamps on the clock, but for what the end of a hold does? |
| sip_connection | 24 combinations of URI and default, 4 NAPTR answers, 5 SRV answers; 3 messages cut anywhere; 2 senders | Is DNS obeyed, are frames messages, are messages whole on the wire? |

Two application threads suffice to put any two operations against each other and
against the receive thread; the third message allows a retransmission and a
CANCEL or BYE for the same call.  Two calls are the least with which one call's
cleanup meets another's port, registry entry or tag.  outbound_setup leaves the
2xx out so that it can share the port between two calls and still check the
pool exactly.  Two retries tell a repeated challenge from a new one.  With three
re-INVITEs one can be applied, a second overtake it, and a copy of either come
last.  Four packets are a byte that is still to be read, a packet at the end of
its span, a shorter one over that, and an earlier one that has the buffer rebuilt.
Spans, windows and wraps of the RTP runs are the smallest in which every
branch of the arithmetic is taken: a wrap lies in the middle of each script, and
packets fall inside, before and beyond the span.  Two faults allow a failure on
the way out of a failure.

Symmetry is declared where threads, calls, INVITEs and ports are interchangeable
and never with a liveness property.  Deadlock is checked for InboundCall: an
idle application thread can always call stop().  The other systems really stop,
when every call has ended, every packet has come, or the bounds are used up.

Not part of the runs, but kept beside them: the configurations of the next
section, each of which TLC refutes.  The inductive invariants of the proofs can be
checked too: name `IInv`, and for RTPSend `SampleInv`, among the INVARIANTS of a
run of the component; all hold.

### Fairness

`FairSpec` assumes weak fairness of `Step(t)` for each thread, and of
`CallbackRuns` for each callback thread of an inbound call.  A thread in the
middle of an operation is scheduled again.  In InboundCall it holds no lock
across a step.  In OutboundCall and SIPRun it may wait for the receive lock; its
owner always gives it back (the handlers end, transactions have a deadline), and
the bounds on messages and faults keep others from taking it for ever.  Nothing
obliges an application to act, a callback to return, or a peer to send:
CallReturns and CallsReturn rest on the time-outs of the code.

## What the code does otherwise than it says

The run reinvite_slots and these configurations end in a violation.

* **A re-INVITE can leave a stream in the wrong section** (`ReinviteSlots.cfg`,
  AnswerKeepsSlots).  `renegotiate()` skips sections refused at the start but not
  sections added later, so an offer that switches the only stream's section off
  and adds a live one is accepted: the packets go to the new section, while the
  answer advertises the stream in the old one and rejects the new
  (`VoIP.py:1219`, `tests/test_voip_remaining_media_slots.py:65`).
* **A refusal without a record allows a later acceptance** (`ReinviteRefused.cfg`,
  AlwaysAgreed).  The 200 to a re-INVITE does not leave, the 500 after it does
  (`SIP.py:3765`): the peer has been refused, but nothing is cached and the CSeq has
  not moved, so that a late copy of the request is answered 200 and applied.  The
  same happens when the cache has forgotten a 491 (`VoIP.py:2455`).  The comment at
  `VoIP.py:2473` says that the final decision is kept for a retry.
* **A digit is lost when a hold is short** (`RTPSendDigit.cfg`, NoDigitLost).
  `transmit_dtmf` finds the call on hold (`RTP.py:1639`), the hold ends, and
  `trans()`, which looks again (`RTP.py:1899`), neither has sent the digit nor puts
  it back, against "retain queued digits when hold races event startup"
  (`CHANGELOG.md:13`).
* **A stall at the end of a hold is counted twice** (`RTPSendStall.cfg`, NeverAhead).
  `next_due` is read before the direction and the pause after it (`RTP.py:1862`,
  `1867`): a period or more in between goes into the pause and again into the missed
  intervals (`RTP.py:1930`), and the timestamp stays ahead of the sampling clock that
  the comment at `RTP.py:1865` wants kept.
* **A BYE in the early dialog allows a duplicate call** (`InboundDuplicate.cfg`,
  OneCallPerInvite).  `bye()` finalizes a RINGING call without ending it: no
  response is remembered, and the retransmitted INVITE becomes a second call,
  although `docs/VoIP.rst:176` promises it does not.  (The inductive invariant
  of the proofs is checked along the way.)
* **A late retransmission replaces a remembered rejection** (`InboundDecision.cfg`,
  DecisionKept).  A handler that checked the cache before `deny()` filled it
  answers 481 and remembers that over the 486, against `VoIP.py:2473`.
* **stop() can leave a call running** (`InboundStop.cfg`, StopEndsCalls).  If
  `answer()` commits between the first two reads of the state (`VoIP.py:3014`),
  the call is only finalized, against `docs/VoIP.rst:159`.
* **A 2xx in the registration gap is lost** (`OutboundGap.cfg`, NoAnswerLost).  The
  receive thread finds no call, `call()` registers it and pops the queue, the
  receive thread then ACKs without applying, or queues for nobody
  (`VoIP.py:1998`).
* **cancel() can leave a dialog behind** (`OutboundOrphan.cfg`, OrphanEnded).  A 2xx
  between two lookups, or between its claim and the state test of `answered()`, is
  ACKed and gets no BYE (`VoIP.py:2788`).
* **A stale 401 can end a fresh call** (`OutboundStale.cfg`, StaleFailureIgnored).
  The stale test and the effect look the call up separately, and the
  registration falls in between (`CHANGELOG.md:56`).
* **A deleted call can take another call's port** (`OutboundPort.cfg`,
  PortNotStolen).  `create_rtp_clients` refills `assignedPorts` of a call that
  `cancel()` has already cleared, and `__del__` releases it (`VoIP.py:1031`).
* **A BYE can be overtaken by the answer** (`OutboundBye.cfg`,
  AnsweredIsRegistered).  `bye()` on a call that is being answered only finalizes
  it; the commit then makes it ANSWERED, unregistered and without a port.
* **A stale receive thread can end a later run** (`SIPRunReceiver.cfg`,
  ReceiversOwnTheirRun), against `CHANGELOG.md` 2.10.5.
* **The drain flag can stay set over a restart** (`SubscriptionsRestart.cfg`,
  NothingEverLeft).  `_drain_subscription_callbacks` reads the queue and then sets
  the flag without comparing the queue again (`SIP.py:2752`); after a restart in
  between no callback of the new run is ever called (`CHANGELOG.md:17`).
* **A large correction replays audio** (`PlayoutReplay.cfg`, NothingReplayed).
  `_shift_unread_receive_suffix` moves the offset back to the oldest entry of the
  shifted log when it exceeds `max_log_span` (`RTP.py:2286`), against `RTP.py:749`.

## What is proved

### InboundCallProofs

For all threads, calls, INVITEs, ports, faults and bounds, from
`ConstantsAssumption` alone (the receive thread is no application thread, None
is no call, INVITE or port, `MaxMsgs` is a natural number): TypeCorrect,
Invariance, AnswerExclusion, Decision (AcceptExcludesReject), PortReservation
(HeldPortsReserved), Refinement (ImplementsLifecycle) and EndedStays.

The properties are not inductive.  `IInv` adds what the code relies on without
saying it:

* `FrameInv`: at the labels of the call routines a thread works on a call;
* `BuiltInv`, `BuildInv`: what the phone or a thread refers to is built, and the
  object under construction is neither built nor called back yet; without
  this, taking a port could revive a call;
* `AnswerInv`: an answering thread has raised the flag of its call;
* `DecisionInv`: a sent 200 implies that `_initial_invite_response` is 200, a
  sent 486 or 487 that the call is `Unanswerable` (it has ended, or nobody was
  or will be given it), and a thread about to send agrees with both.  An
  unanswerable call has no initial response, which excludes the two together.

Each conjunct has a lemma with one step per action.  `LifecycleStep` maps each
step to one of CallLifecycle or to a stutter; Refinement and EndedStays follow.

From the same assumption, on top of `IInv`: RegistryInvariance, TagsOfCalls
(TagOfRegisteredCall) and EndedAnswered (EndedIsRemembered).  `RegistryInv` has
five parts, each kept by every step given the ones before it:

* `TagInv`: while a call is made for an INVITE, no call of that Call-ID is
  registered and the tag is that of the one being made, and until it is
  registered no thread works on it or is going to.  So the removal of an older
  call with the same Call-ID, which takes along the tag of its own object only,
  leaves the new one's alone;
* `InviteInv`: a call, its registration and the request in hand are of one
  INVITE, so that what the receive thread remembers under the request's key is
  remembered for the call it ends;
* `CodeInv`: what is about to be remembered is a final response; the cache
  therefore only goes from one final response to another (`CacheGrows`);
* `SettledInv`: a call that has left RINGING has a remembered response, or some
  thread is at a label from which it will remember one (`Remembers`);
* `EndingInv`: who is about to end a call found it past RINGING, ended it
  itself, or, in the `except` clause of `answer()`, has seen or made an entry
  in the cache.

An ended call on which no thread works is remembered by nobody any more, hence
has its response by `SettledInv`.  `EndingInv` is what the `except` clause and
`phone.stop()` need: they set ENDED without deciding on a response, and rely on
others having done so.  (A BYE in the early dialog finalizes a call that still
rings; it does not end it, which is the finding `InboundDuplicate.cfg`.)

### ReinviteProofs

For all offers, calls, numbers of requests and faults, and without an assumption on
what the cache forgets: Invariance (`[]IInv`), Agreement (`[]Agreed`) and NeverRevert
(`MediaNeverRevert`).  Agreed speaks of a moment at which nothing is outstanding and
the request applied is not one that may have been refused without a record
(`unrecorded`: the one way to disagree, see Negotiation and Reinvite above).  The
invariant says what leads there:

* `Ordered`: the records of the call and the labels of the receive thread are in
  the order of the requests; what is being renegotiated is later than `cseq`;
* `Settled`: the clients and the Contact are those of the request applied last.
  The lemma MovedAgain shows that the outcome of `renegotiate()` depends only on
  the payload maps, which it never changes, so that `Terms` of an earlier request
  stay what they were;
* `OneOutcome`, while the call lives: cache, responses under way and the call's
  own record give each request one outcome, 200 exactly for the request applied
  or about to be; a new request has had no response (`Undecided`); and the peer
  goes by the request applied unless a response is outstanding (`PeerAgrees`).
  Each of them lets go of the requests in `unrecorded` and of nothing else.

There is one lemma per action, and under it one step per conjunct it can disturb.


### OutboundCallProofs

For all threads, calls, ports, retries, faults and kinds of messages, from
`ConstantsAssumption` (the receive thread is no application thread, None is none
of the names): Invariance (`[]IInv`), TypeCorrect, AnswerExclusion, LateAnswers,
FailedCalls, Challenges, EndedStays, LockReleased and DepthReturns.  `IInv`
(OutboundCall.tla) adds to the properties what makes them inductive:

* `FrameInv`: a handler works on a call whose object exists once it has looked it
  up, and has remembered its INVITE before it releases and removes it: this is
  why a late 2xx finds the call or its memory (LateAnswerRecognised);
* `LockInv`: who waits for its INVITE, or handles on the receive thread, owns
  `recvLock`; hence where a handler returns to (`Done`) is decided by the lock;
* `DialInv`: a Call-ID belongs to one `call()`, which is in its set-up exactly as
  long as the call has no object, and has given back port and tag when it leaves
  without one: this carries FailedCallLeavesNothing;
* `DepthInv`: `_outbound_call_creation_depth` is the number of `call()`s in their
  set-up.  A thread that finalizes an ended call for a port, or handles a message
  of another call meanwhile, still counts;
* `AnswerInv`: who sets up media has raised `_answer_in_progress` of its call,
  also after the answer turned out unusable, and is the only one.

Types come first, in five groups of variables, each with one step per action.  A
handler's step goes on or ends (`HandlerControl`); the lemmas HandlerKeeps,
HandlerFrame, HandlerAnswers and HandlerRegistry build on that alone, not on the
21 actions.  The steps of `call()` share SetupKeeps, the starts of handlers
StartKeeps, and what leaves all threads in place StillKeeps.

That the pool belongs to the calls (HeldPortsReserved, and with it
ImplementsLifecycle) is false for some constants: a 2xx whose
`create_rtp_clients` runs after `cancel()` has finalized the call enters the
given-back port in `assignedPorts` again, and `__del__` takes it from the call
that has it by then (`OutboundPort.cfg`).  What is proved is that nothing else
can break them.  `NoneRefilled` says that no call that gave its port back lists
one:

* PortsAreHeld: `Spec /\ []NoneRefilled => []HeldPortsReserved`;
* Refinement: `Spec /\ []NoneRefilled => ImplementsLifecycle`;
* UnansweredPortsAreHeld: if no peer sends a 2xx, `Spec => []HeldPortsReserved`
  with no condition on the behaviour, which is the claim of `OutboundSetup.cfg`
  for any threads, calls, ports, retries and number of messages.

They need `IInv` and a second inductive invariant, `PortInv` (OutboundCall.tla):
the set-up of a `call()` has a port from `request_port` on and gives it back only
where it fails (`SetupPort`); an object has a port, which is back before the call
leaves the registry (`ObjectPort`); and of all threads that finalize a call only
the one that set `_finalized` gives its port back (`ReleaseInv`).  With PortInv a
collected call is one that gave its port back, so that Collect contradicts
NoneRefilled.  Without a 2xx NoneRefilled is itself an invariant, by way of
`NoMediaInv`: no thread sets up media, and who lists a port holds it.  Of the
actions only those that take, pass on or give back a port have a lemma of their
own; the rest share QuietKeeps.  In the refinement Create is Build, Commit is
Accept, SetEnded and Cancel are End, Release is Release.  PortInv and NoMediaInv
were checked with TLC before they were proved, on the instance of
`OutboundSetup.cfg` with BYE, and with 2xx and every fault under the condition.

### SIPRunProofs

For all threads, failure thresholds, stops and faults, and for runs without
bound, from `ConstantsAssumption` (the kinds of threads are disjoint, None and
Later are none of them): Invariant (`[]IInv`), TypeCorrect, NothingIsLeft
(NothingLeft), RunKeepsRegistering (KeepsRegistering) and
RegisteredRunIsAccepted (RegisteredIsThisRun).

NothingLeft and KeepsRegistering speak of a moment at which nobody works on a
run.  `IInv` (SIPRun.tla) says of every moment who will see to what is open:

* `FramesOK`: what a frame relies on if its run is still on; of an ended run it
  relies on nothing, since no frame belongs to a generation not yet reached.
  A frame at `commit` knows that the accepted REGISTER is that of its run, from
  which RegisteredIsThisRun follows;
* `StacksOK`: how routines nest on a thread, and that a run whose registration
  has been given up is being stopped by the frame above;
* `OneRegisters`: one frame at most registers the run that is on, so nobody
  undoes the arming of another; `KeptAlive`: such a frame, the `start()` that is
  going to undo the run, or a register thread that waits uncancelled exists
  while the run is on;
* `SocketInv`, `TimerInv`: an open socket is that of the run or a frame will
  close it, a waiting register thread is that of the run, cancelled, or a frame
  will cancel it;
* `LockInv`: who owns `recvLock` is inside a transaction or a read.

Most actions replace the frame on top of one stack by none, one or two.  The
lemmas `...Fits` show for each conjunct, in terms of the old and the new frames
alone (`Turns`, `Rests`, `Fits`), when such a move keeps it; GoKeeps,
ReplaceKeeps, InvokeKeeps and LeaveKeeps specialise them to the forms the
actions have.  The steps that change the generation (SipStart, Detach), hand the
socket or a register thread on, or start a thread (SpawnKeeps) have proofs of
their own.

### SubscriptionsProofs

For all application threads, subscriptions, runs, cache sizes and numbers of
messages, from `ConstantsAssumption` (an application thread is no number, since
receive threads are named by their run, and None is no thread or subscription):
Invariant (`[]IInv`), TypeCorrect, EventsInOrder (DeliveredInOrder),
AnsweredIsReported (ReportedIffAnswered), RepeatsAlike (RepeatsAnsweredAlike),
FirstRunIsDrained (NothingLeftToDeliver) and TableFollowsOutcome
(TableMatchesOutcome).

The properties speak of what has been delivered, or of a moment at which nobody
works.  `IInv` (Subscriptions.tla) adds what is under way:

* `PlaceInv`, `LockInv`: where a thread can be, that none is of a run not yet
  begun, and that who is in a locked section owns `recvLock`, so that one NOTIFY
  at most is in hand;
* `HandInv`: a NOTIFY in hand is later than all its subscription remembers until
  it is remembered, and afterwards later than every event reported;
* `OrderInv`: delivered, in the hands of the thread that calls back, and queued
  events follow each other in the order of the notifier.  An event taken before
  a restart may be in hand while a new queue is filled and drained; it is then
  of an ended run and not counted as delivered.  That the event of the running
  run comes from the queue of the moment is what EventsInOrder needs;
* `DrainInv`: one thread drains the queue of the moment, and the flag is set
  while it does; `DrainLeft`: in the first run somebody looks after a queue that
  is not empty.  For later runs it is false, see `SubscriptionsRestart.cfg`;
* `CacheInv`: the cache is the end of what was remembered, none of it is refused,
  and what was refused is of a subscription no longer in the table or no later
  than what it remembers: nothing refused is remembered afterwards;
* `AnswerInv`: what was answered is reported or in hand, what is reported was
  answered;
* `TableInv`: a subscription is worked on by one `subscribe_to()`; an entry has
  its tag and has been returned, or its `subscribe_to()` is under way; a tag
  without an entry is in the hands of the thread that clears the ended run.

Each conjunct has a lemma that says what a step must leave alone for it to stay
(`OrderStays`, `CacheStays`, `TableStays`, ...).  The actions that touch neither
the table nor the events share CalmKeeps, which rests on AsideKeeps (a thread
with no event in hand) and AwayKeeps (one that hands no event on); StartKeeps and
StopKeeps share GenerationKeeps; the others have a lemma of their own.

### SIPConnectionProofs

WholeMessages (`[]WireWhole`), for any senders, message sizes and numbers of
messages, from `SendersAssumption` (a message has at least one unit, None is no
sender).  WireWhole speaks of units that lie side by side and says nothing about
what may come next, so `WireInv` adds who can write next:

* `OneSender`: a thread with something left to write holds `_send_lock`;
* `EndOfWire`: when a sender is in the middle of its message, the last unit on
  the wire is its own and the one before what it writes next; when none is, the
  wire ends with a complete message or where a sender gave up.

Resolution, reading and closing do not touch these variables (`OthersKeep`).

TargetAsAdvertised (`[]ResolvedAsAdvertised`), for any URIs, defaults, NAPTR and SRV
answers and any number of services, from `NoneAssumption` (None is no transport).
ResolvedAsAdvertised compares the target with the log of what the domain has
answered.  `LookupInv` says what the lookup knows of that log while it goes on: the services it remembers as disabled (`refused`) are those of
the log, none was usable so far, and an explicit transport is the only service on
its list.  An answer adds one service to one kind of them (`Answered`), which is
what the lookup adds to `refused`.

### RTPSendProofs

Three theorems about `trans()` and RTPAudioOutput, for any rates, wraps, lengths of a
tone and a frame, and any number of calls:

* FramesFollowTheClock (`FollowsTheClock`): a frame's timestamp tells the time it is
  sent, behind by no more than the transmitter has been late, and ahead by no more
  than it was late between its two looks at the clock at the end of a hold;
* DigitsAreSentInOrder (`[]DigitsInOrder`): every digit is given to one tone in order
  or still waits, but for those refused on hold when the hold ended (`raced`);
* SamplesAreWhole (`[]SamplesStayWhole`): what is sent is whole samples in the order
  written, whatever the sizes of frames, samples and writes, the latency and the mode.

`SendAssumption` says that rates, wraps and times are positive and that the final
report of a tone is sent more than once; the code sends it three times.  With one,
reports could end before the tone does, and the clock would run ahead of the time.
A write has a number of bytes; `FrameAssumption` says that a frame is whole samples,
as `frame_size` of the client's audio format is.

The clock needs to know where the stream is at every label of the loop, not only
when a frame is sent.  `Shows(ts, x, t)` says that timestamp ts, with its wrap,
stands for time x, of which t was counted at the rate of events.  `Anchor` is the
time at which the stream would be if the transmitter were never late (the wake-up
it slept for, the start of the tone, the start of the hold), and `ClockInv` says
that the stream is at Anchor minus a lag that is at most `late`, plus a lead that is
at most `twice`:

* between turns `outTs` and the gap after a tone show it together, in a tone or
  before a frame is sent the timestamp in hand does, and at the pace the frame has
  been counted already;
* a refused tone keeps beside `outTs` what undoes it, and that shows the same place;
* but for the lead, the stream is never ahead of the deadline (`InTime`, of
  `next_due`), so that skipping the intervals that are over cannot take it past the
  present;
* at the end of a hold the deadline is older than the thread's wake-up (`Between`):
  the lag is smaller by that much, since it is not yet counted, and the end of the
  hold turns it into a lead.

`TxInv` adds the times at each label: reports of a tone are at least a unit apart,
so that the last one comes no earlier than the tone's end; no hold is remembered
past the top of the loop.  Each action has a lemma (TurnKeeps, EventKeeps, ...) that
finds the new lag; they share Moves (a sum of timestamps moves what it shows, at
either rate and over a wrap), which rests on the uniqueness of division with
remainder.  For the digits, `DigitInv` says which label has one in hand, and that a
refused tone finds the call on hold, so that its digit goes back to the front, or
its digit is in `raced`; LineDialled and LineDrops say what a digit dialled and a
digit dropped do to a line in order.

`SampleInv` is the invariant of the samples.  A byte is in step when its number and
its place in the stream differ by whole samples and the byte before it in the same
sample is there; what was sent is in step and so is what waits, each from its own
beginning, so that a frame may be appended once both are known to be cut at the end
of a sample.  The queue ends with the last byte written, and the bytes written, those
still to be skipped and the size of the queue add up to whole samples: this is what
lets an expired half sample swallow the beginning of the next write and no more.
CutKeeps is the one lemma about taking bytes off the front; Trim, Expire and Get each
show that they take whole samples, or all there is with the rest to be skipped
(Rounding, RoundingDown), and PutKeeps that a write goes on where the queue ends.

### PacketManagerProofs

For any span and erase distance, packets of any size at any positions, reads,
new streams and corrections, from `SpanAssumption`, `LargestAssumption` and
`BoundsAssumption` (positions and lengths are natural numbers, no packet is empty):

* LogAgrees (`[]LogIsTheBuffer`);
* HeardOnce (`[]NothingReplayed`) and PlayoutRefined (ImplementsPlayout, every call
  is a step of Playout or a stutter), from `~FarShifts`, since a correction that
  exceeds the span does replay audio (`PlayoutReplay.cfg`).

A buffer is a sequence, a log a set of entries and a tape a function.  The proofs
compare them as one relation, which byte is at which position: `Holds` for the
buffer, `Logs` for the log, `Has` for what is yet to be read, `At` for the tape.
There is a lemma for each operator of PacketBuffer that says which relation it
makes of which (OverlayIs, RebuildIs, CompactIs, LoggedIs, ShiftedIs, ...); the
arithmetic of slices is in them and nowhere else.

LogIsTheBuffer is not inductive, `Sound` is.  It adds:

* `Apart`: no two entries of the log overlap, so that a rebuild does not depend
  on their order, and an entry lies at most a packet beyond the span of the
  buffer, which bounds how far the newest can cut;
* `LogHeld`: what the log says of an unread position is in the buffer; `Forgotten`:
  a byte of the buffer that the log lacks is more than the span before another
  unread byte.  The second is hard to keep when that other byte is overwritten,
  consumed or moved: overwriting leaves a byte at its place, reading passes the
  older byte first, and a rebuild forgets it for good;
* before reading begins nothing is consumed and nothing in the log lies before
  the buffer, so that an earlier packet may become the new beginning.

`Origin` says where bytes come from: every byte to be read is of a packet already
written, at one position only, and has not been heard.  A write cannot break it
because each packet has bytes of its own; a correction moves bytes and makes no
copies when what it moves does not overlap what it leaves (`ShiftRefused`).

For the refinement, `Filled` and `Fresh` describe the outcome of a write by
position; FillMaps and EarlyMaps show that they are Playout's `Fill`, `Late`,
`Early` and `Begin`, CorrectMaps the same of `Shift`, and PlayMaps of `Read`.

### Only model-checked

* AnswerKeepsSlots of Reinvite, which holds for the offers of its run and not
  for all (`ReinviteSlots.cfg`).
* HeldPortsReserved and ImplementsLifecycle of OutboundCall where a released call
  does list its port again, as far as they hold then: not in all instances
  (`OutboundPort.cfg`).
* WeightsDecide and FramesAreMessages: the choice by weight and the cutting of a
  stream are folds over sequences, and what a fold computes for every input needs
  induction over data, which the provers cannot do.  The same holds of Negotiation's
  matching of sections.
* HeardInOrder, TimelineFaithful and PressIsOneDigit of RTPReceive, which are
  about scripts of packets delivered within a window: what the clock makes of them
  depends on the script as a whole.
* Everything under fairness: liveness is out of the prover's reach.

## Not modelled

* Blocks of ports and `reserve_ports()`: a call has one port, so that a call of
  several media sections that finds no contiguous block is not seen.
* `not_found()` and `unavailable()` of a call, which only deprecated callers use,
  and the call's own text buffer of DTMF digits.
* OPTIONS, MESSAGE and unknown requests: each sends one response and changes
  nothing.
* `phone.stop()` during an outbound call, and a run that is stopped while
  `invite()` waits.  SIPRun shows that what waits for a run's messages gives up
  when the run ends; InboundCall shows the loop over the calls.
* The choice of a digest challenge and its hash; the text of SIP and SDP
  messages, in and out; static payload names, fmtp and bandwidth; codecs and
  sample conversion; sockets of UDP, TLS identity, and the DNS library: pure
  functions, wrapped libraries or I/O, in which nothing happens in an order a
  model checker could vary.  Where their outcome matters it is an input.
* Telemetry: it reads the state of the others and changes nothing.

## What is left

In order of what it would add:

1. contiguous port blocks, with an abstract pool both kinds of call refine;
2. `phone.stop()` against a `call()` under way, composing SIPRun and
   OutboundCall.
