------------------------------ MODULE Reinvite ------------------------------
(***************************************************************************)
(* The INVITE requests a peer sends within a call: VoIPPhone.              *)
(* _callback_MSG_Invite and VoIPCall.renegotiate (rfcvoip/VoIP/VoIP.py) on *)
(* the receive thread, against the thread that answers or hangs up the     *)
(* call, a network that loses, repeats and delays requests and responses,  *)
(* and a bounded cache of responses.                                       *)
(*                                                                         *)
(* A request is known by its CSeq, which stands for its whole transaction  *)
(* key: a peer does not use a CSeq twice.                                  *)
(***************************************************************************)
EXTENDS Negotiation, FiniteSets

CONSTANTS
    Initials,   \* [origin |-> "in" or "out", offer |-> what set up the call,
                \* later |-> what the peer may offer then]
    MaxCSeq,    \* bound: CSeq of the peer's requests
    MaxFaults   \* bound: sends that fail

VARIABLES
    setup,      \* the Initials of this call
    state,      \* "DIALING", "ANSWERED", "ENDED"
    unsent,     \* answer() has committed but not sent the first response
    registered, \* the phone knows the call and its tag
    clients,    \* RTPClients: remote target, direction, payload maps
    contact,    \* the request whose Contact a BYE would be sent to
    last,       \* _last_remote_invite_key and _response
    cseq,       \* _remote_invite_cseq; 0 is None
    cache,      \* _invite_response_cache
    handler,    \* the receive thread
    replies,    \* responses sent to the request the peer has pending
    peer,       \* pending: request without final response; next; offers;
                \* agreed: the request whose terms the peer goes by
    \* history
    applied,    \* the request the clients were last changed for
    unrecorded, \* requests that may be refused without a record of it: a 500
                \* left where a 200 could not, or the cache forgot a 491
    faults

local == <<state, unsent, registered, clients, contact, last, cseq, cache, applied>>
vars == <<setup, local, handler, replies, peer, unrecorded, faults>>

Groups0 == Groups(setup.offer)

\* The CSeq of the INVITE that set up an inbound call.
First == IF setup.origin = "in" THEN 1 ELSE 0

Reply(n, status, answer) == [of |-> n, status |-> status, answer |-> answer]
Refusal(n, status) == Reply(n, status, <<>>)
InitialResponse == Reply(1, 200, Answer(Groups0, setup.offer))
NoReply == Refusal(0, 0)

\* The peer ignores responses to a request it has a final response for.
Sent(m) == IF m.of = peer.pending THEN replies \cup {m} ELSE replies
At(label, m) == [at |-> label, n |-> handler.n, message |-> m]
Idle == [at |-> "idle", n |-> 0, message |-> NoReply]

Init ==
    /\ setup \in Initials
    /\ Creatable(setup.offer)
    /\ setup.origin = "in" => Admitted(setup.offer)
    /\ state = IF setup.origin = "in" THEN "ANSWERED" ELSE "DIALING"
    /\ unsent = (setup.origin = "in")
    /\ registered = TRUE
    /\ clients = Clients(setup.offer)
    /\ contact = First /\ applied = First
    /\ last = NoReply /\ cseq = First
    /\ cache = {} /\ handler = Idle
    /\ replies = {}
    /\ peer = [pending |-> First, next |-> First + 1, agreed |-> 0,
               offers |-> IF First = 1 THEN <<setup.offer>> ELSE <<>>]
    /\ unrecorded = {} /\ faults = 0

(***************************************************************************)
(* The cache of responses.                                                 *)
(***************************************************************************)
Cached(n) == {m \in cache : m.of = n}

Remembering(m) == {c \in cache : c.of # m.of} \cup {m}

\* Time passes, or INVITEs of other calls fill the cache.  That a request came
\* too early for a call is recorded nowhere else.
Forget(m) ==
    /\ cache' = cache \ {m}
    /\ unrecorded' = IF m.status = 491 THEN unrecorded \cup {m.of}
                     ELSE unrecorded
    /\ UNCHANGED <<setup, state, unsent, registered, clients, contact, last, cseq,
                   applied, handler, replies, peer, faults>>

(***************************************************************************)
(* The receive thread.                                                     *)
(***************************************************************************)
\* Any copy of any request sent so far may arrive, or none.
Receive(n) ==
    /\ handler = Idle
    \* Without a cached response the first INVITE of an ended call would make
    \* a new call: see InboundCall.
    /\ ~registered /\ n = 1 /\ First = 1 => Cached(n) # {}
    /\ \/ /\ Cached(n) = {}
          /\ handler' = [at |-> "find", n |-> n, message |-> NoReply]
       \/ \E m \in Cached(n) :
             handler' = [at |-> "reply", n |-> n, message |-> m]
    /\ UNCHANGED <<setup, local, replies, peer, unrecorded, faults>>

\* _send_invite_response of a refusal: it is remembered, then sent.
Refuse(status) ==
    /\ cache' = Remembering(Refusal(handler.n, status))
    /\ handler' = At("reply", Refusal(handler.n, status))
    /\ UNCHANGED <<last, cseq>>

Repeat(m, at) ==
    /\ handler' = At(at, m)
    /\ UNCHANGED <<last, cseq, cache>>

IsFirst(n) == n = 1 /\ First = 1
\* Mutant: a request older than the last one is taken for a new one.
NeverStale(n) == FALSE
IsStale(n) == n <= cseq

Find ==
    LET n == handler.n
        within == registered /\ ~IsFirst(n)
        ready == within /\ state = "ANSWERED"
    IN /\ handler.at = "find"
       /\ \/ ~registered /\ Refuse(481)
          \/ registered /\ IsFirst(n) /\ Repeat(InitialResponse, "again")
          \/ within /\ state # "ANSWERED" /\ Refuse(491)
          \/ ready /\ n = last.of /\ Repeat(last, "reply")
          \/ ready /\ n # last.of /\ IsStale(n) /\ Refuse(500)
          \/ /\ ready /\ n # last.of /\ ~IsStale(n)
             /\ handler' = At("renegotiate", handler.message)
             /\ UNCHANGED <<last, cseq, cache>>
       /\ UNCHANGED <<setup, state, unsent, registered, clients, contact,
                      applied, replies, peer, unrecorded, faults>>

Remember(m) ==
    /\ last' = m
    /\ cseq' = m.of
    /\ cache' = Remembering(m)

CanMeet(offer) == Acceptable(Groups0, setup.offer, clients, offer)

\* Mutant: an acceptance is remembered before it is sent.
RenegotiateRemembering ==
    LET n == handler.n
        offer == peer.offers[n]
        refusal == Refusal(n, 488)
    IN /\ handler.at = "renegotiate"
       /\ IF ~CanMeet(offer)
          THEN /\ Remember(refusal)
               /\ handler' = At("reply", refusal)
          ELSE LET answer == Reply(n, 200, Answer(Groups0, offer))
               IN /\ Remember(answer)
                  /\ handler' = At("accept", answer)
       /\ UNCHANGED <<setup, state, unsent, registered, clients, contact, applied,
                      replies, peer, unrecorded, faults>>

Renegotiate ==
    LET n == handler.n
        offer == peer.offers[n]
        refusal == Refusal(n, 488)
    IN /\ handler.at = "renegotiate"
       /\ IF ~CanMeet(offer)
          THEN /\ Remember(refusal)
               /\ handler' = At("reply", refusal)
          ELSE /\ handler' =
                     IF registered
                     THEN At("accept", Reply(n, 200, Answer(Groups0, offer)))
                     \* The tag of an ended call is gone: gen_answer raises.
                     ELSE At("raised", handler.message)
               /\ UNCHANGED <<last, cseq, cache>>
       /\ UNCHANGED <<setup, state, unsent, registered, clients, contact, applied,
                      replies, peer, unrecorded, faults>>

Accept ==
    /\ handler.at = "accept"
    /\ replies' = Sent(handler.message)
    /\ handler' = At("apply", handler.message)
    /\ UNCHANGED <<setup, local, peer, unrecorded, faults>>

Apply ==
    /\ handler.at = "apply"
    /\ Remember(handler.message)
    /\ contact' = handler.n
    /\ clients' = Moved(Groups0, setup.offer, clients, peer.offers[handler.n])
    /\ applied' = handler.n
    /\ handler' = Idle
    /\ UNCHANGED <<setup, state, unsent, registered, replies, peer,
                   unrecorded, faults>>

SendReply ==
    /\ handler.at \in {"reply", "again"}
    /\ replies' = Sent(handler.message)
    /\ cache' = IF handler.at = "again" THEN Remembering(handler.message)
                ELSE cache
    /\ handler' = Idle
    /\ UNCHANGED <<setup, state, unsent, registered, clients, contact, last, cseq,
                   applied, peer, unrecorded, faults>>

SendFails ==
    /\ handler.at \in {"reply", "again", "accept"}
    /\ faults < MaxFaults
    /\ faults' = faults + 1
    /\ handler' = At("unsent", handler.message)
    /\ UNCHANGED <<setup, local, replies, peer, unrecorded>>

\* parse_message answers 500 when the callback raised before a final response
\* was sent.  This one may leave, or fail as well.
Fallback ==
    /\ handler.at \in {"raised", "unsent"}
    /\ \/ /\ replies' = Sent(Refusal(handler.n, 500))
          /\ unrecorded' = IF handler.message.status = 200
                           THEN unrecorded \cup {handler.n} ELSE unrecorded
       \/ UNCHANGED <<replies, unrecorded>>
    /\ handler' = Idle
    /\ UNCHANGED <<setup, local, peer, faults>>

(***************************************************************************)
(* The threads of the application and of call().                           *)
(***************************************************************************)
\* answer() sends and remembers the first response of an inbound call,
\* answered() commits an outbound one.
Answered ==
    /\ \/ /\ state = "DIALING"
          /\ state' = "ANSWERED"
          /\ UNCHANGED <<unsent, cache, replies>>
       \/ /\ unsent
          /\ unsent' = FALSE
          /\ replies' = Sent(InitialResponse)
          /\ cache' = Remembering(InitialResponse)
          /\ UNCHANGED state
    /\ UNCHANGED <<setup, registered, clients, contact, last, cseq, applied,
                   handler, peer, unrecorded, faults>>

Hangup ==
    /\ state = "ANSWERED"
    /\ state' = "ENDED"
    /\ UNCHANGED <<setup, unsent, registered, clients, contact, last, cseq,
                   cache, applied, handler, replies, peer, unrecorded, faults>>

Finalize ==
    /\ state = "ENDED" /\ registered
    /\ registered' = FALSE
    /\ UNCHANGED <<setup, state, unsent, clients, contact, last, cseq, cache,
                   applied, handler, replies, peer, unrecorded, faults>>

(***************************************************************************)
(* The peer and the network.                                               *)
(***************************************************************************)
PeerInvites(offer) ==
    /\ peer.pending = 0 /\ peer.next <= MaxCSeq
    /\ peer' = [pending |-> peer.next, next |-> peer.next + 1,
                agreed |-> peer.agreed, offers |-> Append(peer.offers, offer)]
    /\ UNCHANGED <<setup, local, handler, replies, unrecorded, faults>>

PeerLearns(m) ==
    /\ m \in replies
    /\ peer' = [pending |-> 0, next |-> peer.next,
                agreed |-> IF m.status = 200 THEN m.of ELSE peer.agreed,
                offers |-> peer.offers]
    /\ replies' = {}
    /\ UNCHANGED <<setup, local, handler, unrecorded, faults>>

Work == Find \/ Renegotiate \/ Accept \/ Apply \/ SendReply \/ Fallback

Next ==
    \/ \E n \in 1..(peer.next - 1) : Receive(n)
    \/ \E m \in cache : Forget(m)
    \/ Work \/ SendFails
    \/ Answered \/ Hangup \/ Finalize
    \/ \E offer \in setup.later : PeerInvites(offer)
    \/ \E m \in replies : PeerLearns(m)

Spec == Init /\ [][Next]_vars

(***************************************************************************)
(* Properties.                                                             *)
(***************************************************************************)
\* What the clients are after request n was accepted.
Terms(n) ==
    IF n = First THEN Clients(setup.offer)
    ELSE Moved(Groups0, setup.offer, clients, peer.offers[n])

Labels == {"idle", "find", "reply", "again", "renegotiate", "accept", "apply",
           "raised", "unsent"}

TypeOK ==
    /\ state \in {"DIALING", "ANSWERED", "ENDED"}
    /\ unsent \in BOOLEAN /\ registered \in BOOLEAN
    /\ contact \in Nat /\ cseq \in Nat /\ applied \in Nat
    /\ last.of \in Nat
    /\ \A m \in cache \cup replies : m.of \in Nat
    /\ handler = [at |-> handler.at, n |-> handler.n,
                  message |-> handler.message]
    /\ handler.at \in Labels /\ handler.n \in Nat
    /\ peer = [pending |-> peer.pending, next |-> peer.next,
               agreed |-> peer.agreed, offers |-> peer.offers]
    /\ peer.pending \in Nat /\ peer.next \in Nat /\ peer.agreed \in Nat
    /\ peer.offers \in Seq({setup.offer} \cup setup.later)
    /\ Len(peer.offers) = peer.next - 1

\* A request the call refused for good although it was not answered yet.
Turned(n) == \E m \in cache : m.of = n /\ m.status = 491

\* The inductive invariant.  What is on record is in the order of the requests.
Ordered ==
    /\ First <= applied /\ applied <= cseq /\ cseq < peer.next
    /\ peer.pending \in {0, peer.next - 1}
    /\ peer.agreed < peer.next
    /\ unsent => First = 1
    /\ state = "DIALING" =>
          cseq = 0 /\ handler.at \notin {"renegotiate", "accept", "apply"}
    /\ handler.at = "idle" \/ (1 <= handler.n /\ handler.n < peer.next)
    /\ \A m \in replies : m.of = peer.pending /\ peer.pending # 0
    /\ \A m \in cache : 1 <= m.of /\ m.of < peer.next
    /\ handler.at \in {"renegotiate", "accept", "apply"} => cseq < handler.n
    /\ handler.at \in {"reply", "again", "accept", "apply", "unsent"} =>
          handler.message.of = handler.n
    /\ handler.at \in {"again", "accept", "apply"} =>
          handler.message.status = 200
    /\ handler.at = "again" => First = 1 /\ handler.n = 1

\* The clients and the Contact are those of the request applied last.
Settled == clients = Terms(applied) /\ contact = applied

Applying(n) == handler.at = "apply" /\ handler.n = n

\* While the call lives, a 200 is for the request applied, or about to be, and
\* a refusal for one that never will be, unless there is no record of it.
Outcome(m) ==
    m.of = peer.pending =>
        /\ m.status = 200 => applied = m.of
        /\ m.status # 200 /\ m.of \notin unrecorded =>
              applied # m.of /\ (m.of <= cseq \/ Turned(m.of))

LastOutcome ==
    /\ last.of # 0 => last.of = cseq /\ (last.status = 200 <=> applied = cseq)
    /\ last.of = 0 => cseq = First

CachedOutcomes ==
    \A m \in cache : Outcome(m) /\ (m.of > cseq => m.status = 491)

SentOutcomes ==
    \A m \in replies :
        /\ m.status = 200 => applied = m.of \/ Applying(m.of)
        /\ m.status # 200 /\ m.of \notin unrecorded =>
              /\ applied # m.of /\ ~Applying(m.of)
              /\ m.of <= cseq \/ Turned(m.of)

\* A new request that is being handled has no record, and had no response.
Undecided ==
    handler.at \in {"find", "renegotiate", "accept"} /\ cseq < handler.n =>
        /\ Cached(handler.n) = {}
        /\ handler.n \notin unrecorded =>
              handler.n = peer.pending /\ replies = {}

BeingApplied ==
    handler.at = "apply" =>
        /\ Cached(handler.n) = {}
        /\ \/ handler.n \in unrecorded
           \/ handler.n = peer.pending /\ \A m \in replies : m.status = 200
           \/ handler.n = peer.agreed /\ handler.n # peer.pending

AllDecided ==
    \A n \in 1..(peer.next - 1) :
        \/ n = peer.pending \/ n <= cseq \/ Turned(n) \/ Applying(n)
        \/ n \in unrecorded

PeerAgrees ==
    \/ peer.agreed = applied
    \/ applied = peer.pending /\ peer.pending # 0
    \/ Applying(peer.agreed)
    \/ applied \in unrecorded

OneOutcome ==
    /\ registered /\ handler.at # "raised"
    /\ handler.at \in {"reply", "again"} => Outcome(handler.message)
    /\ handler.at = "unsent" /\ handler.message.status # 200 =>
          Outcome(handler.message)
    /\ LastOutcome /\ CachedOutcomes /\ SentOutcomes
    /\ Undecided /\ BeingApplied /\ AllDecided /\ PeerAgrees

IInv == TypeOK /\ Ordered /\ Settled /\ (state # "ENDED" => OneOutcome)

\* When nothing is outstanding, both sides go by the same request: the RTP
\* clients send where and how the peer last agreed to, and a BYE goes to the
\* Contact it last gave.  The exception is a request the peer may have been
\* refused without a record of it, a copy of which was accepted later; it ends
\* with the next request that is accepted.
Agreed ==
    (/\ state = "ANSWERED" /\ handler = Idle /\ peer.pending = 0
     /\ applied \notin unrecorded) =>
        clients = Terms(peer.agreed) /\ contact = peer.agreed

\* The same without exception, as if what a peer is told were on record: "Keep
\* its final decision for a retry; successful answers commit after send"
\* (VoIP.py:2473).
AlwaysAgreed ==
    (state = "ANSWERED" /\ handler = Idle /\ peer.pending = 0) =>
        applied = peer.agreed

\* The media of a call never return to what an overtaken or repeated request
\* asked for: they change only for a request later than all before.
MediaNeverRevert ==
    [][clients' # clients \/ contact' # contact => applied' > applied]_vars

\* An accepted offer is answered section by section: a section answered live
\* was offered live, its stream's clients send to the addresses it names,
\* with payloads it lists and only if it receives; and no stream is lost.
ClientsOf(g) ==
    LET before == FoldLeft(LAMBDA sum, group : sum + group.size, 0,
                           SubSeq(Groups0, 1, g - 1))
    IN SubSeq(clients, before + 1, before + Groups0[g].size)

AnswersSection(g, s) ==
    LET stream == ClientsOf(g)
    IN /\ Live(s)
       /\ [k \in DOMAIN stream |-> stream[k].remote] = Targets(s)
       /\ \A k \in DOMAIN stream :
             /\ Sends(stream[k].dir) => Receives(s.dir)
             /\ Keeps(stream[k], s)

AnswerKeepsSlots ==
    last.status = 200 =>
        LET offer == peer.offers[last.of]
        IN /\ Len(last.answer) = Len(offer)
           /\ \A i \in DOMAIN offer :
                 last.answer[i] # 0 => AnswersSection(last.answer[i], offer[i])
           /\ \A g \in DOMAIN Groups0 : \E i \in DOMAIN offer : last.answer[i] = g
=============================================================================
