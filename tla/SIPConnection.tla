--------------------------- MODULE SIPConnection ---------------------------
(***************************************************************************)
(* One SIPConnection (rfcvoip/SIPTransport.py) over a stream, from the     *)
(* lookup of its target to its end: SIPResolver asks DNS, the addresses    *)
(* are tried, threads send whole messages under the send lock while one    *)
(* thread cuts what arrives into messages, and the connection is closed.   *)
(*                                                                         *)
(* The SIP client makes one connection for each of its runs and never      *)
(* opens it again.                                                         *)
(***************************************************************************)
EXTENDS Resolver, Framing

CONSTANTS
    URIs, Defaults,     \* the URIs, and the transports the client may ask for
    Naptrs, Srvs,       \* DNS answers
    MaxAddresses,       \* bound: addresses of a host
    Streams,            \* what the peer may send: sequences of messages; 0 is
                        \* a keepalive
    Layout,             \* Layout[m]: what the units of message m are
    Senders,            \* threads that send
    Size,               \* units of a message sent
    MaxSends,           \* bound: messages sent
    Early               \* whether the peer may end the stream early

ASSUME SendersAssumption == Size \in Nat \ {0} /\ None \notin Senders

VARIABLES
    at,         \* start, naptr, srv, resolved, unavailable, invalid,
                \* open, unreachable, closed
    uri, default,
    lookup,     \* how: explicit, naptr or fallback; todo: services to ask for;
                \* refused: services found disabled
    target,     \* transport and via: srv or default
    addresses,  \* left to try
    incoming,   \* on the way from the peer
    buffer,     \* _stream_buffer
    chunk,      \* bytes read and not yet in the buffer
    delivered,  \* messages handed to the SIP client
    lock,       \* _send_lock
    left,       \* units each sender has not written
    \* history
    log,        \* services asked for and what was answered
    stream,     \* the plan of the peer
    wire,       \* units sent: [by, part]
    torn,       \* lengths of wire at which a sender gave up
    sends

resolving == <<uri, default, lookup, target, addresses, log>>
receiving == <<incoming, buffer, chunk, delivered, stream>>
sending == <<lock, left, wire, torn, sends>>
vars == <<at, resolving, receiving, sending>>

Units(m) ==
    IF m = 0 THEN <<Cr, Lf>>
    ELSE [k \in 1..Len(Layout[m]) |->
             [of |-> m, part |-> k, what |-> Layout[m][k]]]

NoLookup == [how |-> None, todo |-> <<>>, refused |-> {}]

Init ==
    /\ at = "start"
    /\ uri \in URIs /\ default \in Defaults
    /\ lookup = NoLookup /\ target = None /\ addresses = 0 /\ log = <<>>
    /\ incoming = <<>> /\ buffer = <<>> /\ chunk = <<>> /\ delivered = <<>>
    /\ stream = <<>>
    /\ lock = None /\ left = [t \in Senders |-> 0]
    /\ wire = <<>> /\ torn = {} /\ sends = 0

(***************************************************************************)
(* SIPResolver.resolve()                                                   *)
(***************************************************************************)
Found(transport, via) ==
    /\ at' = "resolved" /\ target' = [transport |-> transport, via |-> via]
    /\ lookup' = NoLookup
Stops(label) == at' = label /\ lookup' = NoLookup /\ UNCHANGED target
Asks(how, todo, refused) ==
    /\ at' = "srv" /\ UNCHANGED target
    /\ lookup' = [how |-> how, todo |-> todo, refused |-> refused]

Begin ==
    /\ at = "start"
    /\ LET transport == Asked(uri, default)
       IN CASE transport = "bad" -> Stops("invalid")
            [] transport \notin {"bad", None} /\ uri.bare -> Found(transport, "default")
            [] transport \notin {"bad", None} /\ ~uri.bare ->
                   Asks("explicit", <<transport>>, {})
            [] transport = None /\ uri.bare -> Found("udp", "default")
            [] OTHER -> at' = "naptr" /\ UNCHANGED <<lookup, target>>
    /\ UNCHANGED <<uri, default, addresses, log, receiving, sending>>

AskNaptr(answer) ==
    /\ at = "naptr"
    /\ IF Services(answer) = <<>> THEN Asks("fallback", Fallbacks, {})
       ELSE Asks("naptr", Services(answer), {})
    /\ UNCHANGED <<uri, default, addresses, log, receiving, sending>>

\* Mutant: UDP is used although its service is disabled
FallbackAnyway(refused) == Found("udp", "default")
\* No service is left to ask for.
FallbackEnds(refused) ==
    IF "udp" \in refused THEN Stops("unavailable") ELSE Found("udp", "default")

Exhausted(refused) ==
    CASE lookup.how = "explicit" ->
             IF refused # {} THEN Stops("unavailable")
             ELSE Found(lookup.todo[1], "default")
      [] lookup.how = "naptr" ->
             IF refused # {} THEN Stops("unavailable")
             ELSE Asks("fallback", Fallbacks, {})
      [] OTHER -> FallbackEnds(refused)

AskSrv(answer) ==
    /\ at = "srv"
    /\ LET service == lookup.todo[1]
       IN \E verdict \in Verdicts(answer) :
          LET refused == lookup.refused
                  \cup IF verdict = "disabled" THEN {service} ELSE {}
          IN /\ IF verdict = "usable" THEN Found(service, "srv")
                ELSE IF Len(lookup.todo) = 1 THEN Exhausted(refused)
                ELSE Asks(lookup.how, Tail(lookup.todo), refused)
             /\ log' = Append(log, [service |-> service, verdict |-> verdict,
                                    answer |-> answer])
    /\ UNCHANGED <<uri, default, addresses, receiving, sending>>

(***************************************************************************)
(* open() and close()                                                      *)
(***************************************************************************)
\* getaddrinfo() gives some addresses, or none.
Resolve ==
    /\ at = "resolved" /\ target.transport # "udp"
    /\ at' = "opening" /\ addresses' \in 0..MaxAddresses
    /\ log' = <<>> /\ uri' = None /\ default' = None
    /\ UNCHANGED <<lookup, target, receiving, sending>>

\* An address that fails, with TLS also in the handshake, is followed by the
\* next.
Connect ==
    /\ at = "opening"
    /\ \/ /\ addresses > 0 /\ at' = "open" /\ addresses' = 0
          /\ stream' \in Streams
          /\ incoming' = FlattenSeq([i \in 1..Len(stream') |->
                                        Units(stream'[i])])
       \/ /\ addresses > 0 /\ addresses' = addresses - 1
          /\ UNCHANGED <<at, incoming, stream>>
       \/ /\ addresses = 0 /\ at' = "unreachable"
          /\ UNCHANGED <<addresses, incoming, stream>>
    /\ UNCHANGED <<uri, default, lookup, target, log, buffer, chunk, delivered,
                   sending>>

\* close(): by stop(), or by the receiver.
Closed == at' = "closed" /\ buffer' = <<>>
Close ==
    /\ at = "open" /\ Closed
    /\ UNCHANGED <<resolving, incoming, chunk, delivered, stream, sending>>

(***************************************************************************)
(* Receiving                                                               *)
(***************************************************************************)
\* A whole message at the front of b is handed on, the rest is kept.
Deliver(b) ==
    /\ buffer' = Left(b) /\ delivered' = Append(delivered, Popped(b))

\* A message is in the buffer already: nothing is read.
Take ==
    /\ at = "open" /\ chunk = <<>> /\ HasMessage(Trimmed(buffer))
    /\ Deliver(Trimmed(buffer))
    /\ UNCHANGED <<at, resolving, incoming, chunk, stream, sending>>

Read(n) ==
    /\ at = "open" /\ chunk = <<>> /\ ~HasMessage(Trimmed(buffer))
    /\ ~Misframed(Trimmed(buffer)) /\ n <= Len(incoming)
    /\ chunk' = SubSeq(incoming, 1, n)
    /\ incoming' = SubSeq(incoming, n + 1, Len(incoming))
    /\ UNCHANGED <<at, resolving, buffer, delivered, stream, sending>>

\* What was read of a connection that is closed meanwhile is dropped.
Parse ==
    /\ chunk # <<>> /\ chunk' = <<>>
    /\ LET b == Trimmed(buffer \o chunk)
       IN IF at # "open" \/ Misframed(b)
          THEN Closed /\ UNCHANGED delivered
          ELSE /\ UNCHANGED at
               /\ IF HasMessage(b) THEN Deliver(b)
                  ELSE buffer' = b /\ UNCHANGED delivered
    /\ UNCHANGED <<resolving, incoming, stream, sending>>

\* A frame of no known length, behind a message: the connection is failed.
Misframes ==
    /\ at = "open" /\ chunk = <<>> /\ Misframed(Trimmed(buffer))
    /\ Closed
    /\ UNCHANGED <<resolving, incoming, chunk, delivered, stream, sending>>

\* The peer ends the stream.
EndOfStream ==
    /\ at = "open" /\ chunk = <<>> /\ ~HasMessage(Trimmed(buffer))
    /\ Early \/ incoming = <<>>
    /\ Closed
    /\ UNCHANGED <<resolving, incoming, chunk, delivered, stream, sending>>

(***************************************************************************)
(* Sending                                                                 *)
(***************************************************************************)
\* Mutant: the lock is not awaited
StartUnlocked(t) ==
    /\ at = "open" /\ left[t] = 0 /\ sends < MaxSends
    /\ sends' = sends + 1 /\ lock' = t
    /\ left' = [left EXCEPT ![t] = Size]
    /\ UNCHANGED <<at, resolving, receiving, wire, torn>>
Start(t) ==
    /\ at = "open" /\ lock = None /\ sends < MaxSends
    /\ sends' = sends + 1 /\ lock' = t
    /\ left' = [left EXCEPT ![t] = Size]
    /\ UNCHANGED <<at, resolving, receiving, wire, torn>>

Done(t) == lock' = None /\ left' = [left EXCEPT ![t] = 0]

\* The socket takes some of it.
Write(t, n) ==
    /\ at = "open" /\ left[t] >= n
    /\ wire' = wire \o [k \in 1..n |-> [by |-> t,
                                        part |-> Size - left[t] + k]]
    /\ IF n = left[t] THEN Done(t)
       ELSE left' = [left EXCEPT ![t] = @ - n] /\ UNCHANGED lock
    /\ UNCHANGED <<at, resolving, receiving, torn, sends>>

\* The deadline passes, or the connection is closed.
GiveUp(t) ==
    /\ left[t] > 0 /\ Done(t)
    /\ torn' = torn \cup IF left[t] < Size THEN {Len(wire)} ELSE {}
    /\ UNCHANGED <<at, resolving, receiving, wire, sends>>

Next ==
    \/ Begin \/ Resolve \/ Connect \/ Close
    \/ \E answer \in Naptrs : AskNaptr(answer)
    \/ \E answer \in Srvs : AskSrv(answer)
    \/ Take \/ Parse \/ Misframes \/ EndOfStream
    \/ \E n \in 1..Len(incoming) : Read(n)
    \/ \E t \in Senders :
          Start(t) \/ GiveUp(t) \/ \E n \in 1..Size : Write(t, n)

Spec == Init /\ [][Next]_vars

(***************************************************************************)
(* Properties                                                              *)
(***************************************************************************)
Said(verdict) ==
    {log[i].service : i \in {j \in 1..Len(log) : log[j].verdict = verdict}}

\* The target is the one the URI and the domain ask for: a sips: URI stays
\* secure and an explicit transport is kept; a service is used as soon as one
\* is offered; a service the domain disabled is never used, not even as the
\* default; and only a disabled service makes a lookup fail.  SIPResolver
\* carries what it learnt through three loops over services.
ResolvedAsAdvertised ==
    /\ at = "resolved" =>
          /\ uri.scheme = "sips" => target.transport = "tls"
          /\ uri.param # None /\ uri.scheme = "sip" =>
                target.transport = uri.param
          /\ target.via = "srv" => Said("usable") = {target.transport}
          /\ target.via = "default" =>
                Said("usable") = {} /\ target.transport \notin Said("disabled")
    /\ at = "unavailable" => Said("usable") = {} /\ Said("disabled") # {}

\* _pick_srv_record() gives every record of the lowest priority the share of
\* tickets its weight stands for, and one of weight zero a chance.
WeightsDecide ==
    log # <<>> /\ Available(Last(log).answer) # <<>> =>
        LET c == Candidates(Available(Last(log).answer))
            Tickets(k) == {ticket \in 0..Total(c) : Chosen(c, ticket) = k}
        IN Total(c) > 0 =>
              \A k \in 1..Len(c) :
                  Cardinality(Tickets(k))
                      = c[k].weight + IF k = 1 THEN 1 ELSE 0

\* The messages the peer frames, whole and in order: however the stream is cut
\* into chunks and whatever keepalives it holds, the client is handed a prefix
\* of what was sent, and nothing behind a frame of no known length.
Messages == SelectSeq(stream, LAMBDA m : m # 0)
FramesAreMessages ==
    /\ Len(delivered) <= Len(Messages)
    /\ \A i \in 1..Len(delivered) :
          delivered[i] = Units(Messages[i]) /\ Lengths[Messages[i]] # Bad

\* Messages of several senders are never mixed on a stream, though a write may
\* take a part only and the lock is held while the sender waits: a message
\* breaks off only where its own sender gave up.
WireWhole ==
    \A k \in 1..Len(wire) :
        IF wire[k].part = 1
        THEN k = 1 \/ wire[k - 1].part = Size \/ k - 1 \in torn
        ELSE /\ k > 1 /\ k - 1 \notin torn
             /\ wire[k - 1] = [wire[k] EXCEPT !.part = @ - 1]
=============================================================================
