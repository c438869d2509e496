------------------------- MODULE SIPConnectionProofs -------------------------
(* That the messages several threads send on a SIPConnection are never      *)
(* mixed, for any number of senders, messages and partial writes; and that   *)
(* the lookup before it ends at a target the URI and the domain ask for.     *)
EXTENDS SIPConnection, TLAPS

Unit == [by : Senders, part : 1..Size]

(* The end of the wire is between two messages: the last one is complete, or *)
(* its sender gave up.                                                       *)
AtBoundary ==
    \/ wire = <<>>
    \/ wire[Len(wire)].part = Size
    \/ Len(wire) \in torn

(* What a sender in the middle of its message has written last.              *)
InMessage(t) ==
    /\ wire # <<>> /\ Len(wire) \notin torn
    /\ wire[Len(wire)] = [by |-> t, part |-> Size - left[t]]

WireType ==
    /\ left \in [Senders -> 0..Size]
    /\ lock \in Senders \cup {None}
    /\ wire \in Seq(Unit)
    /\ torn \subseteq 0..Len(wire)

OneSender == \A t \in Senders : left[t] > 0 => lock = t

Middle(t) == left[t] > 0 /\ left[t] < Size

EndOfWire ==
    /\ \A t \in Senders : Middle(t) => InMessage(t)
    /\ (\A t \in Senders : ~Middle(t)) => AtBoundary

(* The inductive invariant of the sending side.                              *)
WireInv == WireType /\ OneSender /\ EndOfWire /\ WireWhole

LEMMA WireInitially == Init => WireInv
  BY SendersAssumption
  DEF Init, WireInv, WireType, OneSender, EndOfWire, Middle, AtBoundary, WireWhole

LEMMA StartKeeps ==
    ASSUME WireInv, NEW t \in Senders, Start(t)
    PROVE  WireInv'
<1>1. /\ wire' = wire /\ torn' = torn /\ lock' = t
      /\ left' = [left EXCEPT ![t] = Size]
  BY DEF Start
<1>2. \A u \in Senders : left[u] = 0
  BY SendersAssumption DEF Start, WireInv, WireType, OneSender
<1>3. WireType' /\ OneSender'
  BY <1>1, <1>2, SendersAssumption DEF WireInv, WireType, OneSender
<1>4. \A u \in Senders : ~Middle(u) /\ ~Middle(u)'
  BY <1>1, <1>2, SendersAssumption DEF Middle, WireInv, WireType
<1>5. EndOfWire'
  BY <1>1, <1>4 DEF EndOfWire, WireInv, AtBoundary
<1>6. WireWhole'
  BY <1>1 DEF WireInv, WireWhole
<1> QED
  BY <1>3, <1>5, <1>6 DEF WireInv

LEMMA WriteKeeps ==
    ASSUME WireInv, NEW t \in Senders, NEW n \in 1..Size, Write(t, n)
    PROVE  WireInv'
<1> DEFINE L == Len(wire)
           written == [k \in 1..n |-> [by |-> t, part |-> Size - left[t] + k]]
<1>1. /\ left[t] >= n /\ wire' = wire \o written /\ torn' = torn
  BY DEF Write
<1>2. /\ left' = [left EXCEPT ![t] = left[t] - n]
      /\ lock' = IF n = left[t] THEN None ELSE lock
  BY DEF Write, Done, WireInv, WireType
<1>3. /\ wire \in Seq(Unit) /\ left[t] \in 0..Size /\ lock = t /\ L \in Nat
      /\ torn \subseteq 0..L
  BY <1>1, SendersAssumption DEF WireInv, WireType, OneSender
<1>0. left'[t] = left[t] - n /\ Size \in Nat \ {0} /\ n \in 1..Size
  BY <1>2, SendersAssumption DEF WireInv, WireType
<1>4. written \in Seq(Unit) /\ Len(written) = n
  BY <1>1, <1>3, SendersAssumption DEF Unit
<1>5. /\ wire' \in Seq(Unit) /\ Len(wire') = L + n
      /\ \A k \in 1..L : wire'[k] = wire[k]
      /\ \A k \in 1..n : wire'[L + k] = [by |-> t, part |-> Size - left[t] + k]
  BY <1>1, <1>3, <1>4
<1>6. WireType'
  BY <1>1, <1>2, <1>3, <1>5, SendersAssumption DEF WireInv, WireType
<1>7. \A u \in Senders : u # t => left[u] = 0 /\ left'[u] = 0
  BY <1>2, <1>3 DEF WireInv, OneSender, WireType
<1>8. OneSender'
  BY <1>2, <1>3, <1>7 DEF OneSender, WireInv, WireType
<1>9. /\ wire' # <<>> /\ Len(wire') \notin torn'
      /\ wire'[Len(wire')] = [by |-> t, part |-> Size - left'[t]]
  <2>1. n \in 1..n /\ L + n > L /\ L + n \notin 0..L
    BY <1>3
  <2>2. wire'[L + n] = [by |-> t, part |-> Size - left[t] + n]
    BY <2>1, <1>5
  <2>3. Size - left[t] + n = Size - left'[t]
    BY <1>0, <1>3
  <2>4. Len(wire') = L + n
    BY <1>5
  <2>5. wire' # <<>>
    BY <2>4, <1>0, <1>3
  <2>6. Len(wire') \notin torn'
    BY <2>4, <2>1, <1>1, <1>3
  <2>7. wire'[Len(wire')] = [by |-> t, part |-> Size - left'[t]]
    BY <2>2, <2>3, <2>4
  <2> QED
    BY <2>5, <2>6, <2>7
<1>10. EndOfWire'
  <2>1. \A u \in Senders : Middle(u)' => InMessage(u)'
    BY <1>7, <1>9 DEF Middle, InMessage
  <2>2. ASSUME ~Middle(t)' PROVE AtBoundary'
    <3>1. left'[t] = 0
      BY <1>0, <1>1, <1>3, <2>2 DEF Middle
    <3> QED
      <4>1. wire'[Len(wire')].part = Size
        BY <1>9, <3>1, <1>0
      <4> QED
        BY <4>1 DEF AtBoundary
  <2> QED
    BY <2>1, <2>2 DEF EndOfWire
<1>11. WireWhole'
  <2> SUFFICES ASSUME NEW k \in 1..(L + n)
               PROVE  IF wire'[k].part = 1
                      THEN k = 1 \/ wire'[k - 1].part = Size \/ k - 1 \in torn
                      ELSE /\ k > 1 /\ k - 1 \notin torn
                           /\ wire'[k - 1] = [wire'[k] EXCEPT !.part = @ - 1]
    BY <1>1, <1>5 DEF WireWhole
  <2>1. CASE k <= L
    <3>1. k \in 1..L /\ wire'[k] = wire[k] /\ (k > 1 => wire'[k - 1] = wire[k - 1])
      BY <1>3, <1>5, <2>1
    <3> QED
      BY <3>1 DEF WireInv, WireWhole
  <2>2. CASE k = L + 1
    <3>1. wire'[k] = [by |-> t, part |-> Size - left[t] + 1]
      BY <1>5, <2>2
    <3>2. L > 0 => wire'[k - 1] = wire[L]
      BY <1>3, <1>5, <2>2
    <3>3. CASE left[t] = Size
      <4>1. \A u \in Senders : ~Middle(u)
        <5>1. ~Middle(t)
          BY <3>3, <1>0 DEF Middle
        <5>2. \A u \in Senders \ {t} : ~Middle(u)
          BY <1>7 DEF Middle
        <5> QED
          BY <5>1, <5>2
      <4>2. AtBoundary
        BY <4>1 DEF WireInv, EndOfWire
      <4>3. L = 0 \/ wire[L].part = Size \/ L \in torn
        BY <4>2, <1>3 DEF AtBoundary
      <4> QED
        BY <4>3, <3>1, <3>2, <3>3, <2>2, <1>3, SendersAssumption
    <3>4. CASE left[t] # Size
      <4>1. InMessage(t)
        <5>1. Middle(t)
          BY <1>0, <1>1, <1>3, <3>4 DEF Middle
        <5> QED
          BY <5>1 DEF WireInv, EndOfWire
      <4>2. L > 0 /\ L \notin torn /\ wire[L] = [by |-> t, part |-> Size - left[t]]
        BY <4>1, <1>3 DEF InMessage
      <4> QED
        BY <4>2, <3>1, <3>2, <3>4, <2>2, <1>3, SendersAssumption
    <3> QED
      BY <3>3, <3>4
  <2>3. CASE k > L + 1
    <3>1. /\ wire'[k] = [by |-> t, part |-> Size - left[t] + (k - L)]
          /\ wire'[k - 1] = [by |-> t, part |-> Size - left[t] + (k - 1 - L)]
      <4>1. /\ k - L \in 1..n /\ k - 1 - L \in 1..n
            /\ L + (k - L) = k /\ L + (k - 1 - L) = k - 1
        BY <1>0, <1>3, <2>3
      <4>2. wire'[L + (k - L)] = [by |-> t, part |-> Size - left[t] + (k - L)]
        BY <4>1, <1>5
      <4>3. wire'[L + (k - 1 - L)]
                = [by |-> t, part |-> Size - left[t] + (k - 1 - L)]
        BY <4>1, <1>5
      <4> QED
        BY <4>1, <4>2, <4>3
    <3>2. /\ Size - left[t] + (k - L) # 1
          /\ Size - left[t] + (k - L) - 1 = Size - left[t] + (k - 1 - L)
          /\ k > 1 /\ k - 1 \notin 0..L
      BY <1>0, <1>3, <2>3
    <3>3. wire'[k].part # 1
      BY <3>1, <3>2
    <3>4. k - 1 \notin torn
      BY <3>2, <1>3
    <3>5. wire'[k - 1] = [wire'[k] EXCEPT !.part = @ - 1]
      <4>1. PICK p : p = Size - left[t] + (k - L)
        OBVIOUS
      <4>2. wire'[k] = [by |-> t, part |-> p]
            /\ wire'[k - 1] = [by |-> t, part |-> p - 1]
        <5>1. p - 1 = Size - left[t] + (k - 1 - L)
          BY <3>2, <4>1, <1>0, <1>3
        <5> QED
          BY <3>1, <4>1, <5>1, Zenon
      <4>3. [[by |-> t, part |-> p] EXCEPT !.part = p - 1]
                = [by |-> t, part |-> p - 1]
        OBVIOUS
      <4>4. [wire'[k] EXCEPT !.part = wire'[k].part - 1]
                = [by |-> t, part |-> p - 1]
        BY <4>2, <4>3
      <4> QED
        BY <4>2, <4>4
    <3>6. k > 1
      BY <3>2
    <3> QED
      BY <3>3, <3>4, <3>5, <3>6, Zenon
  <2> QED
    BY <2>1, <2>2, <2>3, <1>3
<1> QED
  BY <1>6, <1>8, <1>10, <1>11 DEF WireInv

LEMMA GiveUpKeeps ==
    ASSUME WireInv, NEW t \in Senders, GiveUp(t)
    PROVE  WireInv'
<1>1. /\ left[t] > 0 /\ wire' = wire /\ lock' = None
      /\ left' = [left EXCEPT ![t] = 0]
      /\ torn' = torn \cup IF left[t] < Size THEN {Len(wire)} ELSE {}
  BY DEF GiveUp, Done
<1>2. \A u \in Senders : left'[u] = 0
  BY <1>1 DEF WireInv, WireType, OneSender
<1>3. Len(wire) \in Nat /\ left[t] \in 0..Size
  BY DEF WireInv, WireType
<1>4. WireType' /\ OneSender'
  <2>1. left' \in [Senders -> 0..Size]
    BY <1>1, SendersAssumption DEF WireInv, WireType
  <2>2. torn' \subseteq 0..Len(wire')
    <3>1. torn \subseteq 0..Len(wire) /\ Len(wire) \in 0..Len(wire)
      BY <1>3 DEF WireInv, WireType
    <3>2. torn' \subseteq torn \cup {Len(wire)}
      BY <1>1
    <3> QED
      BY <3>1, <3>2, <1>1
  <2>3. OneSender'
    BY <1>2 DEF OneSender
  <2> QED
    BY <1>1, <2>1, <2>2, <2>3 DEF WireInv, WireType
<1>5. EndOfWire'
  <2>1. \A u \in Senders : ~Middle(u)'
    BY <1>2 DEF Middle
  <2>2. AtBoundary'
    <3>1. CASE left[t] < Size
      BY <1>1, <3>1 DEF AtBoundary
    <3>2. CASE ~(left[t] < Size)
      <4>1. \A u \in Senders : ~Middle(u)
        BY <1>1, <1>3, <3>2 DEF Middle, WireInv, WireType, OneSender
      <4> QED
        BY <4>1, <1>1 DEF WireInv, EndOfWire, AtBoundary
    <3> QED
      BY <3>1, <3>2
  <2> QED
    BY <2>1, <2>2 DEF EndOfWire
<1>6. WireWhole'
  <2>1. \A k \in 1..Len(wire) : k - 1 # Len(wire)
    BY <1>3
  <2>2. \A k \in 1..Len(wire) : (k - 1 \in torn') <=> (k - 1 \in torn)
    BY <1>1, <2>1
  <2> QED
    BY <1>1, <2>2 DEF WireInv, WireWhole
<1> QED
  BY <1>4, <1>5, <1>6 DEF WireInv

LEMMA OthersKeep ==
    ASSUME WireInv, UNCHANGED sending
    PROVE  WireInv'
  BY DEF sending, WireInv, WireType, OneSender, EndOfWire, Middle, InMessage,
         AtBoundary, WireWhole

LEMMA SendingStep == WireInv /\ [Next]_vars => WireInv'
<1> SUFFICES ASSUME WireInv, [Next]_vars PROVE WireInv'
  OBVIOUS
<1>1. CASE Begin \/ Resolve \/ Connect \/ Close
  BY <1>1, OthersKeep DEF Begin, Resolve, Connect, Close
<1>2. CASE \E answer \in Naptrs : AskNaptr(answer)
  BY <1>2, OthersKeep DEF AskNaptr
<1>3. CASE \E answer \in Srvs : AskSrv(answer)
  BY <1>3, OthersKeep DEF AskSrv
<1>4. CASE Take \/ Parse \/ Misframes \/ EndOfStream
  BY <1>4, OthersKeep DEF Take, Parse, Misframes, EndOfStream
<1>5. CASE \E n \in 1..Len(incoming) : Read(n)
  BY <1>5, OthersKeep DEF Read
<1>6. CASE \E t \in Senders :
              Start(t) \/ GiveUp(t) \/ \E n \in 1..Size : Write(t, n)
  BY <1>6, StartKeeps, GiveUpKeeps, WriteKeeps
<1>7. CASE UNCHANGED vars
  BY <1>7, OthersKeep DEF vars
<1> QED
  BY <1>1, <1>2, <1>3, <1>4, <1>5, <1>6, <1>7 DEF Next

(* Messages of several senders are never mixed on the stream of a            *)
(* SIPConnection: _send_lock is held from the first byte to the last, and    *)
(* what a time-out tears ends there.                                         *)
THEOREM WholeMessages == Spec => []WireWhole
<1>1. WireInv => WireWhole
  BY DEF WireInv
<1> QED
  BY WireInitially, SendingStep, <1>1, PTL DEF Spec

-----------------------------------------------------------------------------
(* What the lookup knows is what the domain has answered: the services found *)
(* disabled are those of the log, none was usable so far, and an explicit    *)
(* transport is the only service asked for.                                  *)
IsLog == Len(log) \in Nat /\ log = [i \in 1..Len(log) |-> log[i]]

Looking ==
    /\ Said("usable") = {} /\ Said("disabled") = lookup.refused
    /\ lookup.how = "explicit" =>
          /\ lookup.todo = <<Asked(uri, default)>>
          /\ Asked(uri, default) \notin {"bad", None}
    /\ lookup.how # "explicit" => Asked(uri, default) = None

Resolved ==
    /\ Asked(uri, default) \in {None, target.transport} \ {"bad"}
    /\ target.via = "srv" => Said("usable") = {target.transport}
    /\ target.via = "default" =>
          Said("usable") = {} /\ target.transport \notin Said("disabled")

LookupInv ==
    /\ IsLog
    /\ at \in {"start", "naptr"} => log = <<>>
    /\ at = "naptr" => Asked(uri, default) = None
    /\ at = "srv" => Looking
    /\ at = "resolved" => Resolved
    /\ at = "unavailable" => Said("usable") = {} /\ Said("disabled") # {}

(* An explicit transport of a sip: URI and the security of a sips: URI are   *)
(* in what is asked for, unless the two contradict each other.               *)
LEMMA AskedIsRequested ==
    ASSUME NEW u, NEW d, Asked(u, d) # "bad"
    PROVE  /\ u.scheme = "sips" => Asked(u, d) = "tls"
           /\ u.param # None /\ u.scheme = "sip" =>
                 Asked(u, d) = u.param /\ Asked(u, d) # None
  BY NoneAssumption DEF Asked, FromUri

LEMMA ResolvedSuffices == LookupInv => ResolvedAsAdvertised
<1> SUFFICES ASSUME LookupInv PROVE ResolvedAsAdvertised
  OBVIOUS
<1>1. ASSUME at = "resolved"
      PROVE  /\ uri.scheme = "sips" => target.transport = "tls"
             /\ uri.param # None /\ uri.scheme = "sip" =>
                   target.transport = uri.param
  <2>1. Asked(uri, default) \in {None, target.transport} \ {"bad"}
    BY <1>1 DEF LookupInv, Resolved
  <2> QED
    BY <2>1, AskedIsRequested, NoneAssumption
<1> QED
  BY <1>1 DEF ResolvedAsAdvertised, LookupInv, Resolved

(* What the log says after one more answer.                                  *)
LEMMA Answered ==
    ASSUME IsLog, NEW s, NEW v, NEW a,
           log' = Append(log, [service |-> s, verdict |-> v, answer |-> a])
    PROVE  /\ IsLog'
           /\ Said(v)' = Said(v) \cup {s}
           /\ \A w : w # v => Said(w)' = Said(w)
<1> DEFINE e == [service |-> s, verdict |-> v, answer |-> a]
           S == {log[i] : i \in 1..Len(log)} \cup {e}
<1>1. log \in Seq(S)
  BY DEF IsLog
<1>2. /\ Len(log') = Len(log) + 1 /\ log' \in Seq(S)
      /\ \A i \in 1..Len(log) : log'[i] = log[i]
      /\ log'[Len(log) + 1] = e
  BY <1>1
<1>3. IsLog'
  BY <1>2 DEF IsLog
<1>4. Len(log) \in Nat
  BY DEF IsLog
<1>5. e.service = s /\ e.verdict = v
  OBVIOUS
<1> HIDE DEF e
<1>6. ASSUME NEW w PROVE Said(w)' = Said(w) \cup IF w = v THEN {s} ELSE {}
  <2>1. ASSUME NEW x, x \in Said(w)' PROVE x \in Said(w) \cup IF w = v THEN {s} ELSE {}
    <3>1. PICK i \in 1..(Len(log) + 1) : log'[i].verdict = w /\ log'[i].service = x
      BY <2>1, <1>2 DEF Said
    <3>2. CASE i = Len(log) + 1
      BY <3>1, <3>2, <1>2, <1>5
    <3>3. CASE i # Len(log) + 1
      <4>1. i \in 1..Len(log) /\ log[i].verdict = w /\ log[i].service = x
        BY <3>1, <3>3, <1>2, <1>4
      <4> QED
        BY <4>1 DEF Said
    <3> QED
      BY <3>2, <3>3
  <2>2. ASSUME NEW x, x \in Said(w) PROVE x \in Said(w)'
    <3>1. PICK i \in 1..Len(log) : log[i].verdict = w /\ log[i].service = x
      BY <2>2 DEF Said
    <3>2. i \in 1..Len(log') /\ log'[i].verdict = w /\ log'[i].service = x
      BY <3>1, <1>2, <1>4
    <3> QED
      BY <3>2 DEF Said
  <2>3. ASSUME w = v PROVE s \in Said(w)'
    <3>1. Len(log) + 1 \in 1..Len(log')
      BY <1>2, <1>4
    <3> QED
      BY <3>1, <1>2, <1>5, <2>3 DEF Said
  <2> QED
    BY <2>1, <2>2, <2>3
<1> QED
  BY <1>3, <1>6

LEMMA NothingSaid == ASSUME log = <<>>, NEW v PROVE Said(v) = {} /\ IsLog
  BY DEF Said, IsLog

LEMMA BeginLooks == ASSUME LookupInv, Begin PROVE LookupInv'
<1> DEFINE t == Asked(uri, default)
<1>1. log = <<>> /\ log' = log /\ uri' = uri /\ default' = default
  BY DEF Begin, LookupInv
<1>2. \A v : Said(v)' = {}
  BY <1>1 DEF Said
<1>3. IsLog' /\ log' = <<>>
  BY <1>1 DEF LookupInv, IsLog
<1>4. Asked(uri, default)' = t
  BY <1>1 DEF Asked
<1>5. CASE t = "bad"
  <2>1. at' = "invalid"
    BY <1>5, NoneAssumption DEF Begin, Stops
  <2> QED
    BY <2>1, <1>3 DEF LookupInv
<1>6. CASE t \notin {"bad", None} /\ uri.bare
  <2>1. at' = "resolved" /\ target' = [transport |-> t, via |-> "default"]
    BY <1>6, NoneAssumption DEF Begin, Found
  <2>2. Resolved'
    BY <2>1, <1>2, <1>4, <1>6 DEF Resolved
  <2> QED
    BY <2>1, <2>2, <1>3 DEF LookupInv
<1>7. CASE t \notin {"bad", None} /\ ~uri.bare
  <2>1. at' = "srv" /\ lookup' = [how |-> "explicit", todo |-> <<t>>, refused |-> {}]
    BY <1>7, NoneAssumption DEF Begin, Asks
  <2>2. Looking'
    BY <2>1, <1>2, <1>4, <1>7 DEF Looking
  <2> QED
    BY <2>1, <2>2, <1>3 DEF LookupInv
<1>8. CASE t = None /\ uri.bare
  <2>1. at' = "resolved" /\ target' = [transport |-> "udp", via |-> "default"]
    BY <1>8, NoneAssumption DEF Begin, Found
  <2>2. Resolved'
    BY <2>1, <1>2, <1>4, <1>8, NoneAssumption DEF Resolved
  <2> QED
    BY <2>1, <2>2, <1>3 DEF LookupInv
<1>9. CASE t = None /\ ~uri.bare
  <2>1. at' = "naptr"
    BY <1>9, NoneAssumption DEF Begin
  <2> QED
    BY <2>1, <1>3, <1>4, <1>9 DEF LookupInv
<1> QED
  BY <1>5, <1>6, <1>7, <1>8, <1>9

LEMMA NaptrLooks ==
    ASSUME LookupInv, NEW answer, AskNaptr(answer) PROVE LookupInv'
<1>1. /\ log = <<>> /\ log' = log /\ uri' = uri /\ default' = default
      /\ Asked(uri, default) = None
  BY DEF AskNaptr, LookupInv
<1>2. /\ at' = "srv" /\ lookup'.how \in {"fallback", "naptr"}
      /\ lookup'.refused = {}
  BY DEF AskNaptr, Asks
<1>3. \A v : Said(v)' = {}
  BY <1>1 DEF Said
<1>4. Looking'
  BY <1>1, <1>2, <1>3 DEF Looking, Asked
<1> QED
  BY <1>1, <1>2, <1>4 DEF LookupInv, IsLog

LEMMA SrvLooks ==
    ASSUME LookupInv, NEW answer, AskSrv(answer) PROVE LookupInv'
<1> DEFINE service == lookup.todo[1]
           t == Asked(uri, default)
<1>1. at = "srv" /\ Looking /\ IsLog /\ uri' = uri /\ default' = default
  BY DEF AskSrv, LookupInv
<1>2. PICK verdict \in Verdicts(answer) :
        LET refused == lookup.refused
                \cup IF verdict = "disabled" THEN {service} ELSE {}
        IN /\ IF verdict = "usable" THEN Found(service, "srv")
              ELSE IF Len(lookup.todo) = 1 THEN Exhausted(refused)
              ELSE Asks(lookup.how, Tail(lookup.todo), refused)
           /\ log' = Append(log, [service |-> service, verdict |-> verdict,
                                  answer |-> answer])
  BY DEF AskSrv
<1> DEFINE refused == lookup.refused
                \cup IF verdict = "disabled" THEN {service} ELSE {}
<1>3. /\ IsLog' /\ Said("disabled")' = refused
      /\ Said("usable")' = IF verdict = "usable" THEN {service} ELSE {}
  BY <1>1, <1>2, Answered DEF Looking
<1>4. Asked(uri, default)' = t
  BY <1>1 DEF Asked
<1>5. lookup.how = "explicit" => service = t /\ Len(lookup.todo) = 1
  BY <1>1 DEF Looking
<1>6. t = None \/ (lookup.how = "explicit" /\ t # "bad" /\ service = t)
  BY <1>1, <1>5 DEF Looking
<1> HIDE DEF service, t, refused
<1>7. CASE verdict = "usable"
  <2>1. at' = "resolved" /\ target' = [transport |-> service, via |-> "srv"]
    BY <1>2, <1>7 DEF Found, service, refused
  <2>2. Resolved'
    BY <2>1, <1>3, <1>4, <1>6, <1>7, NoneAssumption DEF Resolved
  <2> QED
    BY <2>1, <2>2, <1>3 DEF LookupInv
<1>8. CASE verdict # "usable" /\ Len(lookup.todo) # 1
  <2>1. /\ at' = "srv" /\ lookup'.how = lookup.how /\ lookup'.refused = refused
    BY <1>2, <1>8 DEF Asks, service, refused
  <2>2. Looking'
    BY <2>1, <1>1, <1>3, <1>4, <1>5, <1>8 DEF Looking, t
  <2> QED
    BY <2>1, <2>2, <1>3 DEF LookupInv
<1>9. CASE verdict # "usable" /\ Len(lookup.todo) = 1
  <2>0. Exhausted(refused)
    BY <1>2, <1>9 DEF service, refused
  <2>1. CASE lookup.how \in {"explicit", "naptr"} /\ refused # {}
    <3>1. at' = "unavailable"
      BY <2>0, <2>1 DEF Exhausted, Stops
    <3> QED
      BY <3>1, <1>3, <1>9, <2>1 DEF LookupInv
  <2>2. CASE lookup.how = "explicit" /\ refused = {}
    <3>1. at' = "resolved" /\ target' = [transport |-> service, via |-> "default"]
      BY <2>0, <2>2 DEF Exhausted, Found, service
    <3>2. Resolved'
      BY <3>1, <1>1, <1>3, <1>4, <1>5, <1>9, <2>2 DEF Resolved, Looking, t
    <3> QED
      BY <3>1, <3>2, <1>3 DEF LookupInv
  <2>3. CASE lookup.how = "naptr" /\ refused = {}
    <3>1. /\ at' = "srv" /\ lookup'.how = "fallback" /\ lookup'.refused = {}
      BY <2>0, <2>3 DEF Exhausted, Asks
    <3>2. Looking'
      BY <3>1, <1>3, <1>4, <1>6, <1>9, <2>3 DEF Looking
    <3> QED
      BY <3>1, <3>2, <1>3 DEF LookupInv
  <2>4. CASE lookup.how \notin {"explicit", "naptr"}
    <3>1. FallbackEnds(refused)
      BY <2>0, <2>4 DEF Exhausted
    <3>2. CASE "udp" \in refused
      <4>1. at' = "unavailable"
        BY <3>1, <3>2 DEF FallbackEnds, Stops
      <4> QED
        BY <4>1, <1>3, <1>9, <3>2 DEF LookupInv
    <3>3. CASE "udp" \notin refused
      <4>1. at' = "resolved" /\ target' = [transport |-> "udp", via |-> "default"]
        BY <3>1, <3>3 DEF FallbackEnds, Found
      <4>2. Resolved'
        BY <4>1, <3>3, <1>3, <1>4, <1>6, <1>9, <2>4, NoneAssumption DEF Resolved
      <4> QED
        BY <4>1, <4>2, <1>3 DEF LookupInv
    <3> QED
      BY <3>2, <3>3
  <2> QED
    BY <2>1, <2>2, <2>3, <2>4
<1> QED
  BY <1>7, <1>8, <1>9

(* Once the addresses are asked for the lookup is over.                      *)
LEMMA ConnectionKeepsLookup ==
    ASSUME LookupInv,
           \/ UNCHANGED <<at, uri, default, lookup, target, log>>
           \/ /\ at' \notin {"start", "naptr", "srv", "resolved", "unavailable"}
              /\ UNCHANGED log \/ log' = <<>>
    PROVE  LookupInv'
<1>1. CASE UNCHANGED <<at, uri, default, lookup, target, log>>
  <2>1. IsLog' /\ \A v : Said(v)' = Said(v)
    BY <1>1 DEF LookupInv, IsLog, Said
  <2>2. Asked(uri, default)' = Asked(uri, default)
    BY <1>1 DEF Asked
  <2>3. (Looking => Looking') /\ (Resolved => Resolved')
    BY <1>1, <2>1, <2>2 DEF Looking, Resolved
  <2> QED
    BY <1>1, <2>1, <2>2, <2>3 DEF LookupInv
<1>2. CASE /\ at' \notin {"start", "naptr", "srv", "resolved", "unavailable"}
           /\ UNCHANGED log \/ log' = <<>>
  <2>1. IsLog'
    <3>1. CASE UNCHANGED log
      BY <3>1 DEF IsLog, LookupInv
    <3>2. CASE log' = <<>>
      BY <3>2 DEF IsLog
    <3> QED
      BY <1>2, <3>1, <3>2
  <2> QED
    BY <1>2, <2>1 DEF LookupInv
<1> QED
  BY <1>1, <1>2

LEMMA ResolvingStep == LookupInv /\ [Next]_vars => LookupInv'
<1> SUFFICES ASSUME LookupInv, [Next]_vars PROVE LookupInv'
  OBVIOUS
<1>1. CASE Begin
  BY <1>1, BeginLooks
<1>2. CASE \E answer \in Naptrs : AskNaptr(answer)
  BY <1>2, NaptrLooks
<1>3. CASE \E answer \in Srvs : AskSrv(answer)
  BY <1>3, SrvLooks
<1>4. CASE Resolve
  BY <1>4, ConnectionKeepsLookup DEF Resolve
<1>5. CASE Connect
  BY <1>5, ConnectionKeepsLookup DEF Connect, LookupInv
<1>6. CASE Close \/ Misframes \/ EndOfStream
  BY <1>6, ConnectionKeepsLookup DEF Close, Misframes, EndOfStream, Closed, resolving
<1>7. CASE Take \/ \E n \in 1..Len(incoming) : Read(n)
  BY <1>7, ConnectionKeepsLookup DEF Take, Read, resolving
<1>8. CASE Parse
  BY <1>8, ConnectionKeepsLookup DEF Parse, Closed, resolving
<1>9. CASE \E s \in Senders :
              Start(s) \/ GiveUp(s) \/ \E n \in 1..Size : Write(s, n)
  BY <1>9, ConnectionKeepsLookup DEF Start, GiveUp, Write, resolving
<1>10. CASE UNCHANGED vars
  BY <1>10, ConnectionKeepsLookup DEF vars, resolving
<1> QED
  BY <1>1, <1>2, <1>3, <1>4, <1>5, <1>6, <1>7, <1>8, <1>9, <1>10 DEF Next

(* A SIPConnection goes where the URI and the domain ask: for any URIs, any  *)
(* NAPTR and SRV answers, and any number of services to ask for, the target  *)
(* keeps a sips: URI secure and an explicit transport, is the first service  *)
(* offered, is never a service the domain has disabled, and a lookup fails   *)
(* only when one was.                                                        *)
THEOREM TargetAsAdvertised == Spec => []ResolvedAsAdvertised
<1>1. Init => LookupInv
  BY DEF Init, LookupInv, IsLog
<1> QED
  BY <1>1, ResolvingStep, ResolvedSuffices, PTL DEF Spec
=============================================================================
