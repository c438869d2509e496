--------------------------- MODULE ReinviteProofs ---------------------------
(***************************************************************************)
(* Proofs about Reinvite: the inductive invariant IInv, and from it that   *)
(* both sides of a call go by the same request, unless the call has no     *)
(* record of what the peer was told, and that its media never return to    *)
(* what an overtaken request asked for.                                    *)
(***************************************************************************)
EXTENDS Reinvite, TLAPS

\* A later offer replaces what an earlier one changed, whatever that was.
LEMMA MovedAgain ==
    ASSUME NEW groups, NEW original, NEW c, NEW x, NEW y
    PROVE  Moved(groups, original, Moved(groups, original, c, x), y) =
           Moved(groups, original, c, y)
  <1> DEFINE places == Places(groups, original, y)
             once == Moved(groups, original, c, x)
  <1>1. DOMAIN once = DOMAIN c /\ \A k \in DOMAIN c : once[k].send = c[k].send
    BY DEF Moved
  <1>2. \A d : Moved(groups, original, d, y) =
                 [k \in DOMAIN d |->
                    [remote |-> places[k].remote,
                     dir |-> Negotiated(y[places[k].section].dir),
                     send |-> d[k].send, receive |-> d[k].send]]
    BY DEF Moved
  <1> HIDE DEF places, once
  <1> QED
    BY <1>1, <1>2 DEF once

LEMMA Initially == Init => IInv
  <1> SUFFICES ASSUME Init PROVE IInv
    OBVIOUS
  <1> USE DEF Init, First, Idle, NoReply, Refusal, Reply
  <1>1. TypeOK
    <2>1. CASE setup.origin = "in"
      BY <2>1 DEF TypeOK, Labels
    <2>2. CASE setup.origin # "in"
      BY <2>2 DEF TypeOK, Labels
    <2> QED
      BY <2>1, <2>2
  <1>2. Ordered
    <2>1. First \in {0, 1} /\ (unsent => First = 1)
      OBVIOUS
    <2>2. /\ applied = First /\ cseq = First
          /\ peer.next = First + 1 /\ peer.pending = First
          /\ peer.agreed = 0
      OBVIOUS
    <2>3. handler.at = "idle" /\ replies = {} /\ cache = {}
      OBVIOUS
    <2>4. state = "DIALING" => cseq = 0
      OBVIOUS
    <2> HIDE DEF Init, First
    <2> QED
      BY <2>1, <2>2, <2>3, <2>4 DEF Ordered
  <1>3. Settled
    BY DEF Settled, Terms
  <1>4. OneOutcome
    BY DEF OneOutcome, Applying, Turned, Outcome, LastOutcome, CachedOutcomes,
       SentOutcomes, Undecided, BeingApplied, AllDecided, PeerAgrees
  <1> QED
    BY <1>1, <1>2, <1>3, <1>4 DEF IInv

LEMMA ForgetKeeps ==
    ASSUME IInv, NEW m \in cache, Forget(m)
    PROVE  IInv'
  <1> USE DEF IInv, First, local, At, Forget
  <1>1. TypeOK'
    BY DEF TypeOK, Labels, Ordered
  <1>2. Ordered'
    BY DEF TypeOK, Ordered
  <1>3. Settled'
    BY DEF Settled, Terms, Groups0
  <1>4. (state # "ENDED" => OneOutcome)'
    <2> SUFFICES ASSUME (state # "ENDED")' PROVE OneOutcome'
      OBVIOUS
    <2> state # "ENDED" /\ OneOutcome
      BY DEF TypeOK
    <2>1. /\ \A k : Turned(k) => Turned(k)' \/ k \in unrecorded'
          /\ unrecorded \subseteq unrecorded'
      BY DEF Turned
    <2>2. \A k : Applying(k)' <=> Applying(k)
      BY DEF Applying
    <2>3. \A c : Outcome(c) => Outcome(c)'
      BY <2>1 DEF Outcome
    <2>4. CachedOutcomes'
      BY <2>3 DEF OneOutcome, CachedOutcomes
    <2>5. SentOutcomes' /\ AllDecided' /\ PeerAgrees'
      BY <2>1, <2>2 DEF OneOutcome, SentOutcomes, AllDecided, PeerAgrees
    <2>6. Undecided' /\ BeingApplied'
      BY <2>1 DEF OneOutcome, Undecided, BeingApplied, Cached
    <2> QED
      BY <2>3, <2>4, <2>5, <2>6 DEF OneOutcome, LastOutcome
  <1> QED
    BY <1>1, <1>2, <1>3, <1>4

LEMMA ReceiveKeeps ==
    ASSUME IInv, NEW n \in 1..(peer.next - 1), Receive(n)
    PROVE  IInv'
  <1> USE DEF IInv, First, local, At, Receive, Cached, Idle, NoReply, Refusal, Reply
  <1>1. TypeOK'
    BY DEF TypeOK, Labels, Ordered
  <1>2. Ordered'
    BY DEF TypeOK, Ordered
  <1>3. Settled'
    BY DEF Settled, Terms, Groups0
  <1>4. (state # "ENDED" => OneOutcome)'
    <2> SUFFICES ASSUME (state # "ENDED")' PROVE OneOutcome'
      OBVIOUS
    <2> state # "ENDED" /\ OneOutcome
      BY DEF TypeOK
    <2> USE DEF TypeOK, Labels, Ordered, OneOutcome, Applying, Turned, Outcome
    <2>1. (registered /\ handler.at # "raised")'
      OBVIOUS
    <2>2. (handler.at \in {"reply", "again"} => Outcome(handler.message))'
      BY DEF LastOutcome, CachedOutcomes, SentOutcomes, Undecided, AllDecided
    <2>3. LastOutcome'
      BY DEF LastOutcome
    <2>4. CachedOutcomes'
      BY DEF CachedOutcomes, Undecided, BeingApplied
    <2>5. SentOutcomes'
      BY DEF SentOutcomes, CachedOutcomes, Undecided, BeingApplied
    <2>6. Undecided'
      <3> SUFFICES ASSUME handler'.at = "find", cseq < n
                   PROVE  /\ Cached(n) = {}
                          /\ n \notin unrecorded =>
                                n = peer.pending /\ replies = {}
        BY DEF Undecided
      <3>1. Cached(n) = {} /\ handler.at = "idle"
        OBVIOUS
      <3> SUFFICES ASSUME n \notin unrecorded
                   PROVE  n = peer.pending /\ replies = {}
        BY <3>1
      <3>2. ~Turned(n) /\ ~Applying(n)
        BY <3>1
      <3>3. n = peer.pending
        BY <3>2 DEF AllDecided
      <3>4. \A m \in replies : FALSE
        <4> SUFFICES ASSUME NEW m \in replies PROVE FALSE
          OBVIOUS
        <4>1. m.of = n /\ applied # n
          BY <3>3
        <4> QED
          BY <3>2, <4>1 DEF SentOutcomes
      <3> QED
        BY <3>3, <3>4
    <2>7. BeingApplied'
      BY DEF BeingApplied, SentOutcomes, Undecided, CachedOutcomes
    <2>8. AllDecided'
      BY DEF AllDecided, Undecided, SentOutcomes, CachedOutcomes, BeingApplied
    <2>9. PeerAgrees'
      BY DEF PeerAgrees, SentOutcomes, Undecided, BeingApplied
    <2> QED
      BY <2>1, <2>2, <2>3, <2>4, <2>5, <2>6, <2>7, <2>8, <2>9
  <1> QED
    BY <1>1, <1>2, <1>3, <1>4

LEMMA FindKeeps ==
    ASSUME IInv, Find
    PROVE  IInv'
  <1> USE DEF IInv, First, local, At, Find, Refuse, Repeat, IsFirst, IsStale,
         InitialResponse, Remembering, Refusal, Reply, Cached
  <1>1. TypeOK'
    BY SMTT(20) DEF TypeOK, Labels, Ordered
  <1>2. Ordered'
    BY DEF TypeOK, Ordered
  <1>3. Settled'
    BY DEF Settled, Terms, Groups0
  <1>4. (state # "ENDED" => OneOutcome)'
    <2> SUFFICES ASSUME (state # "ENDED")' PROVE OneOutcome'
      OBVIOUS
    <2> state # "ENDED" /\ OneOutcome
      BY DEF TypeOK
    <2> USE DEF TypeOK, Labels, Ordered, OneOutcome, Applying, Turned, Outcome
    <2>1. (registered /\ handler.at # "raised")'
      OBVIOUS
    <2>2. (handler.at \in {"reply", "again"} => Outcome(handler.message))'
      BY SMTT(20) DEF LastOutcome, CachedOutcomes, SentOutcomes, Undecided, AllDecided
    <2>3. LastOutcome'
      BY DEF LastOutcome
    <2>4. CachedOutcomes'
      <3>1. CASE cache' = cache
        BY <3>1 DEF CachedOutcomes
      <3>2. CASE state # "ANSWERED" /\ ~IsFirst(handler.n) /\ Refuse(491)
        <4>1. \A c \in cache' : c \in cache \/ c = Refusal(handler.n, 491)
          BY <3>2
        <4>2. handler.n = peer.pending => applied # handler.n
          BY <3>2
        <4> QED
          BY <3>2, <4>1, <4>2 DEF CachedOutcomes
      <3>3. CASE ~IsFirst(handler.n) /\ handler.n # last.of
                 /\ IsStale(handler.n) /\ Refuse(500)
        <4>1. \A c \in cache' : c \in cache \/ c = Refusal(handler.n, 500)
          BY <3>3
        <4>2. handler.n # peer.pending /\ handler.n <= cseq
          BY <3>3 DEF LastOutcome
        <4> QED
          BY <3>3, <4>1, <4>2 DEF CachedOutcomes
      <3> QED
        BY <3>1, <3>2, <3>3
    <2>5. SentOutcomes'
      BY DEF SentOutcomes, CachedOutcomes, Undecided, BeingApplied
    <2>6. Undecided'
      BY DEF SentOutcomes, Undecided, AllDecided, CachedOutcomes
    <2>7. BeingApplied'
      BY DEF BeingApplied, SentOutcomes, Undecided, CachedOutcomes
    <2>8. AllDecided'
      BY DEF AllDecided, Undecided, SentOutcomes, CachedOutcomes, BeingApplied
    <2>9. PeerAgrees'
      BY DEF PeerAgrees, SentOutcomes, Undecided, BeingApplied
    <2> QED
      BY <2>1, <2>2, <2>3, <2>4, <2>5, <2>6, <2>7, <2>8, <2>9
  <1> QED
    BY <1>1, <1>2, <1>3, <1>4

LEMMA RenegotiateKeeps ==
    ASSUME IInv, Renegotiate
    PROVE  IInv'
  <1> USE DEF IInv, First, local, At, Renegotiate, Remember, Remembering,
         Refusal, Reply, Cached
  <1>1. TypeOK'
    BY DEF TypeOK, Labels, Ordered
  <1>2. Ordered'
    BY DEF TypeOK, Ordered
  <1>3. Settled'
    BY DEF Settled, Terms, Groups0
  <1>4. (state # "ENDED" => OneOutcome)'
    <2> SUFFICES ASSUME (state # "ENDED")' PROVE OneOutcome'
      OBVIOUS
    <2> state # "ENDED" /\ OneOutcome
      BY DEF TypeOK
    <2> USE DEF TypeOK, Labels, Ordered, OneOutcome, Applying, Turned, Outcome
    <2>1. (registered /\ handler.at # "raised")'
      OBVIOUS
    <2>2. /\ (handler.at \in {"reply", "again"} => Outcome(handler.message))'
          /\ (handler.at = "unsent" /\ handler.message.status # 200 =>
                 Outcome(handler.message))'
      BY DEF Undecided
    <2>3. LastOutcome'
      BY DEF LastOutcome
    <2>4. CachedOutcomes'
      BY DEF CachedOutcomes, Undecided
    <2>5. SentOutcomes'
      BY DEF SentOutcomes, Undecided
    <2>6. Undecided' /\ BeingApplied'
      BY DEF Undecided, BeingApplied
    <2>7. AllDecided'
      BY DEF AllDecided, Undecided
    <2>8. PeerAgrees'
      BY DEF PeerAgrees
    <2> QED
      BY <2>1, <2>2, <2>3, <2>4, <2>5, <2>6, <2>7, <2>8
  <1> QED
    BY <1>1, <1>2, <1>3, <1>4

LEMMA AcceptKeeps ==
    ASSUME IInv, Accept
    PROVE  IInv'
  <1> USE DEF IInv, First, local, At, Accept, Sent, Cached
  <1>1. TypeOK'
    BY DEF TypeOK, Labels, Ordered
  <1>2. Ordered'
    BY DEF TypeOK, Ordered
  <1>3. Settled'
    BY DEF Settled, Terms, Groups0
  <1>4. (state # "ENDED" => OneOutcome)'
    BY DEF TypeOK, Labels, Ordered, OneOutcome, Applying, Turned, Outcome,
       LastOutcome, CachedOutcomes, SentOutcomes,
       Undecided, BeingApplied, AllDecided, PeerAgrees
  <1> QED
    BY <1>1, <1>2, <1>3, <1>4

LEMMA ApplyKeeps ==
    ASSUME IInv, Apply
    PROVE  IInv'
  <1> USE DEF IInv, First, local, At, Apply, Remember, Remembering, Idle, NoReply,
         Refusal, Reply, Cached
  <1>1. TypeOK'
    BY DEF TypeOK, Labels, Ordered
  <1>2. Ordered'
    BY DEF TypeOK, Ordered
  <1>3. Settled'
    BY MovedAgain DEF Settled, Terms, Groups0, TypeOK, Ordered
  <1>4. (state # "ENDED" => OneOutcome)'
    <2> SUFFICES ASSUME (state # "ENDED")' PROVE OneOutcome'
      OBVIOUS
    <2> state # "ENDED" /\ OneOutcome
      BY DEF TypeOK
    <2> USE DEF TypeOK, Labels, Ordered, OneOutcome, Applying, Turned, Outcome
    <2>a. cache' = cache \cup {handler.message}
      BY DEF BeingApplied
    <2>b. \A k : Turned(k)' <=> Turned(k)
      BY <2>a
    <2>c. /\ \A k : ~Applying(k)'
          /\ \A k : Applying(k) <=> k = handler.n
      OBVIOUS
    <2>1. (registered /\ handler.at # "raised")'
      OBVIOUS
    <2>2. (handler.at \in {"reply", "again"} => Outcome(handler.message))'
      BY DEF LastOutcome, CachedOutcomes, SentOutcomes, Undecided, AllDecided
    <2>3. LastOutcome'
      BY DEF LastOutcome
    <2>4. CachedOutcomes'
      BY <2>a, <2>b, <2>c DEF CachedOutcomes, BeingApplied
    <2>5. SentOutcomes'
      BY <2>b, <2>c DEF SentOutcomes, BeingApplied
    <2>6. Undecided'
      BY DEF SentOutcomes, Undecided, AllDecided, CachedOutcomes
    <2>7. BeingApplied'
      BY DEF BeingApplied, SentOutcomes, Undecided, CachedOutcomes
    <2>8. AllDecided'
      <3>1. cseq' \in {cseq, handler.n} /\ cseq' >= handler.n /\ cseq < handler.n
        OBVIOUS
      <3>2. /\ UNCHANGED <<peer, unrecorded>> /\ AllDecided
            /\ cseq \in Nat /\ handler.n \in Nat
        OBVIOUS
      <3>3. peer.next \in Nat
        OBVIOUS
      <3> HIDE DEF IInv, TypeOK, Ordered, OneOutcome, Apply, Turned, Applying
      <3> QED
        BY <3>1, <3>2, <3>3, <2>b, <2>c DEF AllDecided
    <2>9. PeerAgrees'
      BY DEF PeerAgrees, SentOutcomes, Undecided, BeingApplied
    <2> QED
      BY <2>1, <2>2, <2>3, <2>4, <2>5, <2>6, <2>7, <2>8, <2>9
  <1> QED
    BY <1>1, <1>2, <1>3, <1>4

LEMMA SendReplyKeeps ==
    ASSUME IInv, SendReply
    PROVE  IInv'
  <1> USE DEF IInv, First, local, At, SendReply, Sent, Remembering, Idle, NoReply,
         Refusal, Reply, Cached
  <1>1. TypeOK'
    BY DEF TypeOK, Labels, Ordered
  <1>2. Ordered'
    BY DEF TypeOK, Ordered
  <1>3. Settled'
    BY DEF Settled, Terms, Groups0
  <1>4. (state # "ENDED" => OneOutcome)'
    <2> SUFFICES ASSUME (state # "ENDED")' PROVE OneOutcome'
      OBVIOUS
    <2> state # "ENDED" /\ OneOutcome
      BY DEF TypeOK
    <2> USE DEF TypeOK, Labels, Ordered, OneOutcome, Applying, Turned, Outcome
    <2>a. \A k : Turned(k) => Turned(k)' \/ k <= cseq
      OBVIOUS
    <2>b. \A k : Applying(k)' = FALSE /\ Applying(k) = FALSE
      OBVIOUS
    <2>c. \A c \in cache' : c \in cache \/ c = handler.message
      OBVIOUS
    <2>d. \A c \in replies' : c \in replies \/ c = handler.message
      OBVIOUS
    <2>1. (registered /\ handler.at # "raised")'
      OBVIOUS
    <2>2. (handler.at \in {"reply", "again"} => Outcome(handler.message))'
      BY DEF LastOutcome, CachedOutcomes, SentOutcomes, Undecided, AllDecided
    <2>3. LastOutcome'
      BY DEF LastOutcome
    <2>4. CachedOutcomes'
      BY <2>a, <2>c DEF CachedOutcomes
    <2>5. SentOutcomes'
      BY <2>a, <2>b, <2>d DEF SentOutcomes
    <2>6. Undecided'
      BY DEF SentOutcomes, Undecided, AllDecided, CachedOutcomes
    <2>7. BeingApplied'
      BY DEF BeingApplied, SentOutcomes, Undecided, CachedOutcomes
    <2>8. AllDecided'
      BY <2>a, <2>b DEF AllDecided
    <2>9. PeerAgrees'
      BY DEF PeerAgrees, SentOutcomes, Undecided, BeingApplied
    <2> QED
      BY <2>1, <2>2, <2>3, <2>4, <2>5, <2>6, <2>7, <2>8, <2>9
  <1> QED
    BY <1>1, <1>2, <1>3, <1>4

LEMMA SendFailsKeeps ==
    ASSUME IInv, SendFails
    PROVE  IInv'
  <1> USE DEF IInv, First, local, At, SendFails, Cached
  <1>1. TypeOK'
    BY DEF TypeOK, Labels, Ordered
  <1>2. Ordered'
    BY DEF TypeOK, Ordered
  <1>3. Settled'
    BY DEF Settled, Terms, Groups0
  <1>4. (state # "ENDED" => OneOutcome)'
    BY DEF TypeOK, Labels, Ordered, OneOutcome, Applying, Turned, Outcome,
       LastOutcome, CachedOutcomes, SentOutcomes,
       Undecided, BeingApplied, AllDecided, PeerAgrees
  <1> QED
    BY <1>1, <1>2, <1>3, <1>4

LEMMA FallbackKeeps ==
    ASSUME IInv, Fallback
    PROVE  IInv'
  <1> USE DEF IInv, First, local, At, Fallback, Sent, Idle, NoReply,
         Refusal, Reply, Cached
  <1>1. TypeOK'
    BY DEF TypeOK, Labels, Ordered
  <1>2. Ordered'
    BY DEF TypeOK, Ordered
  <1>3. Settled'
    BY DEF Settled, Terms, Groups0
  <1>4. (state # "ENDED" => OneOutcome)'
    BY DEF TypeOK, Labels, Ordered, OneOutcome, Applying, Turned, Outcome,
       LastOutcome, CachedOutcomes, SentOutcomes,
       Undecided, BeingApplied, AllDecided, PeerAgrees
  <1> QED
    BY <1>1, <1>2, <1>3, <1>4

LEMMA AnsweredKeeps ==
    ASSUME IInv, Answered
    PROVE  IInv'
  <1> USE DEF IInv, First, local, At, Answered, Sent, InitialResponse, Remembering, Reply, Cached
  <1>1. TypeOK'
    <2>1. CASE state = "DIALING" /\ ~unsent
      BY <2>1 DEF TypeOK, Labels
    <2>2. CASE unsent
      <3>1. InitialResponse.of = 1
        OBVIOUS
      <3> HIDE DEF InitialResponse
      <3>2. (\A m \in cache \cup replies : m.of \in Nat)'
        BY <3>1 DEF TypeOK
      <3>3. /\ state' \in {"DIALING", "ANSWERED", "ENDED"}
            /\ unsent' \in BOOLEAN
        BY DEF TypeOK
      <3> QED
        BY <2>2, <3>1, <3>2, <3>3 DEF TypeOK, Labels
    <2> QED
      BY <2>1, <2>2
  <1>2. Ordered'
    BY DEF TypeOK, Ordered
  <1>3. Settled'
    BY DEF Settled, Terms, Groups0
  <1>4. (state # "ENDED" => OneOutcome)'
    <2> SUFFICES ASSUME (state # "ENDED")' PROVE OneOutcome'
      OBVIOUS
    <2> state # "ENDED" /\ OneOutcome
      BY DEF TypeOK
    <2> USE DEF TypeOK, Labels, Ordered, OneOutcome, Applying, Turned, Outcome
    <2>1. (registered /\ handler.at # "raised")'
      OBVIOUS
    <2>2. (handler.at \in {"reply", "again"} => Outcome(handler.message))'
      BY DEF LastOutcome, CachedOutcomes, SentOutcomes, Undecided, AllDecided
    <2>3. LastOutcome'
      BY DEF LastOutcome
    <2>4. CachedOutcomes'
      BY DEF CachedOutcomes, Undecided, BeingApplied
    <2>5. SentOutcomes'
      BY DEF SentOutcomes, CachedOutcomes, Undecided, BeingApplied
    <2>6. Undecided'
      BY DEF SentOutcomes, Undecided, AllDecided, CachedOutcomes
    <2>7. BeingApplied'
      BY DEF BeingApplied, SentOutcomes, Undecided, CachedOutcomes
    <2>8. AllDecided'
      BY DEF AllDecided, Undecided, SentOutcomes, CachedOutcomes, BeingApplied
    <2>9. PeerAgrees'
      BY DEF PeerAgrees, SentOutcomes, Undecided, BeingApplied
    <2> QED
      BY <2>1, <2>2, <2>3, <2>4, <2>5, <2>6, <2>7, <2>8, <2>9
  <1> QED
    BY <1>1, <1>2, <1>3, <1>4

LEMMA HangupKeeps ==
    ASSUME IInv, Hangup
    PROVE  IInv'
  <1> USE DEF IInv, First, local, At, Hangup
  <1>1. TypeOK'
    BY DEF TypeOK, Labels, Ordered
  <1>2. Ordered'
    BY DEF TypeOK, Ordered
  <1>3. Settled'
    BY DEF Settled, Terms, Groups0
  <1>4. (state # "ENDED" => OneOutcome)'
    BY DEF TypeOK, Labels, Ordered, OneOutcome, Applying, Turned, Outcome,
       LastOutcome, CachedOutcomes, SentOutcomes,
       Undecided, BeingApplied, AllDecided, PeerAgrees
  <1> QED
    BY <1>1, <1>2, <1>3, <1>4

LEMMA FinalizeKeeps ==
    ASSUME IInv, Finalize
    PROVE  IInv'
  <1> USE DEF IInv, First, local, At, Finalize
  <1>1. TypeOK'
    BY DEF TypeOK, Labels, Ordered
  <1>2. Ordered'
    BY DEF TypeOK, Ordered
  <1>3. Settled'
    BY DEF Settled, Terms, Groups0
  <1>4. (state # "ENDED" => OneOutcome)'
    BY DEF TypeOK, Labels, Ordered, OneOutcome, Applying, Turned, Outcome,
       LastOutcome, CachedOutcomes, SentOutcomes,
       Undecided, BeingApplied, AllDecided, PeerAgrees
  <1> QED
    BY <1>1, <1>2, <1>3, <1>4

LEMMA PeerInvitesKeeps ==
    ASSUME IInv, NEW offer \in setup.later, PeerInvites(offer)
    PROVE  IInv'
  <1> USE DEF IInv, First, local, At, PeerInvites, Cached
  <1>1. TypeOK'
    BY DEF TypeOK, Labels, Ordered
  <1>2. Ordered'
    BY DEF TypeOK, Ordered
  <1>3. Settled'
    BY DEF Settled, Terms, Groups0, TypeOK, Ordered
  <1>4. (state # "ENDED" => OneOutcome)'
    <2> SUFFICES ASSUME (state # "ENDED")' PROVE OneOutcome'
      OBVIOUS
    <2> state # "ENDED" /\ OneOutcome
      BY DEF TypeOK
    <2> USE DEF TypeOK, Labels, Ordered, OneOutcome, Applying, Turned, Outcome
    <2>a. /\ \A k : Turned(k)' <=> Turned(k)
          /\ \A k : Applying(k)' <=> Applying(k)
      OBVIOUS
    <2>1. (registered /\ handler.at # "raised")'
      OBVIOUS
    <2>2. (handler.at \in {"reply", "again"} => Outcome(handler.message))'
      BY DEF LastOutcome, CachedOutcomes, SentOutcomes, Undecided, AllDecided
    <2>3. LastOutcome'
      BY DEF LastOutcome
    <2>4. CachedOutcomes'
      BY DEF CachedOutcomes, Undecided, BeingApplied
    <2>5. SentOutcomes'
      BY DEF SentOutcomes, CachedOutcomes, Undecided, BeingApplied
    <2>6. Undecided'
      BY DEF SentOutcomes, Undecided, AllDecided, CachedOutcomes
    <2>7. BeingApplied'
      BY SMTT(20) DEF BeingApplied, SentOutcomes, Undecided, CachedOutcomes
    <2>8. AllDecided'
      <3> SUFFICES ASSUME NEW k \in 1..peer.next, k # peer.next
                   PROVE  \/ (k <= cseq \/ Turned(k) \/ Applying(k))'
                          \/ k \in unrecorded'
        BY DEF AllDecided
      <3>1. k \in 1..(peer.next - 1) /\ k # peer.pending
        BY SMTT(20)
      <3> QED
        BY <2>a, <3>1 DEF AllDecided
    <2>9. PeerAgrees'
      BY <2>a DEF PeerAgrees
    <2> QED
      BY <2>1, <2>2, <2>3, <2>4, <2>5, <2>6, <2>7, <2>8, <2>9
  <1> QED
    BY <1>1, <1>2, <1>3, <1>4

LEMMA PeerLearnsKeeps ==
    ASSUME IInv, NEW m \in replies, PeerLearns(m)
    PROVE  IInv'
  <1> USE DEF IInv, First, local, At, PeerLearns, Cached
  <1>1. TypeOK'
    BY DEF TypeOK, Labels, Ordered
  <1>2. Ordered'
    BY DEF TypeOK, Ordered
  <1>3. Settled'
    BY DEF Settled, Terms, Groups0
  <1>4. (state # "ENDED" => OneOutcome)'
    <2> SUFFICES ASSUME (state # "ENDED")' PROVE OneOutcome'
      OBVIOUS
    <2> state # "ENDED" /\ OneOutcome
      BY DEF TypeOK
    <2> USE DEF TypeOK, Labels, Ordered, OneOutcome, Applying, Turned, Outcome
    <2>a. /\ \A k : Turned(k)' <=> Turned(k)
          /\ \A k : Applying(k)' <=> Applying(k)
      OBVIOUS
    <2>b. /\ m.of = peer.pending
          /\ m.status = 200 =>
                applied = peer.pending \/ Applying(peer.pending)
          /\ m.status # 200 /\ peer.pending \notin unrecorded =>
                /\ applied # peer.pending /\ ~Applying(peer.pending)
                /\ peer.pending <= cseq \/ Turned(peer.pending)
      BY DEF SentOutcomes
    <2>1. (registered /\ handler.at # "raised")'
      OBVIOUS
    <2>2. (handler.at \in {"reply", "again"} => Outcome(handler.message))'
      BY DEF LastOutcome, CachedOutcomes, SentOutcomes, Undecided, AllDecided
    <2>3. LastOutcome'
      BY DEF LastOutcome
    <2>4. CachedOutcomes'
      BY DEF CachedOutcomes, Undecided, BeingApplied
    <2>5. SentOutcomes'
      BY DEF SentOutcomes, CachedOutcomes, Undecided, BeingApplied
    <2>6. Undecided'
      BY DEF SentOutcomes, Undecided, AllDecided, CachedOutcomes
    <2>7. BeingApplied'
      BY DEF BeingApplied, SentOutcomes, Undecided, CachedOutcomes
    <2>8. AllDecided'
      BY <2>a, <2>b DEF AllDecided
    <2>9. PeerAgrees'
      <3>1. CASE m.status = 200
        BY <3>1, <2>a, <2>b DEF PeerAgrees
      <3>2. CASE m.status # 200
        BY <3>2, <2>a, <2>b DEF PeerAgrees
      <3> QED
        BY <3>1, <3>2
    <2> QED
      BY <2>1, <2>2, <2>3, <2>4, <2>5, <2>6, <2>7, <2>8, <2>9
  <1> QED
    BY <1>1, <1>2, <1>3, <1>4

LEMMA StepKeeps == IInv /\ [Next]_vars => IInv'
  <1> SUFFICES ASSUME IInv, [Next]_vars PROVE IInv'
    OBVIOUS
  <1>1. CASE \E n \in 1..(peer.next - 1) : Receive(n)
    BY <1>1, ReceiveKeeps
  <1>2. CASE \E m \in cache : Forget(m)
    BY <1>2, ForgetKeeps
  <1>3. CASE Work
    BY <1>3, FindKeeps, RenegotiateKeeps, AcceptKeeps, ApplyKeeps,
       SendReplyKeeps, FallbackKeeps DEF Work
  <1>4. CASE SendFails
    BY <1>4, SendFailsKeeps
  <1>5. CASE Answered \/ Hangup \/ Finalize
    BY <1>5, AnsweredKeeps, HangupKeeps, FinalizeKeeps
  <1>6. CASE \E offer \in setup.later : PeerInvites(offer)
    BY <1>6, PeerInvitesKeeps
  <1>7. CASE \E m \in replies : PeerLearns(m)
    BY <1>7, PeerLearnsKeeps
  <1>8. CASE UNCHANGED vars
    BY <1>8 DEF vars, local, IInv, TypeOK, Ordered, Settled, OneOutcome, First,
       Labels, Terms, Groups0, Outcome, Turned, Applying, Cached, LastOutcome,
       CachedOutcomes, SentOutcomes, Undecided, BeingApplied, AllDecided,
       PeerAgrees
  <1> QED
    BY <1>1, <1>2, <1>3, <1>4, <1>5, <1>6, <1>7, <1>8 DEF Next

\* The records of a call are in the order of the peer's requests, its clients
\* are those of the last one it accepted, and while it lives only a request
\* that may have been refused without a record of it has two outcomes.
THEOREM Invariance == Spec => []IInv
  BY Initially, StepKeeps, PTL DEF Spec

\* Whatever the network repeats, delays or loses, whatever the cache forgets and
\* whichever responses fail to leave: when nothing is outstanding, both sides
\* go by the same request, or the call goes by one that may have been refused
\* without a record of it.
THEOREM Agreement == Spec => []Agreed
  <1>1. IInv => Agreed
    BY DEF IInv, TypeOK, Ordered, Settled, OneOutcome, PeerAgrees, Applying,
       Agreed, Idle, First
  <1> QED
    BY <1>1, Invariance, PTL

\* An overtaken or repeated request never changes the clients or the Contact.
THEOREM NeverRevert == Spec => MediaNeverRevert
  <1>1. IInv /\ [Next]_vars =>
            [clients' # clients \/ contact' # contact => applied' > applied]_vars
    <2> SUFFICES ASSUME IInv, Next, clients' # clients \/ contact' # contact
                 PROVE  applied' > applied
      BY DEF vars, local
    <2>1. Apply
      BY DEF Next, Work, Receive, Forget, Find, Renegotiate, Accept, SendReply,
         SendFails, Fallback, Answered, Hangup, Finalize, PeerInvites,
         PeerLearns, local
    <2> QED
      BY <2>1 DEF Apply, IInv, TypeOK, Ordered
  <1> QED
    BY <1>1, Invariance, PTL DEF Spec, MediaNeverRevert
=============================================================================
