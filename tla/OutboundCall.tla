---------------------------- MODULE OutboundCall ----------------------------
(***************************************************************************)
(* An outgoing call from phone.call() to the release of its resources      *)
(* (rfcvoip/VoIP/VoIP.py, and SIPClient.invite of rfcvoip/SIP.py).         *)
(* call() reserves a port, sends the INVITE and reads the responses itself *)
(* while it holds the receive lock, until the first 18x or final response. *)
(* Only then it builds and registers the call object; whatever arrives in  *)
(* that gap is read by the SIP receive thread, which leaves a response for *)
(* an unregistered call in pending_invite_responses.  From there on the    *)
(* receive thread and the application's cancel() and hangup() meet in the  *)
(* call object.  Steps are cut as in InboundCall.                          *)
(*                                                                         *)
(* A call object is named by its Call-ID, the INVITEs of a call by their   *)
(* place in it (their CSeq).  One call uses one port.                      *)
(***************************************************************************)
EXTENDS Naturals, FiniteSets

CONSTANTS
    Apps,        \* application threads
    Recv,        \* the SIP receive thread
    Calls,       \* Call-IDs of call()
    Ports,       \* rtpPortLow..rtpPortHigh
    None,
    Kinds,       \* what peers may send: 18x, 2xx, 401/407, >= 300, BYE
    Faults,      \* what may fail: sending, the SDP answer, binding a socket
    MaxRetries,  \* invite_max_retries
    MaxMsgs      \* bound: messages received in a behaviour

ASSUME ConstantsAssumption ==
    /\ Recv \notin Apps
    /\ None \notin Calls \cup Ports \cup Apps \cup {Recv}
    /\ Kinds \subseteq {"ringing", "ok", "challenge", "reject", "bye"}
    /\ Faults \subseteq {"send", "sdp", "bind"}
    /\ MaxRetries \in Nat /\ MaxMsgs \in Nat

VARIABLES
    \* one VoIPCall
    state,      \* CallState, "NONE" before the object is registered
    busy,       \* _answer_in_progress
    finalized,  \* _finalized
    running,    \* NSD of its RTPClient
    remote,     \* calls whose remote_sip_message is set
    port,       \* port call() reserved for the call; self.port of the object
    assigned,   \* assignedPorts of the object is not empty
    freed,      \* history: calls whose reservation was given back
    \* the phone and its SIP client
    calls,      \* registered calls
    ended,      \* _ended_outbound_invites
    pool,       \* assignedPorts of the phone
    tag,        \* sip.tagLibrary
    depth,      \* _outbound_call_creation_depth
    active,     \* call_id of last_invite_debug
    pending,    \* pending_invite_responses
    recvLock,   \* the thread that holds recvLock
    \* the dialogs as the peer sees them
    sent,       \* INVITEs sent per call
    answer,     \* answer[c][n]: final response of the peer to INVITE n
    acked,      \* calls whose 2xx was ACKed
    byed,       \* calls for which a BYE was sent by either side
    \* threads
    pc, routine, cur, seq,
    dial,       \* the Call-ID a thread is inside call() with
    tried,      \* Call-IDs used so far
    handed,     \* calls returned by call()
    msgs        \* messages received so far

lifeVars == <<state, busy, finalized>>
mediaVars == <<running, remote>>
portVars == <<port, assigned, freed, pool>>
registryVars == <<calls, ended, tag>>
setupVars == <<depth, active, pending>>
peerVars == <<sent, answer>>
dialogVars == <<acked, byed>>
frameVars == <<routine, cur, seq>>
appVars == <<dial, tried, handed>>
vars == <<lifeVars, mediaVars, portVars, registryVars, setupVars, recvLock,
          peerVars, dialogVars, pc, frameVars, appVars, msgs>>

Threads == Apps \cup {Recv}
Nothing == [kind |-> "none", seq |-> 0]      \* no pending response
Attempts == 1..(MaxRetries + 1)

Init ==
    /\ state = [c \in Calls |-> "NONE"]
    /\ busy = [c \in Calls |-> FALSE]
    /\ finalized = [c \in Calls |-> FALSE]
    /\ running = [c \in Calls |-> FALSE]
    /\ remote = {}
    /\ port = [c \in Calls |-> None]
    /\ assigned = [c \in Calls |-> FALSE]
    /\ freed = {}
    /\ calls = {} /\ ended = {} /\ pool = {} /\ tag = {}
    /\ depth = 0
    /\ active = None
    /\ pending = [c \in Calls |-> Nothing]
    /\ recvLock = None
    /\ sent = [c \in Calls |-> 0]
    /\ answer = [c \in Calls |-> [n \in Attempts |-> "none"]]
    /\ acked = {} /\ byed = {}
    /\ pc = [t \in Threads |-> "idle"]
    /\ routine = [t \in Threads |-> "none"]
    /\ cur = [t \in Threads |-> None]
    /\ seq = [t \in Threads |-> 0]
    /\ dial = [t \in Threads |-> None]
    /\ tried = {} /\ handed = {}
    /\ msgs = 0

Go(t, l) == pc' = [pc EXCEPT ![t] = l]

(* Thread t goes on at label l of routine r for call c and INVITE n.       *)
Enter(t, r, l, c, n) ==
    /\ Go(t, l)
    /\ routine' = [routine EXCEPT ![t] = r]
    /\ cur' = [cur EXCEPT ![t] = c]
    /\ seq' = [seq EXCEPT ![t] = n]

(* Waits for the response to its INVITE.                                   *)
InTransaction(t) == t \in Apps /\ recvLock = t

(* A handler ends: the receive thread gives the lock back, call() goes on  *)
(* waiting for its INVITE or its port, and returns when it replayed a      *)
(* pending response, unless the handler raised.                            *)
Done(t, returns) ==
    LET replayed == /\ dial[t] # None /\ ~InTransaction(t)
                    /\ routine[t] # "reclaim"
    IN  /\ Enter(t, "none",
                 CASE InTransaction(t) -> "wait"
                   [] routine[t] = "reclaim" -> "port"
                   [] OTHER -> "idle", None, 0)
        /\ recvLock' = IF t = Recv THEN None ELSE recvLock
        /\ dial' = IF replayed THEN [dial EXCEPT ![t] = None] ELSE dial
        /\ handed' = IF replayed /\ returns THEN handed \cup {dial[t]}
                     ELSE handed
        /\ UNCHANGED tried

Stay == UNCHANGED <<recvLock, appVars>>

(* A handler that ends with an ACK outside try: its failure is an          *)
(* exception, which reaches the caller of call() if it replays.            *)
Returned(t) == \/ Done(t, TRUE)
               \/ "send" \in Faults /\ Done(t, FALSE)

AckAndReturn(t) ==
    \/ acked' = acked \cup {cur[t]} /\ Done(t, TRUE)
    \/ "send" \in Faults /\ UNCHANGED acked /\ Done(t, FALSE)

(* The ACK of a 2xx, and a BYE, whose failure is swallowed.                *)
Ack(c) == \/ acked' = acked \cup {c}
          \/ "send" \in Faults /\ UNCHANGED acked
Bye(c) == \/ byed' = byed \cup {c}
          \/ "send" \in Faults /\ UNCHANGED byed

----------------------------------------------------------------------------
(* phone.call()                                                            *)

Dial(t, c) ==
    /\ t \in Apps /\ pc[t] = "idle" /\ c \notin tried
    /\ depth' = depth + 1
    /\ dial' = [dial EXCEPT ![t] = c]
    /\ tried' = tried \cup {c}
    /\ Go(t, "port")
    /\ UNCHANGED <<lifeVars, mediaVars, portVars, registryVars, active, pending,
                   recvLock, peerVars, dialogVars, frameVars, handed, msgs>>

RequestPort(t) ==
    /\ pc[t] = "port"
    /\ \E p \in Ports \ pool : /\ port' = [port EXCEPT ![dial[t]] = p]
                               /\ pool' = pool \cup {p}
    /\ Go(t, "invite")
    /\ UNCHANGED <<assigned, freed, lifeVars, mediaVars, registryVars, setupVars, recvLock,
                   peerVars, dialogVars, frameVars, appVars, msgs>>

(* No port is free: the ended calls are finalized, then it looks again.    *)
Reclaim(t) ==
    /\ pc[t] = "port" /\ Ports \subseteq pool
    /\ \E d \in calls : /\ state[d] = "ENDED" /\ ~finalized[d]
                        /\ Enter(t, "reclaim", "fin", d, 0)
    /\ Stay
    /\ UNCHANGED <<lifeVars, mediaVars, portVars, registryVars, setupVars,
                   peerVars, dialogVars, msgs>>

(* invite() up to the receive lock: last_invite_debug and the From tag.    *)
PrepareInvite(t) ==
    /\ pc[t] = "invite"
    /\ active' = dial[t]
    /\ tag' = tag \cup {dial[t]}
    /\ Go(t, "acquire")
    /\ UNCHANGED <<lifeVars, mediaVars, portVars, calls, ended, depth, pending,
                   recvLock, peerVars, dialogVars, frameVars, appVars, msgs>>

SendInvite(t) ==
    /\ pc[t] = "acquire" /\ recvLock = None
    /\ \/ /\ recvLock' = t
          /\ sent' = [sent EXCEPT ![dial[t]] = 1]
          /\ Go(t, "wait")
       \/ /\ "send" \in Faults
          /\ Go(t, "abandon")
          /\ UNCHANGED <<recvLock, sent>>
    /\ UNCHANGED <<lifeVars, mediaVars, portVars, registryVars, setupVars,
                   answer, dialogVars, frameVars, appVars, msgs>>

(* A response of kind k to INVITE n of call c is read from the socket.     *)
(* The peer decides each INVITE once and may repeat itself; the network    *)
(* delays, repeats and loses.                                              *)
Arrives(c, n, k) ==
    /\ msgs < MaxMsgs
    /\ msgs' = msgs + 1
    /\ k \in Kinds \ {"bye"}
    /\ n \in 1..sent[c]
    /\ IF k = "ringing"
       THEN answer[c][n] # "challenge" /\ UNCHANGED answer
       ELSE /\ answer[c][n] \in {"none", k}
            /\ answer' = [answer EXCEPT ![c][n] = k]

Awaits(t) == pc[t] = "wait"

(* invite() returns the request: the response waits for the call object.   *)
Returns(t, k) ==
    /\ pending' = [pending EXCEPT ![dial[t]] = [kind |-> k,
                                                seq |-> sent[dial[t]]]]
    /\ recvLock' = None
    /\ Go(t, "create")
    /\ UNCHANGED <<lifeVars, mediaVars, portVars, registryVars, depth, active,
                   sent, dialogVars, frameVars, appVars>>

Progress(t) ==
    /\ Awaits(t)
    /\ Arrives(dial[t], sent[dial[t]], "ringing")
    /\ Returns(t, "ringing")

(* Mutant: the CSeq of the challenge is not compared.                      *)
ChallengedAgain(t) ==
    LET c == dial[t]
    IN  /\ Awaits(t)
        /\ sent[c] <= MaxRetries
        /\ \E n \in 1..sent[c] : Arrives(c, n, "challenge")
        /\ sent' = [sent EXCEPT ![c] = @ + 1]
        /\ UNCHANGED <<lifeVars, mediaVars, portVars, registryVars, setupVars,
                       recvLock, pc, dialogVars, frameVars, appVars>>

(* Only a challenge to the INVITE sent last is answered with another; one  *)
(* to an earlier INVITE gets its ACK again, which changes nothing.         *)
Challenged(t) ==
    LET c == dial[t]
    IN  /\ Awaits(t)
        /\ sent[c] <= MaxRetries
        /\ Arrives(c, sent[c], "challenge")
        /\ \/ /\ sent' = [sent EXCEPT ![c] = @ + 1]
              /\ UNCHANGED <<pc, recvLock>>
           \/ /\ "send" \in Faults
              /\ Go(t, "abandon")
              /\ recvLock' = None
              /\ UNCHANGED sent
        /\ UNCHANGED <<lifeVars, mediaVars, portVars, registryVars, setupVars,
                       dialogVars, frameVars, appVars>>

Final(t) ==
    /\ Awaits(t)
    /\ \E k \in {"ok", "reject", "challenge"} :
          /\ k = "challenge" => sent[dial[t]] > MaxRetries
          /\ Arrives(dial[t], sent[dial[t]], k)
          /\ Returns(t, IF k = "ok" THEN "ok" ELSE "reject")

(* Mutant: the deadline is only looked at after a response.                *)
TimedOutLate(t) ==
    /\ Awaits(t)
    /\ answer[dial[t]][sent[dial[t]]] # "none"
    /\ recvLock' = None
    /\ Go(t, "abandon")
    /\ UNCHANGED <<lifeVars, mediaVars, portVars, registryVars, setupVars,
                   peerVars, dialogVars, frameVars, appVars, msgs>>

(* invite_timeout: nothing came that ends the transaction.                 *)
TimedOut(t) ==
    /\ Awaits(t)
    /\ recvLock' = None
    /\ Go(t, "abandon")
    /\ UNCHANGED <<lifeVars, mediaVars, portVars, registryVars, setupVars,
                   peerVars, dialogVars, frameVars, appVars, msgs>>

(* Mutant: the dialog tag of a failed INVITE stays.                        *)
AbandonKeepsTag(t) ==
    /\ pc[t] = "abandon"
    /\ pending' = [pending EXCEPT ![dial[t]] = Nothing]
    /\ Go(t, "giveup")
    /\ UNCHANGED <<lifeVars, mediaVars, portVars, registryVars, depth, active,
                   recvLock, peerVars, dialogVars, frameVars, appVars, msgs>>

(* _invite_transaction, when it is left by an exception.                   *)
Abandon(t) ==
    /\ pc[t] = "abandon"
    /\ tag' = tag \ {dial[t]}
    /\ pending' = [pending EXCEPT ![dial[t]] = Nothing]
    /\ Go(t, "giveup")
    /\ UNCHANGED <<lifeVars, mediaVars, portVars, calls, ended, depth, active,
                   recvLock, peerVars, dialogVars, frameVars, appVars, msgs>>

(* Mutant: the port of a failed call() stays reserved.                     *)
GiveUpKeepsPort(t) ==
    /\ pc[t] = "giveup"
    /\ freed' = freed \cup {dial[t]}
    /\ Go(t, "leave")
    /\ UNCHANGED <<port, assigned, pool, lifeVars, mediaVars, registryVars,
                   setupVars, recvLock, peerVars, dialogVars, frameVars,
                   appVars, msgs>>

(* The except clause of call(): no object took the port over.              *)
GiveUp(t) ==
    /\ pc[t] = "giveup"
    /\ pool' = pool \ {port[dial[t]]}
    /\ freed' = freed \cup {dial[t]}
    /\ Go(t, "leave")
    /\ UNCHANGED <<port, assigned, lifeVars, mediaVars, registryVars, setupVars, recvLock,
                   peerVars, dialogVars, frameVars, appVars, msgs>>

(* The object is built as DIALING and becomes visible with _set_call.      *)
Create(t) ==
    /\ pc[t] = "create"
    /\ state' = [state EXCEPT ![dial[t]] = "DIALING"]
    /\ assigned' = [assigned EXCEPT ![dial[t]] = TRUE]
    /\ calls' = calls \cup {dial[t]}
    /\ Go(t, "leave")
    /\ UNCHANGED <<busy, finalized, mediaVars, port, freed, pool, ended, tag, setupVars,
                   recvLock, peerVars, dialogVars, frameVars, appVars, msgs>>

(* The finally clause of call(); an exception leaves call() here.          *)
LeaveCreation(t) ==
    /\ pc[t] = "leave"
    /\ depth' = depth - 1
    /\ IF state[dial[t]] = "NONE"
       THEN Go(t, "idle") /\ dial' = [dial EXCEPT ![t] = None]
       ELSE Go(t, "replay") /\ UNCHANGED dial
    /\ UNCHANGED <<lifeVars, mediaVars, portVars, registryVars, active, pending,
                   recvLock, peerVars, dialogVars, frameVars, tried, handed,
                   msgs>>

(* A 18x for a registered call; the state is tested and set under its lock. *)
Ring(c) == state' = [state EXCEPT ![c] = IF c \in calls /\ @ = "DIALING"
                                         THEN "RINGING" ELSE @]

(* pop_pending_invite_response, applied through callback().                *)
Replay(t) ==
    LET c == dial[t]
        r == pending[c]
    IN  /\ pc[t] = "replay"
        /\ pending' = [pending EXCEPT ![c] = Nothing]
        /\ CASE r.kind \in {"none", "ringing"} ->
                   /\ IF r.kind = "ringing" THEN Ring(c) ELSE UNCHANGED state
                   /\ Done(t, TRUE)
             [] r.kind = "ok" ->
                   Enter(t, "accepted", "find", c, r.seq) /\ Stay
                   /\ UNCHANGED state
             [] OTHER ->
                   Enter(t, "failed", "stale", c, r.seq) /\ Stay
                   /\ UNCHANGED state
        /\ UNCHANGED <<busy, finalized, mediaVars, portVars, registryVars,
                       depth, active, peerVars, dialogVars, msgs>>

----------------------------------------------------------------------------
(* A response read by the receive thread, or by a thread that waits for    *)
(* the response to another INVITE; parse_message notes its Call-ID.        *)

Reads(t) == \/ t = Recv /\ pc[t] = "idle" /\ recvLock = None
            \/ Awaits(t)

Locked(t) == recvLock' = t

Read(t) ==
    /\ Reads(t)
    /\ \E c \in Calls \ {dial[t]}, n \in Attempts, k \in Kinds :
          /\ Arrives(c, n, k)
          /\ active' = c
          /\ CASE k = "ringing" ->
                     /\ Ring(c)
                     /\ UNCHANGED <<recvLock, pc, frameVars>>
               [] k = "ok" ->
                     /\ Enter(t, "accepted", "find", c, n)
                     /\ Locked(t) /\ UNCHANGED state
               [] OTHER ->
                     /\ Enter(t, "failed", "stale", c, n)
                     /\ Locked(t) /\ UNCHANGED state
    /\ UNCHANGED <<busy, finalized, mediaVars, portVars, registryVars, depth,
                   pending, sent, dialogVars, appVars>>

(* A BYE of the peer, once its 2xx was ACKed; it matches a call whose      *)
(* remote tag is known.                                                    *)
ReadBye(t) ==
    /\ Reads(t)
    /\ "bye" \in Kinds /\ msgs < MaxMsgs
    /\ msgs' = msgs + 1
    /\ \E c \in calls \cap tag \cap remote \cap acked :
          /\ byed' = byed \cup {c}
          /\ Enter(t, "bye", IF state[c] = "ANSWERED" THEN "media" ELSE "fin",
                   c, 0)
    /\ Locked(t)
    /\ UNCHANGED <<lifeVars, mediaVars, portVars, registryVars, setupVars,
                   peerVars, acked, appVars>>

(* callback(): a failure of an earlier INVITE of a registered call.        *)
Stale(t) ==
    /\ pc[t] = "stale"
    /\ IF cur[t] \in calls /\ seq[t] # sent[cur[t]]
       THEN Done(t, TRUE)
       ELSE Go(t, "failed") /\ Stay /\ UNCHANGED frameVars
    /\ UNCHANGED <<lifeVars, mediaVars, portVars, registryVars, setupVars,
                   peerVars, dialogVars, msgs>>

(* _callback_RESP_Failed, _NotFound and _Unavailable look the call up anew. *)
Failed(t) ==
    /\ pc[t] = "failed"
    /\ Go(t, IF cur[t] \in calls THEN "late" ELSE "queue")
    /\ Stay
    /\ UNCHANGED <<lifeVars, mediaVars, portVars, registryVars, setupVars,
                   peerVars, dialogVars, frameVars, msgs>>

(* A failure that comes too late is ignored; the state is read unlocked.   *)
Late(t) ==
    /\ pc[t] = "late"
    /\ IF state[cur[t]] \in {"DIALING", "RINGING"}
       THEN Go(t, "media") /\ Stay /\ UNCHANGED frameVars
       ELSE Returned(t)
    /\ UNCHANGED <<lifeVars, mediaVars, portVars, registryVars, setupVars,
                   peerVars, dialogVars, msgs>>

(* _queue_unmatched_final_invite_response: the test under the lock ...     *)
Queue(t) ==
    /\ pc[t] = "queue"
    /\ IF depth > 0 /\ cur[t] \notin calls
       THEN /\ Go(t, "enqueue") /\ Stay
            /\ UNCHANGED <<frameVars, acked>>
       ELSE IF routine[t] = "accepted" THEN AckAndReturn(t)
            ELSE Returned(t) /\ UNCHANGED acked
    /\ UNCHANGED <<lifeVars, mediaVars, portVars, registryVars, setupVars,
                   peerVars, byed, msgs>>

(* ... and what follows it: the response is kept for call(), or only ACKed. *)
Enqueue(t) ==
    /\ pc[t] = "enqueue"
    /\ IF active = cur[t]
       THEN /\ pending' = [pending EXCEPT ![cur[t]] =
                              [kind |-> IF routine[t] = "accepted" THEN "ok"
                                        ELSE "reject",
                               seq |-> seq[t]]]
            /\ IF routine[t] = "accepted" THEN Ack(cur[t])
               ELSE UNCHANGED acked
            /\ Done(t, TRUE)
       ELSE /\ IF routine[t] = "accepted" THEN AckAndReturn(t)
               ELSE Returned(t) /\ UNCHANGED acked
            /\ UNCHANGED pending
    /\ UNCHANGED <<lifeVars, mediaVars, portVars, registryVars, depth, active,
                   peerVars, byed, msgs>>

----------------------------------------------------------------------------
(* A 2xx.                                                                  *)

Find(t) ==
    LET c == cur[t]
    IN  /\ pc[t] = "find"
        /\ IF c \in calls /\ seq[t] # sent[c]
           THEN AckAndReturn(t)
           ELSE /\ Go(t, IF c \in calls THEN "claim" ELSE "cached")
                /\ Stay /\ UNCHANGED <<frameVars, acked>>
        /\ UNCHANGED <<lifeVars, mediaVars, portVars, registryVars, setupVars,
                       peerVars, byed, msgs>>

(* No call, but a remembered one: the dialog is ended.                     *)
Cached(t) ==
    LET c == cur[t]
    IN  /\ pc[t] = "cached"
        /\ IF c \in ended /\ seq[t] = sent[c]
           THEN Ack(c) /\ Bye(c) /\ Done(t, TRUE)
           ELSE /\ Go(t, "queue") /\ Stay
                /\ UNCHANGED <<frameVars, dialogVars>>
        /\ UNCHANGED <<lifeVars, mediaVars, portVars, registryVars, setupVars,
                       peerVars, msgs>>

(* Mutant: _answer_in_progress is not tested.                              *)
ClaimAgain(t) ==
    LET c == cur[t]
    IN  /\ pc[t] = "claim"
        /\ state[c] \notin {"ENDED", "ANSWERED"}
        /\ busy' = [busy EXCEPT ![c] = TRUE]
        /\ Enter(t, "answer", "check", c, 0)
        /\ Stay
        /\ UNCHANGED <<state, finalized, mediaVars, portVars, registryVars,
                       setupVars, peerVars, dialogVars, msgs>>

(* The first 2xx claims the call; an ended call ends the dialog, any       *)
(* other 2xx is only ACKed.                                                *)
Claim(t) ==
    LET c == cur[t]
    IN  /\ pc[t] = "claim"
        /\ CASE state[c] = "ENDED" ->
                   /\ Enter(t, "orphan", "media", c, 0) /\ Stay
                   /\ UNCHANGED <<busy, acked>>
             [] state[c] = "ANSWERED" \/ (state[c] # "ENDED" /\ busy[c]) ->
                   AckAndReturn(t) /\ UNCHANGED busy
             [] OTHER ->
                   /\ busy' = [busy EXCEPT ![c] = TRUE]
                   /\ Enter(t, "answer", "check", c, 0) /\ Stay
                   /\ UNCHANGED acked
        /\ UNCHANGED <<state, finalized, mediaVars, portVars, registryVars,
                       setupVars, peerVars, byed, msgs>>

(* _apply_outbound_answer up to the clients: an SDP answer that cannot be  *)
(* used ends the call; answered() returns when the call is not waiting.    *)
Check(t) ==
    LET c == cur[t]
    IN  /\ pc[t] = "check"
        /\ \/ /\ "sdp" \in Faults
              /\ Enter(t, "unusable", "media", c, 0)
              /\ UNCHANGED remote
           \/ /\ IF state[c] \in {"DIALING", "RINGING"}
                 THEN remote' = remote \cup {c} /\ Go(t, "start")
                 ELSE UNCHANGED remote /\ Go(t, "ack")
              /\ UNCHANGED frameVars
        /\ Stay
        /\ UNCHANGED <<lifeVars, running, portVars, registryVars, setupVars,
                       peerVars, dialogVars, msgs>>

(* create_rtp_clients enters the port in assignedPorts; then start().      *)
Start(t) ==
    LET c == cur[t]
    IN  /\ pc[t] = "start"
        /\ assigned' = [assigned EXCEPT ![c] = TRUE]
        /\ \/ /\ running' = [running EXCEPT ![c] = TRUE]
              /\ Go(t, "commit")
              /\ UNCHANGED frameVars
           \/ /\ "bind" \in Faults
              /\ Enter(t, "unusable", "media", c, 0)
              /\ UNCHANGED running
        /\ Stay
        /\ UNCHANGED <<lifeVars, remote, port, freed, pool, registryVars,
                       setupVars, peerVars, dialogVars, msgs>>

(* Mutant: the state is not tested again.                                  *)
CommitUnchecked(t) ==
    /\ pc[t] = "commit"
    /\ state' = [state EXCEPT ![cur[t]] = "ANSWERED"]
    /\ Go(t, "ack")
    /\ Stay
    /\ UNCHANGED <<busy, finalized, mediaVars, portVars, registryVars,
                   setupVars, peerVars, dialogVars, frameVars, msgs>>

Commit(t) ==
    LET c == cur[t]
    IN  /\ pc[t] = "commit"
        /\ IF state[c] = "ENDED"
           THEN Enter(t, "unusable", "media", c, 0) /\ UNCHANGED state
           ELSE /\ state' = [state EXCEPT ![c] = "ANSWERED"]
                /\ Go(t, "ack") /\ UNCHANGED frameVars
        /\ Stay
        /\ UNCHANGED <<busy, finalized, mediaVars, portVars, registryVars,
                       setupVars, peerVars, dialogVars, msgs>>

(* A failure to ACK leaves _apply_outbound_answer as an exception.         *)
SendAck(t) ==
    /\ pc[t] = "ack"
    /\ \/ /\ acked' = acked \cup {cur[t]}
          /\ UNCHANGED routine
       \/ /\ "send" \in Faults
          /\ routine' = [routine EXCEPT ![t] = "raised"]
          /\ UNCHANGED acked
    /\ Go(t, "unflag")
    /\ Stay
    /\ UNCHANGED <<lifeVars, mediaVars, portVars, registryVars, setupVars,
                   peerVars, byed, cur, seq, msgs>>

(* The finally clause of _callback_RESP_OK.                                *)
Unflag(t) ==
    /\ pc[t] = "unflag"
    /\ busy' = [busy EXCEPT ![cur[t]] = FALSE]
    /\ Done(t, routine[t] # "raised")
    /\ UNCHANGED <<state, finalized, mediaVars, portVars, registryVars,
                   setupVars, peerVars, dialogVars, msgs>>

----------------------------------------------------------------------------
(* Application threads, on the calls they got from call().                 *)

Cancel(t, c) ==
    /\ t \in Apps /\ pc[t] = "idle" /\ c \in handed
    /\ state[c] \in {"DIALING", "RINGING"}
    /\ state' = [state EXCEPT ![c] = "ENDED"]
    /\ Enter(t, "cancel", "media", c, 0)
    /\ Stay
    /\ UNCHANGED <<busy, finalized, mediaVars, portVars, registryVars,
                   setupVars, peerVars, dialogVars, msgs>>

Hangup(t, c) ==
    /\ t \in Apps /\ pc[t] = "idle" /\ c \in handed
    /\ state[c] = "ANSWERED"
    /\ Enter(t, "hangup", "media", c, 0)
    /\ Stay
    /\ UNCHANGED <<lifeVars, mediaVars, portVars, registryVars, setupVars,
                   peerVars, dialogVars, msgs>>

----------------------------------------------------------------------------
(* The end of a call: RTP, BYE or CANCEL, ENDED, _finalize_ended_call.     *)

StopMedia(t) ==
    /\ pc[t] = "media"
    /\ running' = [running EXCEPT ![cur[t]] = FALSE]
    /\ Go(t, IF routine[t] = "hangup" THEN "sendbye" ELSE "ended")
    /\ Stay
    /\ UNCHANGED <<lifeVars, remote, portVars, registryVars, setupVars,
                   peerVars, dialogVars, frameVars, msgs>>

SendBye(t) ==
    /\ pc[t] = "sendbye"
    /\ Bye(cur[t])
    /\ Go(t, "ended")
    /\ Stay
    /\ UNCHANGED <<lifeVars, mediaVars, portVars, registryVars, setupVars,
                   peerVars, acked, frameVars, msgs>>

(* Mutant: a call is marked as ended and nothing finalizes it.             *)
SetEndedOnly(t) ==
    /\ pc[t] = "ended"
    /\ state' = [state EXCEPT ![cur[t]] = "ENDED"]
    /\ Done(t, TRUE)
    /\ UNCHANGED <<busy, finalized, mediaVars, portVars, registryVars,
                   setupVars, peerVars, dialogVars, msgs>>

(* _set_state(ENDED).  A CANCEL leaves before it and shows nowhere here.   *)
SetEnded(t) ==
    /\ pc[t] = "ended"
    /\ state' = [state EXCEPT ![cur[t]] = "ENDED"]
    /\ Go(t, "fin")
    /\ Stay
    /\ UNCHANGED <<busy, finalized, mediaVars, portVars, registryVars,
                   setupVars, peerVars, dialogVars, frameVars, msgs>>

(* Where a routine goes when the call is finalized.                        *)
Finalized(t) ==
    IF routine[t] \in {"orphan", "unusable"}
    THEN Go(t, "sendboth") /\ Stay /\ UNCHANGED frameVars
    ELSE Returned(t)

Finalize(t) ==
    /\ pc[t] = "fin"
    /\ finalized' = [finalized EXCEPT ![cur[t]] = TRUE]
    /\ IF finalized[cur[t]]
       THEN Finalized(t)
       ELSE Go(t, "remember") /\ Stay /\ UNCHANGED frameVars
    /\ UNCHANGED <<state, busy, mediaVars, portVars, registryVars, setupVars,
                   peerVars, dialogVars, msgs>>

(* Mutant: the INVITE of an ended call is not remembered.                  *)
Forget(t) ==
    /\ pc[t] = "remember"
    /\ Go(t, "release")
    /\ Stay
    /\ UNCHANGED <<lifeVars, mediaVars, portVars, registryVars, setupVars,
                   peerVars, dialogVars, frameVars, msgs>>

(* _remember_ended_outbound_invite                                         *)
Remember(t) ==
    /\ pc[t] = "remember"
    /\ ended' = ended \cup {cur[t]}
    /\ Go(t, "release")
    /\ Stay
    /\ UNCHANGED <<lifeVars, mediaVars, portVars, calls, tag, setupVars,
                   peerVars, dialogVars, frameVars, msgs>>

(* release_ports(call=self), the session id, assignedPorts.clear()         *)
Release(t) ==
    /\ pc[t] = "release"
    /\ pool' = pool \ {port[cur[t]]}
    /\ assigned' = [assigned EXCEPT ![cur[t]] = FALSE]
    /\ freed' = freed \cup {cur[t]}
    /\ Go(t, "remove")
    /\ Stay
    /\ UNCHANGED <<port, lifeVars, mediaVars, registryVars, setupVars, peerVars,
                   dialogVars, frameVars, msgs>>

(* _remove_call(call_id, expected=self)                                    *)
Remove(t) ==
    /\ pc[t] = "remove"
    /\ calls' = calls \ {cur[t]}
    /\ tag' = tag \ {cur[t]}
    /\ Finalized(t)
    /\ UNCHANGED <<lifeVars, mediaVars, portVars, ended, setupVars, peerVars,
                   dialogVars, msgs>>

(* _end_unusable_call ACKs and then sends BYE.                             *)
SendBoth(t) ==
    /\ pc[t] = "sendboth"
    /\ Ack(cur[t]) /\ Bye(cur[t])
    /\ IF routine[t] = "unusable"
       THEN Go(t, "unflag") /\ Stay /\ UNCHANGED frameVars
       ELSE Done(t, TRUE)
    /\ UNCHANGED <<lifeVars, mediaVars, portVars, registryVars, setupVars,
                   peerVars, msgs>>

(* Nobody refers to an ended call any more and it is deleted: __del__ takes *)
(* what assignedPorts still lists out of the pool.                         *)
Collect(c) ==
    /\ state[c] # "NONE" /\ c \notin calls /\ ~running[c]
    /\ \A t \in Threads : c \notin {cur[t], dial[t]}
    /\ assigned[c]
    /\ pool' = pool \ {port[c]}
    /\ assigned' = [assigned EXCEPT ![c] = FALSE]
    /\ handed' = handed \ {c}
    /\ UNCHANGED <<lifeVars, mediaVars, port, freed, registryVars, setupVars,
                   recvLock, peerVars, dialogVars, pc, frameVars, dial, tried,
                   msgs>>

----------------------------------------------------------------------------
Calling(t) == \/ RequestPort(t) \/ Reclaim(t) \/ PrepareInvite(t)
              \/ SendInvite(t) \/ TimedOut(t) \/ Abandon(t) \/ GiveUp(t)
              \/ Create(t) \/ LeaveCreation(t) \/ Replay(t)

Hearing(t) == \/ Progress(t) \/ Challenged(t) \/ Final(t) \/ Read(t)
              \/ ReadBye(t)

Handling(t) == \/ Stale(t) \/ Failed(t) \/ Late(t) \/ Queue(t) \/ Enqueue(t)
               \/ Find(t) \/ Cached(t) \/ Claim(t) \/ Check(t) \/ Start(t)
               \/ Commit(t) \/ SendAck(t) \/ Unflag(t)

Ending(t) == \/ StopMedia(t) \/ SendBye(t) \/ SetEnded(t) \/ Finalize(t)
             \/ Remember(t) \/ Release(t) \/ Remove(t) \/ SendBoth(t)

Step(t) == Calling(t) \/ Handling(t) \/ Ending(t)

Next == \/ \E t \in Threads : \/ Step(t) \/ Hearing(t)
                              \/ \E c \in Calls : \/ Dial(t, c) \/ Cancel(t, c)
                                                  \/ Hangup(t, c)
        \/ \E c \in Calls : Collect(c)

Spec == Init /\ [][Next]_vars

(* A thread inside an operation goes on; nobody has to start one, and no   *)
(* peer has to answer.                                                     *)
FairSpec == Spec /\ \A t \in Threads : WF_vars(Step(t))

----------------------------------------------------------------------------
Responses == [kind : {"none", "ringing", "ok", "reject"},
              seq : 0..(MaxRetries + 1)]
Labels == {"idle", "port", "invite", "acquire", "wait", "abandon", "giveup",
           "create", "leave", "replay", "stale", "failed", "late", "queue",
           "enqueue", "find", "cached", "claim", "check", "start", "commit",
           "ack", "unflag", "media", "sendbye", "ended", "fin", "remember",
           "release", "remove", "sendboth"}
Routines == {"none", "accepted", "failed", "answer", "raised", "unusable",
             "orphan", "bye", "cancel", "hangup", "reclaim"}

(* Every variable has its type.                                            *)
TypeOK ==
    /\ state \in [Calls -> {"NONE", "DIALING", "RINGING", "ANSWERED", "ENDED"}]
    /\ busy \in [Calls -> BOOLEAN] /\ finalized \in [Calls -> BOOLEAN]
    /\ running \in [Calls -> BOOLEAN] /\ remote \subseteq Calls
    /\ port \in [Calls -> Ports \cup {None}] /\ assigned \in [Calls -> BOOLEAN]
    /\ freed \subseteq Calls /\ pool \subseteq Ports
    /\ calls \subseteq Calls /\ ended \subseteq Calls /\ tag \subseteq Calls
    /\ depth \in Nat /\ active \in Calls \cup {None}
    /\ pending \in [Calls -> Responses]
    /\ recvLock \in Threads \cup {None}
    /\ sent \in [Calls -> 0..(MaxRetries + 1)]
    /\ answer \in [Calls -> [Attempts -> {"none", "ok", "challenge", "reject"}]]
    /\ acked \subseteq Calls /\ byed \subseteq Calls
    /\ pc \in [Threads -> Labels] /\ routine \in [Threads -> Routines]
    /\ cur \in [Threads -> Calls \cup {None}]
    /\ seq \in [Threads -> 0..(MaxRetries + 1)]
    /\ dial \in [Threads -> Calls \cup {None}]
    /\ tried \subseteq Calls /\ handed \subseteq Calls
    /\ msgs \in 0..MaxMsgs

Holds(c) == IF c \in freed THEN None ELSE port[c]
Busy(c) == \E t \in Threads : cur[t] = c       \* a handler works on the call
Placing(c) == \E t \in Threads : dial[t] = c   \* call() has not returned

(* Two 2xx of one call, one read by the receive thread and one replayed by *)
(* call(), never set up media at the same time (_answer_in_progress).      *)
AnswerExclusive ==
    \A t, u \in Threads :
        /\ {pc[t], pc[u]} \subseteq {"check", "start", "commit", "ack", "unflag"}
        /\ cur[t] = cur[u]
        => t = u

(* A call() that failed leaves no port and no dialog tag behind.           *)
FailedCallLeavesNothing ==
    \A c \in tried : state[c] = "NONE" /\ ~Placing(c) =>
        Holds(c) = None /\ c \notin tag

(* A 2xx finds its call or, from the moment the call leaves the registry,  *)
(* the remembered INVITE: the dialog it creates can always be ended.       *)
LateAnswerRecognised ==
    \A c \in Calls : state[c] # "NONE" => c \in calls \cup ended

(* Ports reserved by different calls differ, and no other port is taken.   *)
HeldPortsReserved ==
    /\ pool = {Holds(c) : c \in Calls} \ {None}
    /\ \A c, d \in Calls : Holds(c) # None /\ Holds(c) = Holds(d) => c = d

(* Every repeated INVITE was asked for: a duplicate of an earlier 401 or   *)
(* 407 does not make invite() send another.                                *)
ChallengesMatchRetries ==
    \A c \in Calls : \A n \in 1..(sent[c] - 1) : answer[c][n] = "challenge"

Lifecycle == INSTANCE CallLifecycle WITH
    phase <- [c \in Calls |-> IF state[c] = "DIALING" THEN "RINGING"
                              ELSE state[c]],
    holds <- [c \in Calls |-> IF state[c] = "NONE" THEN None ELSE Holds(c)]

(* The phases and ports of outgoing calls are those of CallLifecycle.      *)
ImplementsLifecycle == Lifecycle!Spec

(* An ended call gives back everything in the end.                         *)
EndedIsReleased ==
    \A c \in Calls : state[c] = "ENDED" ~>
        ~running[c] /\ c \in freed /\ c \notin calls \cup tag

(* call() comes back once it has its port: the INVITE is answered or times *)
(* out, and whatever was queued for it is applied.                         *)
CallReturns ==
    \A t \in Apps : pc[t] = "invite" ~> dial[t] = None

----------------------------------------------------------------------------
(* The inductive invariant of OutboundCallProofs.                          *)

\* Where call() has no object yet, where it has one, and inside a handler.
SetupLabels == {"port", "invite", "acquire", "wait", "abandon", "giveup",
                "create"}
CallLabels == SetupLabels \cup {"leave", "replay"}
HandlerLabels == Labels \ (CallLabels \cup {"idle"})
\* Handlers that have found the object of their call.
ObjectLabels == HandlerLabels \ {"stale", "failed", "queue", "enqueue",
                                 "find", "cached"}
AnswerLabels == {"check", "start", "commit", "ack", "unflag"}
UnusableLabels == {"media", "ended", "fin", "remember", "release", "remove",
                   "sendboth", "unflag"}

(* A handler works on a call that exists, and remembers it before it       *)
(* releases it.                                                            *)
FrameInv(t) ==
    /\ pc[t] \notin HandlerLabels => cur[t] = None /\ routine[t] = "none"
    /\ pc[t] \in HandlerLabels => cur[t] \in Calls
    /\ pc[t] \in ObjectLabels => state[cur[t]] # "NONE"
    /\ pc[t] \in {"release", "remove"} => cur[t] \in ended
    /\ routine[t] = "unusable" => pc[t] \in UnusableLabels
    /\ routine[t] = "reclaim" => pc[t] \in {"fin", "remember", "release",
                                            "remove"}

(* Who waits for its INVITE, or reads for others meanwhile, has the lock.  *)
LockInv(t) ==
    /\ pc[t] = "wait" => recvLock = t
    /\ t = Recv /\ pc[t] \in HandlerLabels => recvLock = t
    /\ recvLock = t => /\ pc[t] \in HandlerLabels \cup {"wait"}
                       /\ routine[t] # "reclaim"
                       /\ t = Recv \/ dial[t] # None

(* call() is still before _set_call: it runs itself, waits for a port, or   *)
(* handles what it read for others.                                        *)
InSetup(t) == \/ pc[t] \in SetupLabels
              \/ pc[t] \in HandlerLabels
                    /\ (routine[t] = "reclaim" \/ recvLock = t)

(* A Call-ID belongs to one call(), which knows whether there is an object. *)
DialInv(t) ==
    /\ pc[t] \in CallLabels \/ routine[t] = "reclaim" => dial[t] # None
    /\ pc[t] = "idle" => dial[t] = None
    /\ t = Recv => dial[t] = None
    /\ dial[t] # None =>
          /\ dial[t] \in tried
          /\ \A u \in Threads : dial[u] = dial[t] => u = t
          /\ InSetup(t) => state[dial[t]] = "NONE"
          /\ ~InSetup(t) /\ pc[t] # "leave" => state[dial[t]] # "NONE"
    /\ pc[t] = "giveup" => dial[t] \notin tag
    /\ pc[t] = "leave" /\ state[dial[t]] = "NONE" =>
          dial[t] \in freed /\ dial[t] \notin tag

(* _outbound_call_creation_depth counts the calls without an object.       *)
Creating(t) == dial[t] # None /\ (InSetup(t) \/ pc[t] = "leave")
Creators == {t \in Threads : Creating(t)}
DepthInv == IsFiniteSet(Creators) /\ depth = Cardinality(Creators)

(* A thread that answers has raised the flag of its call.                  *)
Answering(t) == pc[t] \in AnswerLabels \/ routine[t] = "unusable"
AnswerInv ==
    /\ \A t \in Threads : Answering(t) => busy[cur[t]]
    /\ \A t, u \in Threads :
          Answering(t) /\ Answering(u) /\ cur[t] = cur[u] => t = u

RegistryInv ==
    /\ \A c \in calls : state[c] # "NONE"
    /\ \A c \in Calls : state[c] # "NONE" => c \in tried
    /\ LateAnswerRecognised
    /\ FailedCallLeavesNothing

IInv == /\ TypeOK
        /\ \A t \in Threads : FrameInv(t) /\ LockInv(t) /\ DialInv(t)
        /\ DepthInv
        /\ AnswerInv
        /\ RegistryInv
        /\ ChallengesMatchRetries

----------------------------------------------------------------------------
(* The inductive invariant of HeldPortsReserved (see OutboundCallProofs).   *)

\* Who gives back the port of an ended call; where call() has no port yet.
Releasing(t) == pc[t] \in {"remember", "release"}
Portless(t) == pc[t] = "port" \/ routine[t] = "reclaim"

UntriedPort(c) == c \notin tried => port[c] = None /\ c \notin freed

(* An object has a port, which is back before it leaves the registry.      *)
ObjectPort(c) == state[c] # "NONE" => /\ port[c] # None
                                      /\ c \in freed => finalized[c]
                                      /\ c \in calls \cup freed

(* call() gives its port back only when it fails.                          *)
SetupPort(t) == dial[t] # None /\ InSetup(t) =>
                    /\ dial[t] \notin freed
                    /\ port[dial[t]] = None <=> Portless(t)

(* The one thread that set _finalized gives back the port of an object.    *)
ReleaseInv ==
    /\ \A t \in Threads : Releasing(t) =>
          finalized[cur[t]] /\ cur[t] \notin freed
    /\ \A t, u \in Threads :
          Releasing(t) /\ Releasing(u) /\ cur[t] = cur[u] => t = u
    /\ \A t \in Threads : pc[t] = "remove" => cur[t] \in freed

PortInv == /\ HeldPortsReserved
           /\ \A c \in Calls : UntriedPort(c) /\ ObjectPort(c)
           /\ \A t \in Threads : SetupPort(t)
           /\ ReleaseInv

(* assignedPorts of a call that gave its port back stays empty; broken by  *)
(* a 2xx whose create_rtp_clients runs after cancel() finalized the call.  *)
NoneRefilled == \A c \in freed : ~assigned[c]

(* Without a 2xx no thread sets up media: nothing refills assignedPorts.   *)
NoMediaInv ==
    /\ \A t \in Threads : /\ routine[t] # "accepted"
                           /\ pc[t] \notin {"find", "cached", "claim", "check",
                                            "start"}
    /\ \A c \in Calls : pending[c].kind # "ok"
    /\ \A c \in Calls : assigned[c] => c \notin freed /\ state[c] # "NONE"

----------------------------------------------------------------------------
(* Stated by the repository, and violated: see README.md.                  *)

(* "Queue it so VoIPPhone.call() can apply it immediately after the call   *)
(* object exists": an ACKed 2xx decides the call it belongs to.            *)
NoAnswerLost ==
    \A c \in acked : c \in handed /\ ~Busy(c) =>
        state[c] \in {"ANSWERED", "ENDED"}

(* "The resulting dialog must be ended even though the local call is       *)
(* already gone": an ended call leaves no dialog the peer believes in.     *)
OrphanEnded ==
    \A c \in acked : state[c] = "ENDED" /\ ~Busy(c) => c \in byed

(* "ignore stale failures from earlier INVITE authentication attempts": a  *)
(* failure ends a call only if it answers the last INVITE.                 *)
StaleFailureIgnored ==
    \A t \in Threads : routine[t] = "failed" /\ pc[t] \in {"media", "ended"} =>
        seq[t] = sent[cur[t]]

(* "Prevent delayed __del__ cleanup from releasing a port that has already *)
(* been returned to the pool": a reserved port stays in the pool's list.   *)
PortNotStolen == \A c \in Calls : Holds(c) # None => Holds(c) \in pool

(* "ANSWERED: Call is active": an answered call the peer has hung up on is *)
(* still known to the phone only while it is being ended.                  *)
AnsweredIsRegistered ==
    \A c \in Calls : state[c] = "ANSWERED" /\ ~Busy(c) => c \in calls
=============================================================================
