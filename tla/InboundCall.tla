---------------------------- MODULE InboundCall ----------------------------
(***************************************************************************)
(* An incoming call from the INVITE to the release of its resources        *)
(* (rfcvoip/VoIP/VoIP.py).  The SIP receive thread handles INVITE, CANCEL  *)
(* and BYE of the peer; application threads answer, deny and hang up the   *)
(* calls handed to them and may stop the whole phone.  They meet in the    *)
(* call object (its _state_lock), in the phone's registry of calls and     *)
(* cache of INVITE responses (_call_state_lock) and in the port pool       *)
(* (portsLock).  A step of the model is what the code does between two     *)
(* points at which another thread can be observed: one locked section, one *)
(* unlocked read or write, one message sent.                               *)
(*                                                                         *)
(* One call uses one media section with one connection, so one port.       *)
(* A tag of tagLibrary is named by the call it is generated for.           *)
(***************************************************************************)
EXTENDS Naturals, FiniteSets

CONSTANTS
    Apps,      \* application threads
    Recv,      \* the SIP receive thread
    Calls,     \* VoIPCall objects
    Invites,   \* INVITE transactions of peers, one Call-ID each
    Ports,     \* rtpPortLow..rtpPortHigh
    None,
    Faults,    \* operations that may fail: "send", "bind", "thread"
    MaxMsgs    \* bound: how many requests the peers send

ASSUME ConstantsAssumption ==
    /\ Recv \notin Apps
    /\ None \notin Calls \cup Invites \cup Ports
    /\ Faults \subseteq {"send", "bind", "thread"}
    /\ MaxMsgs \in Nat

VARIABLES
    \* one VoIPCall
    state,       \* CallState, "NONE" before the object is built
    answering,   \* _answer_in_progress
    initial,     \* _initial_invite_response: 0 (None) or 200
    finalized,   \* _finalized
    inv,         \* the transaction of the call's request
    inPort,      \* inPort of its RTPClient
    assigned,    \* assignedPorts is not yet cleared
    running,     \* NSD of its RTPClient
    cb,          \* its callback thread: none, started, running, done, reaped
    handed,      \* history: the callback was called with this object
    sent,        \* final responses sent for its request
    \* the phone
    calls,       \* calls[i]: registered call of transaction i
    tag,         \* sip.tagLibrary
    cache,       \* _invite_response_cache: remembered final code, 0 if none
    pool,        \* assignedPorts of the phone
    sessions,    \* session_ids, each named by the call it is drawn for
    \* threads
    pc, routine, cur, code,
    todo,        \* calls a loop has still to visit
    stopping,    \* the thread is inside phone.stop()
    snap,        \* the snapshot phone.stop() works on
    req,         \* transaction of the message the receive thread handles
    building,    \* call object the receive thread constructs
    msgs         \* requests received so far

lifeVars == <<state, answering, initial, finalized>>
mediaVars == <<inv, inPort, assigned, running>>
frontVars == <<cb, handed, sent>>
registryVars == <<calls, tag, cache>>
poolVars == <<pool, sessions>>
frameVars == <<routine, cur, code>>
loopVars == <<todo, stopping, snap>>
recvVars == <<req, building, msgs>>
vars == <<lifeVars, mediaVars, frontVars, registryVars, poolVars, pc,
          frameVars, loopVars, recvVars>>

Threads == Apps \cup {Recv}
States == {"NONE", "RINGING", "ANSWERED", "ENDED"}
Codes == {0, 180, 200, 481, 486, 487, 488, 500}
Routines == {"none", "answer", "abort", "deny", "hangup", "force", "finish",
             "cancelled", "bye", "undispatched", "lost", "ringing", "reply",
             "replay", "refuse", "reclaim"}
Labels == {"idle", "prepare", "commit", "unflag", "check", "keep",
           "remember", "send", "sendbye", "media", "ended", "fin", "release",
           "remove", "force", "next", "hangup", "read2", "read3", "deny",
           "stopped", "lookup", "retrans", "ring", "allocate", "reclaim",
           "reallocate", "register", "dispatch", "undispatch",
           "discard", "fail", "cancel", "bye"}

Init ==
    /\ state = [c \in Calls |-> "NONE"]
    /\ answering = [c \in Calls |-> FALSE]
    /\ initial = [c \in Calls |-> 0]
    /\ finalized = [c \in Calls |-> FALSE]
    /\ inv = [c \in Calls |-> None]
    /\ inPort = [c \in Calls |-> None]
    /\ assigned = [c \in Calls |-> FALSE]
    /\ running = [c \in Calls |-> FALSE]
    /\ cb = [c \in Calls |-> "none"]
    /\ handed = [c \in Calls |-> FALSE]
    /\ sent = [c \in Calls |-> {}]
    /\ calls = [i \in Invites |-> None]
    /\ tag = [i \in Invites |-> None]
    /\ cache = [i \in Invites |-> 0]
    /\ pool = {}
    /\ sessions = {}
    /\ pc = [t \in Threads |-> "idle"]
    /\ routine = [t \in Threads |-> "none"]
    /\ cur = [t \in Threads |-> None]
    /\ code = [t \in Threads |-> 0]
    /\ todo = [t \in Threads |-> {}]
    /\ stopping = [t \in Threads |-> FALSE]
    /\ snap = [t \in Threads |-> {}]
    /\ req = None
    /\ building = None
    /\ msgs = 0

----------------------------------------------------------------------------
(* Control.  A thread runs one routine at a time; After is the step that   *)
(* follows label l in the text of routine r when nothing is raised.        *)

Reject(k) == k >= 300

(* What follows the last step of a routine.                                *)
Tail(r, k, stop) ==
    CASE r = "abort" -> "unflag"
      [] r = "undispatched" -> "fail"
      [] r = "reclaim" -> "reclaim"
      [] r = "deny" /\ stop /\ k = 0 -> "force"     \* deny() raised
      [] OTHER -> IF stop THEN "next" ELSE "idle"

After(r, l, k, stop) ==
    CASE l = "remember" /\ Reject(k) -> "send"
      [] l = "remember" /\ ~Reject(k) /\ r = "answer" -> "unflag"
      [] l = "send" /\ r = "answer" -> "remember"
      [] l = "send" /\ r = "deny" -> "media"
      [] l = "send" /\ r = "cancelled" -> "ended"
      [] l = "send" /\ r = "undispatched" -> "fin"
      [] l = "send" /\ r = "lost" -> "fail"
      [] l = "send" /\ r = "ringing" -> "allocate"
      [] l = "send" /\ r = "refuse" -> "discard"
      [] l = "send" /\ r = "reply" /\ k = 200 -> "remember"
      [] l = "media" /\ r = "hangup" -> "sendbye"
      [] l = "media" /\ r = "cancelled" -> "remember"
      [] l = "media" /\ r \notin {"hangup", "cancelled"} -> "ended"
      [] l = "sendbye" -> "ended"
      [] l = "ended" /\ r = "undispatched" -> "remember"
      [] l = "ended" /\ r # "undispatched" -> "fin"
      [] l = "fin" -> "release"
      [] l = "release" -> "remove"
      [] OTHER -> Tail(r, k, stop)

Go(t, l) == pc' = [pc EXCEPT ![t] = l]

(* Thread t goes on at label l of routine r, on call c, with response k.   *)
Enter(t, r, c, l, k) ==
    /\ Go(t, l)
    /\ routine' = [routine EXCEPT ![t] = r]
    /\ cur' = [cur EXCEPT ![t] = c]
    /\ code' = [code EXCEPT ![t] = k]

(* Outside a routine, its frame is gone.                                   *)
Reach(t, l) == IF l \in {"idle", "next", "reclaim"}
               THEN Enter(t, "none", None, l, 0)
               ELSE Go(t, l) /\ UNCHANGED frameVars

Advance(t) == Reach(t, After(routine[t], pc[t], code[t], stopping[t]))

(* The transaction thread t responds to.                                   *)
Key(t) == IF t = Recv THEN req ELSE inv[cur[t]]

----------------------------------------------------------------------------
(* Steps shared by the routines that end a call.                           *)

(* _stop_rtp_clients *)
StopMedia(t) ==
    /\ pc[t] = "media"
    /\ running' = [running EXCEPT ![cur[t]] = FALSE]
    /\ Advance(t)
    /\ UNCHANGED <<lifeVars, inv, inPort, assigned, frontVars, registryVars,
                   poolVars, loopVars, recvVars>>

(* Mutant: a call is marked as ended and nothing finalizes it.             *)
SetEndedOnly(t) ==
    /\ pc[t] = "ended"
    /\ state' = [state EXCEPT ![cur[t]] = "ENDED"]
    /\ Reach(t, Tail(routine[t], code[t], stopping[t]))
    /\ UNCHANGED <<answering, initial, finalized, mediaVars, frontVars,
                   registryVars, poolVars, loopVars, recvVars>>

(* _set_state(CallState.ENDED) *)
SetEnded(t) ==
    /\ pc[t] = "ended"
    /\ state' = [state EXCEPT ![cur[t]] = "ENDED"]
    /\ Advance(t)
    /\ UNCHANGED <<answering, initial, finalized, mediaVars, frontVars,
                   registryVars, poolVars, loopVars, recvVars>>

(* _finalize_ended_call runs once: later callers find _finalized set.      *)
Finalize(t) ==
    /\ pc[t] = "fin"
    /\ finalized' = [finalized EXCEPT ![cur[t]] = TRUE]
    /\ IF finalized[cur[t]]
       THEN Reach(t, Tail(routine[t], code[t], stopping[t]))
       ELSE Advance(t)
    /\ UNCHANGED <<state, answering, initial, mediaVars, frontVars,
                   registryVars, poolVars, loopVars, recvVars>>

(* _cleanup_dead_calls_locked: an ended call leaves the registry when a    *)
(* callback thread of its Call-ID has returned.                            *)
DeadInvites == {inv[c] : c \in {d \in Calls : cb[d] = "done"}}
CleanupDead ==
    /\ calls' = [i \in Invites |->
                    IF /\ i \in DeadInvites
                       /\ calls[i] # None
                       /\ state[calls[i]] = "ENDED"
                    THEN None ELSE calls[i]]
    /\ cb' = [c \in Calls |-> IF cb[c] = "done" THEN "reaped" ELSE cb[c]]

(* Mutant: assignedPorts.clear() is missing.                               *)
ReleaseWithoutClear(t) ==
    /\ pc[t] = "release"
    /\ CleanupDead
    /\ pool' = IF assigned[cur[t]] THEN pool \ {inPort[cur[t]]} ELSE pool
    /\ sessions' = sessions \ {cur[t]}
    /\ Advance(t)
    /\ UNCHANGED <<lifeVars, inv, inPort, assigned, running, handed, sent, tag,
                   cache, loopVars, recvVars>>

(* release_ports(call=self), the session id, assignedPorts.clear(): only   *)
(* the thread that set _finalized gets here, so nobody reads assignedPorts *)
(* between the first and the last of them.                                 *)
Release(t) ==
    /\ pc[t] = "release"
    /\ CleanupDead
    /\ pool' = IF assigned[cur[t]] THEN pool \ {inPort[cur[t]]} ELSE pool
    /\ sessions' = sessions \ {cur[t]}
    /\ assigned' = [assigned EXCEPT ![cur[t]] = FALSE]
    /\ Advance(t)
    /\ UNCHANGED <<lifeVars, inv, inPort, running, handed, sent, tag, cache,
                   loopVars, recvVars>>

(* Mutant: the tag of the Call-ID goes, whoever's it is.                   *)
RemoveAnyTag(t) ==
    /\ pc[t] = "remove"
    /\ LET i == inv[cur[t]]
       IN  /\ calls' = IF calls[i] = cur[t] THEN [calls EXCEPT ![i] = None]
                       ELSE calls
           /\ tag' = [tag EXCEPT ![i] = None]
    /\ Advance(t)
    /\ UNCHANGED <<lifeVars, mediaVars, frontVars, cache, poolVars,
                   loopVars, recvVars>>

(* _remove_call(call_id, expected=self); a call that was registered also   *)
(* takes its dialog tag along, unless a newer call owns the tag.           *)
Remove(t) ==
    /\ pc[t] = "remove"
    /\ LET c == cur[t]
           i == inv[c]
       IN  IF calls[i] \in {None, c}
           THEN /\ calls' = [calls EXCEPT ![i] = None]
                /\ tag' = IF tag[i] = c THEN [tag EXCEPT ![i] = None] ELSE tag
           ELSE UNCHANGED <<calls, tag>>
    /\ Advance(t)
    /\ UNCHANGED <<lifeVars, mediaVars, frontVars, cache, poolVars,
                   loopVars, recvVars>>

(* _remember_invite_response, inside _send_invite_response *)
Remember(t) ==
    /\ pc[t] = "remember"
    /\ cache' = [cache EXCEPT ![Key(t)] = code[t]]
    /\ Advance(t)
    /\ UNCHANGED <<lifeVars, mediaVars, frontVars, calls, tag, poolVars,
                   loopVars, recvVars>>

(* The request object whose final response is being sent.                  *)
Requested(t) == IF routine[t] \in {"lost", "refuse"} THEN building ELSE cur[t]

(* sip.send_response.  Where a failure goes depends on the caller: answer  *)
(* aborts the call, deny and the CANCEL handler run their finally clause,  *)
(* the INVITE handler lets it out to parse_message.                        *)
Send(t) ==
    /\ pc[t] = "send"
    /\ \/ /\ Advance(t)
          /\ sent' = IF /\ routine[t] \notin {"reply", "replay"}
                        /\ code[t] >= 200
                     THEN [sent EXCEPT ![Requested(t)] = @ \cup {code[t]}]
                     ELSE sent
       \/ /\ "send" \in Faults
          /\ CASE routine[t] = "answer" -> Enter(t, "abort", cur[t], "check", 0)
               [] routine[t] = "deny" -> Enter(t, "deny", cur[t], "media", 0)
               [] routine[t] \in {"ringing", "refuse"} ->
                      Enter(t, "none", None, "discard", 0)
               [] routine[t] \in {"reply", "replay"} ->
                      Enter(t, "reply", cur[t], "fail", 0)
               [] OTHER -> Advance(t)
          /\ UNCHANGED sent
    /\ UNCHANGED <<lifeVars, mediaVars, cb, handed, registryVars, poolVars,
                   loopVars, recvVars>>

(* sip.bye: hangup() swallows a failure, so it shows nowhere.              *)
SendBye(t) ==
    /\ pc[t] = "sendbye"
    /\ Advance(t)
    /\ UNCHANGED <<lifeVars, mediaVars, frontVars, registryVars, poolVars,
                   loopVars, recvVars>>

Ending(t) == \/ StopMedia(t) \/ SetEnded(t) \/ Finalize(t) \/ Release(t)
             \/ Remove(t) \/ Remember(t) \/ Send(t) \/ SendBye(t)

----------------------------------------------------------------------------
(* Application threads: answer(), deny() and hangup() on a call object the *)
(* callback was given.  A call that raises InvalidStateError before it     *)
(* changed anything is a stuttering step and is left out.                  *)

Idle(t) == pc[t] = "idle"

(* Mutant: _answer_in_progress is not tested.                              *)
AnswerAgain(t, c) ==
    /\ Idle(t) /\ handed[c]
    /\ state[c] = "RINGING"
    /\ answering' = [answering EXCEPT ![c] = TRUE]
    /\ Enter(t, "answer", c, "prepare", 0)
    /\ UNCHANGED <<state, initial, finalized, mediaVars, frontVars,
                   registryVars, poolVars, loopVars, recvVars>>

(* answer(), first locked section *)
Answer(t, c) ==
    /\ Idle(t) /\ handed[c]
    /\ state[c] = "RINGING"
    /\ ~answering[c]
    /\ answering' = [answering EXCEPT ![c] = TRUE]
    /\ Enter(t, "answer", c, "prepare", 0)
    /\ UNCHANGED <<state, initial, finalized, mediaVars, frontVars,
                   registryVars, poolVars, loopVars, recvVars>>

(* Everything raised inside answer() goes through its except clause.       *)
Abort(t) == Enter(t, "abort", cur[t], "check", 0)

(* gen_ms() starts the RTP client, which binds its port.                   *)
PortBusy(c) == \E d \in Calls : running[d] /\ inPort[d] = inPort[c]

Prepare(t) ==
    /\ pc[t] = "prepare"
    /\ LET c == cur[t]
       IN  \/ /\ ~PortBusy(c)
              /\ running' = [running EXCEPT ![c] = TRUE]
              /\ Go(t, "commit")
              /\ UNCHANGED frameVars
           \/ /\ PortBusy(c) \/ "bind" \in Faults
              /\ Abort(t)
              /\ UNCHANGED running
    /\ UNCHANGED <<lifeVars, inv, inPort, assigned, frontVars, registryVars,
                   poolVars, loopVars, recvVars>>

(* Mutant: the state is not read again under the lock.                     *)
CommitUnchecked(t) ==
    /\ pc[t] = "commit"
    /\ state' = [state EXCEPT ![cur[t]] = "ANSWERED"]
    /\ initial' = [initial EXCEPT ![cur[t]] = 200]
    /\ Enter(t, "answer", cur[t], "send", 200)
    /\ UNCHANGED <<answering, finalized, mediaVars, frontVars, registryVars,
                   poolVars, loopVars, recvVars>>

(* answer(), second locked section: the final response is decided here     *)
Commit(t) ==
    /\ pc[t] = "commit"
    /\ LET c == cur[t]
       IN  IF state[c] = "RINGING"
           THEN /\ state' = [state EXCEPT ![c] = "ANSWERED"]
                /\ initial' = [initial EXCEPT ![c] = 200]
                /\ Enter(t, "answer", c, "send", 200)
           ELSE Abort(t) /\ UNCHANGED <<state, initial>>
    /\ UNCHANGED <<answering, finalized, mediaVars, frontVars, registryVars,
                   poolVars, loopVars, recvVars>>

(* except clause: is a final response cached already?                      *)
Check(t) ==
    /\ pc[t] = "check"
    /\ Go(t, IF cache[inv[cur[t]]] = 0 THEN "keep" ELSE "media")
    /\ UNCHANGED <<lifeVars, mediaVars, frontVars, registryVars, poolVars,
                   frameVars, loopVars, recvVars>>

(* ... if it was not, remember a 500 for a retransmission                  *)
Keep(t) ==
    /\ pc[t] = "keep"
    /\ cache' = [cache EXCEPT ![inv[cur[t]]] = 500]
    /\ Go(t, "media")
    /\ UNCHANGED <<lifeVars, mediaVars, frontVars, calls, tag, poolVars,
                   frameVars, loopVars, recvVars>>

(* finally clause *)
Unflag(t) ==
    /\ pc[t] = "unflag"
    /\ answering' = [answering EXCEPT ![cur[t]] = FALSE]
    /\ Enter(t, "none", None, "idle", 0)
    /\ UNCHANGED <<state, initial, finalized, mediaVars, frontVars,
                   registryVars, poolVars, loopVars, recvVars>>

(* Mutant: the rejection is sent without being remembered.                 *)
DeclineUnremembered(t, c) ==
    /\ state[c] = "RINGING"
    /\ state' = [state EXCEPT ![c] = "ENDED"]
    /\ Enter(t, "deny", c, "send", 486)
    /\ UNCHANGED <<answering, initial, finalized, mediaVars, frontVars,
                   registryVars, poolVars, loopVars, recvVars>>

(* deny(), locked section *)
Decline(t, c) ==
    /\ state[c] = "RINGING"
    /\ state' = [state EXCEPT ![c] = "ENDED"]
    /\ Enter(t, "deny", c, "remember", 486)
    /\ UNCHANGED <<answering, initial, finalized, mediaVars, frontVars,
                   registryVars, poolVars, loopVars, recvVars>>

Deny(t, c) == Idle(t) /\ handed[c] /\ Decline(t, c)

(* hangup(): the state is read without the lock *)
HangupGuarded(t, c) ==
    /\ state[c] = "ANSWERED"
    /\ Enter(t, "hangup", c, "media", 0)
    /\ UNCHANGED <<lifeVars, mediaVars, frontVars, registryVars, poolVars,
                   loopVars, recvVars>>

Hangup(t, c) == Idle(t) /\ handed[c] /\ HangupGuarded(t, c)

----------------------------------------------------------------------------
(* phone.stop(): for every call of a snapshot of the registry, three       *)
(* unlocked reads of its state choose what to do.                          *)

RegisteredCalls == {calls[i] : i \in Invites} \ {None}

Stop(t) ==
    /\ Idle(t)
    /\ stopping' = [stopping EXCEPT ![t] = TRUE]
    /\ snap' = [snap EXCEPT ![t] = RegisteredCalls]
    /\ todo' = [todo EXCEPT ![t] = RegisteredCalls]
    /\ Go(t, "next")
    /\ UNCHANGED <<lifeVars, mediaVars, frontVars, registryVars, poolVars,
                   frameVars, recvVars>>

(* First read: ANSWERED, or something else.                                *)
StopNext(t) ==
    /\ pc[t] = "next"
    /\ \/ /\ todo[t] = {}
          /\ Enter(t, "none", None, "stopped", 0)
          /\ UNCHANGED todo
       \/ \E c \in todo[t] :
            /\ todo' = [todo EXCEPT ![t] = @ \ {c}]
            /\ Enter(t, "finish", c,
                     IF state[c] = "ANSWERED" THEN "hangup" ELSE "read2", 0)
    /\ UNCHANGED <<lifeVars, mediaVars, frontVars, registryVars, poolVars,
                   stopping, snap, recvVars>>

(* Second read: DIALING or RINGING; anything else is only finalized.       *)
StopRead2(t) ==
    /\ pc[t] = "read2"
    /\ Go(t, IF state[cur[t]] = "RINGING" THEN "read3" ELSE "fin")
    /\ UNCHANGED <<lifeVars, mediaVars, frontVars, registryVars, poolVars,
                   frameVars, loopVars, recvVars>>

(* Third read: deny a ringing call; cancel() of any other inbound call     *)
(* finds it neither dialing nor ringing and raises.                        *)
StopRead3(t) ==
    /\ pc[t] = "read3"
    /\ Go(t, IF state[cur[t]] = "RINGING" THEN "deny" ELSE "force")
    /\ UNCHANGED <<lifeVars, mediaVars, frontVars, registryVars, poolVars,
                   frameVars, loopVars, recvVars>>

Invalid(t) ==
    /\ Go(t, "force")
    /\ UNCHANGED <<lifeVars, mediaVars, frontVars, registryVars, poolVars,
                   frameVars, loopVars, recvVars>>

StopHangup(t) ==
    /\ pc[t] = "hangup"
    /\ \/ HangupGuarded(t, cur[t])
       \/ state[cur[t]] # "ANSWERED" /\ Invalid(t)

StopDeny(t) ==
    /\ pc[t] = "deny"
    /\ \/ Decline(t, cur[t])
       \/ state[cur[t]] # "RINGING" /\ Invalid(t)

(* The except clauses: stop media, then set ENDED and finalize.            *)
StopForce(t) ==
    /\ pc[t] = "force"
    /\ running' = [running EXCEPT ![cur[t]] = FALSE]
    /\ Enter(t, "force", cur[t], "ended", 0)
    /\ UNCHANGED <<lifeVars, inv, inPort, assigned, frontVars, registryVars,
                   poolVars, loopVars, recvVars>>

(* stop() goes on with the SIP client and returns.                         *)
StopReturn(t) ==
    /\ pc[t] = "stopped"
    /\ Go(t, "idle")
    /\ stopping' = [stopping EXCEPT ![t] = FALSE]
    /\ snap' = [snap EXCEPT ![t] = {}]
    /\ UNCHANGED <<lifeVars, mediaVars, frontVars, registryVars, poolVars,
                   frameVars, todo, recvVars>>

AppStep(t) ==
    \/ Prepare(t) \/ Commit(t) \/ Check(t) \/ Keep(t) \/ Unflag(t)
    \/ StopNext(t) \/ StopRead2(t) \/ StopRead3(t) \/ StopHangup(t)
    \/ StopDeny(t) \/ StopForce(t) \/ StopReturn(t)

----------------------------------------------------------------------------
(* The receive thread: parse_message and VoIPPhone.callback.               *)

Receive == msgs < MaxMsgs /\ msgs' = msgs + 1

Unhandled == UNCHANGED <<lifeVars, mediaVars, frontVars, registryVars,
                         poolVars, loopVars>>

(* An INVITE, or a retransmission of it: a remembered final response is    *)
(* sent again.                                                             *)
RecvInvite(i) ==
    /\ Idle(Recv) /\ Receive
    /\ req' = i /\ building' = None
    /\ IF cache[i] # 0
       THEN Enter(Recv, "replay", None, "send", cache[i])
       ELSE Enter(Recv, "none", None, "lookup", 0)
    /\ Unhandled

(* Bound: with every object of Calls in use, a new INVITE is dropped.      *)
Lookup ==
    /\ pc[Recv] = "lookup"
    /\ CASE calls[req] # None -> Enter(Recv, "reply", calls[req], "retrans", 0)
         [] calls[req] = None /\ (\E c \in Calls : state[c] = "NONE") ->
                Enter(Recv, "none", None, "ring", 0)
         [] OTHER -> Enter(Recv, "none", None, "idle", 0)
    /\ Unhandled /\ UNCHANGED recvVars

(* A retransmission for a registered call gets its provisional or its      *)
(* final response; without one it is an INVITE of no dialog.               *)
Retrans ==
    /\ pc[Recv] = "retrans"
    /\ LET c == cur[Recv]
       IN  CASE state[c] = "RINGING" -> Enter(Recv, "reply", c, "send", 180)
             [] state[c] # "RINGING" /\ initial[c] = 200 ->
                    Enter(Recv, "reply", c, "send", 200)
             [] OTHER -> Enter(Recv, "reply", c, "remember", 481)
    /\ Unhandled /\ UNCHANGED recvVars

(* New call: draw a session id, generate the tag of the 180 and send it.   *)
Ring ==
    /\ pc[Recv] = "ring"
    /\ \E c \in Calls :
         /\ state[c] = "NONE"
         /\ building' = c
         /\ inv' = [inv EXCEPT ![c] = req]
         /\ tag' = [tag EXCEPT ![req] = c]
         /\ sessions' = sessions \cup {c}
    /\ Enter(Recv, "ringing", None, "send", 180)
    /\ UNCHANGED <<lifeVars, inPort, assigned, running, frontVars, calls,
                   cache, pool, loopVars, req, msgs>>

(* request_ports and VoIPCall.__init__ *)
FreePorts == Ports \ pool
Take(p) ==
    /\ pool' = pool \cup {p}
    /\ inPort' = [inPort EXCEPT ![building] = p]
    /\ assigned' = [assigned EXCEPT ![building] = TRUE]
    /\ state' = [state EXCEPT ![building] = "RINGING"]
    /\ Enter(Recv, "none", None, "register", 0)
    /\ UNCHANGED <<answering, initial, finalized, inv, running, frontVars,
                   registryVars, sessions, loopVars, recvVars>>

(* No port is free: finalize the ended calls of the registry and retry.    *)
Reclaim ==
    /\ todo' = [todo EXCEPT ![Recv] =
                   {c \in RegisteredCalls : state[c] = "ENDED"}]
    /\ Enter(Recv, "none", None, "reclaim", 0)
    /\ UNCHANGED <<lifeVars, mediaVars, frontVars, registryVars, poolVars,
                   stopping, snap, recvVars>>

Allocate ==
    /\ pc[Recv] = "allocate"
    /\ \/ \E p \in FreePorts : Take(p)
       \/ FreePorts = {} /\ Reclaim

ReclaimNext ==
    /\ pc[Recv] = "reclaim"
    /\ \/ /\ todo[Recv] = {}
          /\ Enter(Recv, "none", None, "reallocate", 0)
          /\ UNCHANGED todo
       \/ \E c \in todo[Recv] :
            /\ todo' = [todo EXCEPT ![Recv] = @ \ {c}]
            /\ Enter(Recv, "reclaim", c, "fin", 0)
    /\ UNCHANGED <<lifeVars, mediaVars, frontVars, registryVars, poolVars,
                   stopping, snap, recvVars>>

(* _create_Call failed: the half-built object ends and is finalized before *)
(* anybody could see it; the INVITE is refused with 488.                   *)
Refuse ==
    /\ state' = [state EXCEPT ![building] = "ENDED"]
    /\ finalized' = [finalized EXCEPT ![building] = TRUE]
    /\ CleanupDead
    /\ sessions' = sessions \ {building}
    /\ Enter(Recv, "refuse", None, "remember", 488)
    /\ UNCHANGED <<answering, initial, mediaVars, handed, sent, tag, cache,
                   pool, loopVars, recvVars>>

Reallocate ==
    /\ pc[Recv] = "reallocate"
    /\ \/ \E p \in FreePorts : Take(p)
       \/ FreePorts = {} /\ Refuse

(* _set_call *)
Register ==
    /\ pc[Recv] = "register"
    /\ calls' = [calls EXCEPT ![req] = building]
    /\ Go(Recv, "dispatch")
    /\ UNCHANGED <<lifeVars, mediaVars, frontVars, tag, cache, poolVars,
                   frameVars, loopVars, recvVars>>

(* Start the callback thread, unless the call is gone by now or the thread *)
(* cannot be started.                                                      *)
Dispatch ==
    /\ pc[Recv] = "dispatch"
    /\ \/ /\ calls[req] # None
          /\ cb' = [cb EXCEPT ![building] = "started"]
          /\ Go(Recv, "idle")
       \/ /\ calls[req] = None \/ "thread" \in Faults
          /\ Go(Recv, "undispatch")
          /\ UNCHANGED cb
    /\ UNCHANGED <<lifeVars, mediaVars, handed, sent, registryVars, poolVars,
                   frameVars, loopVars, recvVars>>

(* except clause: the INVITE is answered 486, and a call that is still     *)
(* registered is ended and cleaned up.                                     *)
Undispatch ==
    /\ pc[Recv] = "undispatch"
    /\ IF calls[req] = None
       THEN Enter(Recv, "lost", None, "remember", 486)
       ELSE Enter(Recv, "undispatched", building, "media", 486)
    /\ Unhandled /\ UNCHANGED recvVars

(* _discard_orphan_dialog_tag, after the session id went back *)
Discard ==
    /\ pc[Recv] = "discard"
    /\ sessions' = sessions \ {building}
    /\ tag' = IF calls[req] = None /\ tag[req] = building
              THEN [tag EXCEPT ![req] = None] ELSE tag
    /\ IF routine[Recv] = "refuse"
       THEN Enter(Recv, "none", None, "idle", 0)
       ELSE Enter(Recv, "none", None, "fail", 0)
    /\ UNCHANGED <<lifeVars, mediaVars, frontVars, calls, cache, pool,
                   loopVars, recvVars>>

(* parse_message: the callback raised; 500 unless a final response to this *)
(* request went out already.                                               *)
Built == building # None /\ state[building] # "NONE"

Fail ==
    /\ pc[Recv] = "fail"
    /\ sent' = IF Built /\ sent[building] = {}
               THEN [sent EXCEPT ![building] = {500}] ELSE sent
    /\ Enter(Recv, "none", None, "idle", 0)
    /\ UNCHANGED <<lifeVars, mediaVars, cb, handed, registryVars, poolVars,
                   loopVars, recvVars>>

(* A CANCEL that matches the INVITE of a registered call (any other is     *)
(* answered 481 and changes nothing).                                      *)
RecvCancel(i) ==
    /\ Idle(Recv) /\ Receive
    /\ calls[i] # None
    /\ req' = i /\ building' = None
    /\ Enter(Recv, "none", None, "cancel", 0)
    /\ Unhandled

(* _callback_MSG_Cancel *)
Cancel ==
    /\ pc[Recv] = "cancel"
    /\ LET c == calls[req]
       IN  IF c # None /\ state[c] = "RINGING"
           THEN /\ state' = [state EXCEPT ![c] = "ENDED"]
                /\ Enter(Recv, "cancelled", c, "media", 487)
           ELSE /\ Enter(Recv, "none", None, "idle", 0)
                /\ UNCHANGED state
    /\ UNCHANGED <<answering, initial, finalized, mediaVars, frontVars,
                   registryVars, poolVars, loopVars, recvVars>>

(* A BYE within the dialog the peer shares with call c, early or confirmed *)
RecvBye(i, c) ==
    /\ Idle(Recv) /\ Receive
    /\ calls[i] # None /\ tag[i] = c
    /\ req' = i /\ building' = None
    /\ Enter(Recv, "none", None, "bye", 0)
    /\ Unhandled

(* _callback_MSG_Bye and VoIPCall.bye *)
Bye ==
    /\ pc[Recv] = "bye"
    /\ LET c == calls[req]
       IN  CASE c = None -> Enter(Recv, "none", None, "idle", 0)
             [] c # None /\ state[c] = "ANSWERED" ->
                    Enter(Recv, "bye", c, "media", 0)
             [] OTHER -> Enter(Recv, "bye", c, "fin", 0)
    /\ Unhandled /\ UNCHANGED recvVars

RecvStep ==
    \/ Lookup \/ Retrans \/ Ring \/ Allocate \/ ReclaimNext \/ Reallocate
    \/ Register \/ Dispatch \/ Undispatch \/ Discard \/ Fail \/ Cancel
    \/ Bye

----------------------------------------------------------------------------
(* _run_call_callback on a thread of its own: the application gets the     *)
(* call unless it is gone by then; the thread ends when the callback       *)
(* returns.                                                                *)

CallbackRuns(c) ==
    /\ cb[c] = "started"
    /\ IF calls[inv[c]] = c /\ state[c] # "ENDED"
       THEN /\ cb' = [cb EXCEPT ![c] = "running"]
            /\ handed' = [handed EXCEPT ![c] = TRUE]
       ELSE /\ cb' = [cb EXCEPT ![c] = "done"]
            /\ UNCHANGED handed
    /\ UNCHANGED <<lifeVars, mediaVars, sent, registryVars, poolVars, pc,
                   frameVars, loopVars, recvVars>>

CallbackReturns(c) ==
    /\ cb[c] = "running"
    /\ cb' = [cb EXCEPT ![c] = "done"]
    /\ UNCHANGED <<lifeVars, mediaVars, handed, sent, registryVars, poolVars,
                   pc, frameVars, loopVars, recvVars>>

----------------------------------------------------------------------------
(* What a thread that is in the middle of something does next.             *)
Step(t) == Ending(t) \/ (t \in Apps /\ AppStep(t)) \/ (t = Recv /\ RecvStep)

Request(t) == \/ Stop(t)
              \/ \E c \in Calls : Answer(t, c) \/ Deny(t, c) \/ Hangup(t, c)

Message == \E i \in Invites : \/ RecvInvite(i)
                              \/ RecvCancel(i)
                              \/ \E c \in Calls : RecvBye(i, c)

Next == \/ \E t \in Threads : Step(t)
        \/ \E t \in Apps : Request(t)
        \/ Message
        \/ \E c \in Calls : CallbackRuns(c) \/ CallbackReturns(c)

(* Threads are scheduled: one that has started something goes on with it,  *)
(* for no lock is held across a step.  Nobody has to call or send anything.*)
Fairness == /\ \A t \in Threads : WF_vars(Step(t))
            /\ \A c \in Calls : WF_vars(CallbackRuns(c))

Spec == Init /\ [][Next]_vars
FairSpec == Spec /\ Fairness

----------------------------------------------------------------------------
(* Properties *)

(* Types: the variables of the calls, the phone, the threads' frames and   *)
(* their loops.                                                            *)
CallType ==
    /\ state \in [Calls -> States]
    /\ answering \in [Calls -> BOOLEAN]
    /\ initial \in [Calls -> {0, 200}]
    /\ finalized \in [Calls -> BOOLEAN]
    /\ inv \in [Calls -> Invites \cup {None}]
    /\ inPort \in [Calls -> Ports \cup {None}]
    /\ assigned \in [Calls -> BOOLEAN]
    /\ running \in [Calls -> BOOLEAN]
    /\ cb \in [Calls -> {"none", "started", "running", "done", "reaped"}]
    /\ handed \in [Calls -> BOOLEAN]
    /\ sent \in [Calls -> SUBSET Codes]
PhoneType ==
    /\ calls \in [Invites -> Calls \cup {None}]
    /\ tag \in [Invites -> Calls \cup {None}]
    /\ cache \in [Invites -> Codes]
    /\ pool \subseteq Ports
    /\ sessions \subseteq Calls
FrameType ==
    /\ pc \in [Threads -> Labels]
    /\ routine \in [Threads -> Routines]
    /\ cur \in [Threads -> Calls \cup {None}]
    /\ code \in [Threads -> Codes]
LoopType ==
    /\ todo \in [Threads -> SUBSET Calls]
    /\ stopping \in [Threads -> BOOLEAN]
    /\ snap \in [Threads -> SUBSET Calls]
    /\ req \in Invites \cup {None}
    /\ building \in Calls \cup {None}
    /\ msgs \in 0..MaxMsgs
(* Every variable keeps to the values the code can give it.               *)
TypeOK == CallType /\ PhoneType /\ FrameType /\ LoopType

(* _answer_in_progress keeps two threads from preparing or aborting the    *)
(* answer of one call at the same time (VoIP.py:1337, :1388).              *)
AnswersCall(t, c) == cur[t] = c /\ routine[t] \in {"answer", "abort"}
AnswerExclusive ==
    \A c \in Calls, t, u \in Threads :
        AnswersCall(t, c) /\ AnswersCall(u, c) => t = u

(* However answer(), deny(), CANCEL, stop() and a failing dispatch race,   *)
(* the request of one call is never both accepted and declined.            *)
AcceptExcludesReject ==
    \A c \in Calls : ~ (200 \in sent[c] /\ sent[c] \cap {486, 487} # {})

(* The pool holds exactly the ports of the calls that have not released    *)
(* theirs, and no two of these calls share one: nothing leaks, and a late  *)
(* cleanup of one call never frees the port of another.                    *)
Holding == {c \in Calls : assigned[c]}
HeldPortsReserved ==
    /\ pool = {inPort[c] : c \in Holding}
    /\ \A c, d \in Holding : inPort[c] = inPort[d] => c = d

Quiet(c) == /\ \A t \in Threads : cur[t] # c
            /\ pc[Recv] = "idle" \/ building # c
(* Once no thread works on an ended call, its INVITE has a remembered final *)
(* response, so that a late retransmission of it is answered from the cache. *)
EndedIsRemembered ==
    \A c \in Calls : state[c] = "ENDED" /\ Quiet(c) => cache[inv[c]] # 0

(* Dialog matching: the tag kept for a Call-ID is that of its registered   *)
(* call, also while an older call of the same Call-ID is being removed.    *)
TagOfRegisteredCall ==
    \A i \in Invites : calls[i] # None => tag[i] = calls[i]

(* The abstract promise: phases only go forward, ports have one owner.     *)
held == [c \in Calls |-> IF assigned[c] THEN inPort[c] ELSE None]
Lifecycle == INSTANCE CallLifecycle WITH phase <- state, holds <- held
ImplementsLifecycle == Lifecycle!Spec

(* An ended call is never revived.                                         *)
EndedIsFinal ==
    [][\A c \in Calls : state[c] = "ENDED" => state'[c] = "ENDED"]_vars

(* Every call that ends gives its resources back in the end.               *)
EndedIsReleased ==
    \A c \in Calls : state[c] = "ENDED" ~>
        ~running[c] /\ ~assigned[c] /\ c \notin sessions /\ c \notin RegisteredCalls

(* CHANGELOG.md:54, docs/VoIP.rst:176: retransmissions of an INVITE do not *)
(* dispatch another incoming call.                                         *)
OneCallPerInvite ==
    \A c, d \in Calls :
        handed[c] /\ handed[d] /\ inv[c] = inv[d] => c = d

(* VoIP.py:2473: a rejected call keeps its final decision for a retry.     *)
DecisionKept ==
    [][\A i \in Invites : cache[i] \in {486, 487} => cache'[i] = cache[i]]_vars

(* docs/VoIP.rst:159: stop() ends active calls.                            *)
StopEndsCalls ==
    \A t \in Apps : pc[t] = "stopped" => \A c \in snap[t] : state[c] = "ENDED"

----------------------------------------------------------------------------
(* The inductive invariant behind AnswerExclusive, AcceptExcludesReject,   *)
(* HeldPortsReserved and the refinement (see InboundCallProofs).           *)

(* Which routine a thread can be in at a label, and what it works on.      *)
AnswerLabels == {"prepare", "commit", "check", "keep", "unflag"}
CallLabels == AnswerLabels \cup
    {"sendbye", "media", "ended", "fin", "release", "remove", "force",
     "hangup", "read2", "read3", "deny"}
CallRoutines == {"answer", "abort", "deny", "hangup", "force", "finish",
                 "cancelled", "bye", "undispatched", "reclaim"}
SendRoutines == {"answer", "deny", "cancelled", "undispatched", "lost",
                 "ringing", "reply", "replay", "refuse"}
FrameInv ==
    /\ \A t \in Threads :
        /\ pc[t] \in AnswerLabels => routine[t] \in {"answer", "abort"}
        /\ pc[t] \in CallLabels => routine[t] \in CallRoutines
        /\ pc[t] \in {"remember", "send"} => routine[t] \in SendRoutines
        /\ routine[t] \in CallRoutines => cur[t] \in Calls
    /\ pc[Recv] # "idle" => req \in Invites

(* Whatever a thread or the phone refers to is a call that was built.      *)
BuiltInv ==
    /\ \A t \in Threads : cur[t] \in Calls => state[cur[t]] # "NONE"
    /\ \A t \in Threads : \A c \in todo[t] : state[c] # "NONE"
    /\ \A i \in Invites : calls[i] \in Calls => state[calls[i]] # "NONE"
    /\ \A c \in Calls : handed[c] => cb[c] # "none"
    /\ \A c \in Calls : state[c] = "NONE" => ~assigned[c] /\ cb[c] = "none"

(* The object the receive thread builds is nobody else's yet.              *)
Constructing == \/ pc[Recv] \in {"allocate", "reclaim", "reallocate"}
                \/ routine[Recv] \in {"ringing", "reclaim"}
Published == pc[Recv] \in {"register", "dispatch", "undispatch"}
BuildInv ==
    /\ Constructing => building \in Calls /\ state[building] = "NONE"
    /\ Published => /\ building \in Calls
                    /\ state[building] # "NONE"
                    /\ cb[building] = "none"

(* A thread that answers a call has raised its flag and was handed it.     *)
AnswerInv ==
    /\ AnswerExclusive
    /\ \A t \in Threads : routine[t] \in {"answer", "abort"} =>
           answering[cur[t]] /\ handed[cur[t]]

(* A call that was not accepted and cannot be any more: it has ended, or   *)
(* its callback thread was never started.                                  *)
Unanswerable(c) ==
    /\ c \in Calls
    /\ initial[c] = 0
    /\ \/ state[c] = "ENDED"
       \/ /\ state[c] # "NONE"
          /\ cb[c] = "none"
          /\ ~ (Published /\ building = c)
AcceptedInv ==
    /\ \A c \in Calls : initial[c] = 200 =>
           state[c] \in {"ANSWERED", "ENDED"} /\ cb[c] # "none"
    /\ \A c \in Calls : 200 \in sent[c] => initial[c] = 200
DeclinedInv ==
    \A c \in Calls : sent[c] \cap {486, 487} # {} => Unanswerable(c)
DecidingInv ==
    \A t \in Threads :
        /\ routine[t] = "answer" =>
               code[t] = 0 \/ (code[t] = 200 /\ initial[cur[t]] = 200)
        /\ routine[t] \in {"deny", "cancelled", "undispatched"} =>
               code[t] # 200 /\ Unanswerable(cur[t])
        /\ routine[t] \in {"lost", "refuse"} =>
               t = Recv /\ code[t] # 200 /\ Unanswerable(building)
        /\ routine[t] = "ringing" => code[t] = 180
DecisionInv == AcceptedInv /\ DeclinedInv /\ DecidingInv

IInv == /\ TypeOK /\ FrameInv /\ BuiltInv /\ BuildInv
        /\ HeldPortsReserved /\ AnswerInv /\ DecisionInv

(* The inductive invariants behind TagOfRegisteredCall and                 *)
(* EndedIsRemembered, on top of IInv (see InboundCallProofs).              *)

(* Until its call is registered the Call-ID has no call, but the tag of    *)
(* that one; and nobody has come to know the call.                         *)
Making == Constructing \/ pc[Recv] = "register"
TagInv ==
    /\ TagOfRegisteredCall
    /\ pc[Recv] = "ring" \/ Making => calls[req] = None
    /\ Making => tag[req] = building /\ pc[Recv] # "idle"
    /\ pc[Recv] = "register" =>
          /\ \A t \in Threads : cur[t] # building /\ building \notin todo[t]
          /\ \A i \in Invites : calls[i] # building

(* A call, its registration and the request in hand are of one INVITE.     *)
InviteInv ==
    /\ \A c \in Calls : state[c] # "NONE" => inv[c] \in Invites
    /\ \A i \in Invites : calls[i] \in Calls => inv[calls[i]] = i
    /\ Constructing \/ Published => inv[building] = req
    /\ routine[Recv] = "refuse" => building \in Calls /\ inv[building] = req
    /\ \A t \in Threads : routine[t] \in {"cancelled", "undispatched"} =>
           t = Recv /\ inv[cur[t]] = req

(* What is going to be remembered is a final response.                     *)
CodeInv ==
    \A t \in Threads :
        /\ pc[t] = "remember" => code[t] # 0
        /\ routine[t] = "answer" /\ pc[t] = "send" => code[t] # 0
        /\ routine[t] \in {"cancelled", "undispatched"} => code[t] # 0

(* A call that has left RINGING has a remembered response, or a thread is  *)
(* on its way to remember one.                                             *)
Past(c) == state[c] \in {"ANSWERED", "ENDED"}
Remembers(t, c) ==
    \/ /\ t \in Apps /\ cur[t] = c
       /\ \/ routine[t] = "answer" /\ pc[t] \in {"send", "remember"}
          \/ routine[t] = "abort" /\ pc[t] \in {"check", "keep"}
          \/ routine[t] = "deny" /\ pc[t] = "remember"
    \/ /\ t = Recv /\ cur[t] = c
       /\ \/ routine[t] = "cancelled" /\ pc[t] \in {"media", "remember"}
          \/ routine[t] = "undispatched" /\ pc[t] \in {"media", "ended", "remember"}
    \/ t = Recv /\ routine[t] = "refuse" /\ pc[t] = "remember" /\ building = c
SettledInv ==
    \A c \in Calls : Past(c) =>
        cache[inv[c]] # 0 \/ \E t \in Threads : Remembers(t, c)

(* Who is going to end a call has remembered a response, or the call has   *)
(* left RINGING before.                                                    *)
EndsPast(t) ==
    \/ routine[t] \in {"deny", "cancelled"} \/ pc[t] \in {"force", "hangup"}
    \/ /\ pc[t] \in {"media", "sendbye", "ended"}
       /\ routine[t] \notin {"abort", "undispatched"}
EndingInv ==
    \A t \in Threads :
        /\ pc[t] \in {"check", "keep"} => routine[t] = "abort"
        /\ routine[t] = "abort" /\ pc[t] \in {"media", "sendbye", "ended"} =>
               cache[inv[cur[t]]] # 0
        /\ EndsPast(t) => Past(cur[t])

RegistryInv == TagInv /\ InviteInv /\ CodeInv /\ SettledInv /\ EndingInv
=============================================================================
