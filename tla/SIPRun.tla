------------------------------- MODULE SIPRun -------------------------------
(***************************************************************************)
(* The signaling run of a phone: VoIPPhone.start()/stop()/fatal() over     *)
(* SIPClient.start()/stop(), registration and its renewal thread, the      *)
(* receive thread and the failure of the stream connection                 *)
(* (rfcvoip/SIP.py, rfcvoip/VoIP/VoIP.py).                                 *)
(*                                                                         *)
(* A run is known by the value of _run_generation that start() gave it;    *)
(* _detach_run() ends it by taking its resources and raising the           *)
(* generation.  A connection is named by the run that created it.  Each    *)
(* thread has a stack of frames, the newest first, because the callbacks   *)
(* nest: register() may read the failure of the stream, whose fatal        *)
(* callback calls phone.stop(), which calls SIPClient.stop() again.        *)
(*                                                                         *)
(* A step ends where a thread takes or gives back a lock, does I/O, or     *)
(* acts on something it has read without a lock.                           *)
(***************************************************************************)
EXTENDS Naturals, Sequences, FiniteSets

CONSTANTS
    Apps,       \* application threads
    Receivers,  \* names of receive threads, one per started run
    Timers,     \* names of register threads
    None,
    Later,      \* a register thread whose delay outlasts the behaviour
    Threshold,  \* REGISTER_FAILURE_THRESHOLD
    Hops,       \* who may challenge a REGISTER: origin, proxy
    Faults,     \* what may fail: opening, sending, the stream
    Answers,    \* final answers to a REGISTER: ok, retry (500), reject
    MaxStops,   \* bound: stop() calls of the application
    MaxFaults   \* bound: failures, refusals and challenges in a behaviour

ASSUME ConstantsAssumption ==
    /\ None \notin Apps \cup Receivers \cup Timers
    /\ Later \notin Timers /\ None # Later
    /\ Apps \cap Receivers = {} /\ Apps \cap Timers = {}
    /\ Receivers \cap Timers = {}
    /\ Threshold \in Nat \ {0} /\ MaxStops \in Nat /\ MaxFaults \in Nat
    /\ Hops \subseteq {"origin", "proxy"}
    /\ Faults \subseteq {"open", "send", "stream"}
    /\ Answers \subseteq {"ok", "retry", "reject"}

VARIABLES
    \* SIPClient
    gen,        \* _run_generation
    nsd,        \* NSD: a run is on
    conn,       \* connection, 0 for none
    sock,       \* s, by the connection it belongs to
    opened,     \* connections with an open socket
    event,      \* _register_cancel_event, by its register thread
    renewing,   \* registerThread is set
    fails,      \* registerFailures
    recvLock,   \* thread that holds recvLock
    lockRun,    \* its generation in _receive_thread_state, 0 for none
    \* VoIPPhone
    status,     \* _status
    phoneOn,    \* NSD of the phone
    phoneGen,   \* _phone_start_generation
    starting,   \* _start_in_progress
    startGen,   \* _starting_sip_generation
    \* threads
    stack, raised,
    cancelled,  \* register threads whose event is set
    used,       \* daemon threads created so far
    stops,      \* stop() calls of the application so far
    faults,     \* failures, refusals and challenges so far
    \* history
    accepted,   \* latest run that had a REGISTER accepted
    torn        \* daemon threads that ended a run not their own

clientVars == <<gen, nsd, conn, sock, opened>>
lockVars == <<recvLock, lockRun>>
renewVars == <<event, renewing, cancelled>>
startVars == <<phoneGen, starting, startGen>>
boundVars == <<stops, faults>>
historyVars == <<accepted, torn>>
vars == <<clientVars, renewVars, fails, lockVars, status, phoneOn, startVars,
          stack, raised, used, boundVars, historyVars>>

Threads == Apps \cup Receivers \cup Timers

Init ==
    /\ gen = 0 /\ nsd = FALSE /\ conn = 0 /\ sock = 0 /\ opened = {}
    /\ event = None /\ renewing = FALSE /\ fails = 0
    /\ recvLock = None /\ lockRun = 0
    /\ status = "INACTIVE" /\ phoneOn = FALSE
    /\ phoneGen = 0 /\ starting = FALSE /\ startGen = None
    /\ stack = [t \in Threads |-> <<>>]
    /\ raised = [t \in Threads |-> FALSE]
    /\ cancelled = {} /\ used = {} /\ stops = 0
    /\ accepted = 0 /\ torn = {} /\ faults = 0

-----------------------------------------------------------------------------
(* Frames.  at: label; g: the generation the routine works for; ctx: the   *)
(* registration_generation of the thread, 0 for None; phone: the phone's   *)
(* generation; hops: who has challenged; tries: deregistration attempts;   *)
(* conn, event: what a _SIPRunCleanup holds; failed: phone.stop(failed).   *)

Frame(label, g, ctx) ==
    [at |-> label, g |-> g, ctx |-> ctx, phone |-> 0, hops |-> {},
     tries |-> 0, conn |-> 0, event |-> None, failed |-> FALSE]

Top(t) == Head(stack[t])
At(t, label) == stack[t] # <<>> /\ Top(t).at = label

(* The run of a daemon thread.                                             *)
OwnRun(t) == IF t \in Timers THEN Top(t).ctx ELSE stack[t][Len(stack[t])].g

Replace(t, f) == stack' = [stack EXCEPT ![t] = <<f>> \o Tail(@)]
Go(t, label) == Replace(t, [Top(t) EXCEPT !.at = label])
(* The frame on top goes on at label once the routine of f has returned.   *)
Invoke(t, label, f) ==
    stack' = [stack EXCEPT ![t] = <<f, [Top(t) EXCEPT !.at = label]>> \o Tail(@)]
Leave(t) == stack' = [stack EXCEPT ![t] = Tail(@)]
Return(t) == Leave(t) /\ UNCHANGED raised
Raise(t) == Leave(t) /\ raised' = [raised EXCEPT ![t] = TRUE]
Caught(t) == raised' = [raised EXCEPT ![t] = FALSE]

(* Something goes wrong; NoFault otherwise.                                *)
Fault == faults < MaxFaults /\ faults' = faults + 1 /\ UNCHANGED stops
NoFault == UNCHANGED boundVars

-----------------------------------------------------------------------------
(* VoIPPhone.start().  An exception before any change is left out.         *)

PhoneStart(a) ==
    /\ stack[a] = <<>>
    /\ Cardinality(used \cap Receivers) < Cardinality(Receivers)
    /\ ~phoneOn /\ ~nsd
    /\ ~(starting /\ (startGen = None \/ gen \in {startGen, startGen + 1}))
    /\ phoneGen' = phoneGen + 1
    /\ starting' = TRUE
    /\ startGen' = gen
    /\ status' = "REGISTERING"
    /\ stack' = [stack EXCEPT ![a] =
           <<Frame("sipStart", 0, 0),
             [Frame("phoneStarted", 0, 0) EXCEPT !.phone = phoneGen + 1]>>]
    /\ Caught(a)
    /\ UNCHANGED <<clientVars, renewVars, fails, lockVars, phoneOn, used, boundVars,
                   historyVars>>

(* Back from SIPClient.start(), normally or not.                           *)
PhoneStarted(t) ==
    /\ At(t, "phoneStarted")
    /\ IF Top(t).phone = phoneGen
       THEN /\ phoneOn' = nsd
            /\ status' = IF raised[t] /\ ~nsd THEN "FAILED" ELSE status
            /\ starting' = FALSE
            /\ startGen' = None
       ELSE UNCHANGED <<phoneOn, status, starting, startGen>>
    /\ Leave(t) /\ Caught(t)
    /\ UNCHANGED <<clientVars, renewVars, fails, lockVars, phoneGen, used,
                   boundVars, historyVars>>

-----------------------------------------------------------------------------
(* SIPClient.start().                                                      *)

SipStart(t) ==
    /\ At(t, "sipStart")
    /\ IF nsd THEN Raise(t) /\ UNCHANGED <<gen, nsd, accepted>>
       ELSE /\ nsd' = TRUE
            /\ gen' = gen + 1
            /\ Replace(t, Frame("connect", gen + 1, 0))
            /\ accepted' = 0
            /\ UNCHANGED raised
    /\ UNCHANGED <<conn, sock, opened, renewVars, fails, lockVars, status,
                   phoneOn, startVars, used, boundVars, torn>>

Connect(t) ==
    /\ At(t, "connect")
    /\ IF Top(t).g = gen
       THEN conn' = gen /\ Go(t, "open") /\ UNCHANGED raised
       ELSE Return(t) /\ UNCHANGED conn
    /\ UNCHANGED <<gen, nsd, sock, opened, renewVars, fails, lockVars, status,
                   phoneOn, startVars, used, boundVars, historyVars>>

Open(t) ==
    /\ At(t, "open")
    /\ \/ opened' = opened \cup {Top(t).g} /\ Go(t, "publish") /\ NoFault
       \/ "open" \in Faults /\ Go(t, "undoStart") /\ UNCHANGED opened /\ Fault
    /\ UNCHANGED <<gen, nsd, conn, sock, renewVars, fails, lockVars, status,
                   phoneOn, startVars, raised, used, historyVars>>

\* Mutant: a connection nobody wants any more stays open.
PublishOrLeave(t) ==
    /\ At(t, "publish")
    /\ LET g == Top(t).g IN
       IF g = gen /\ conn = g
       THEN /\ sock' = g
            /\ Invoke(t, "registered", Frame("register", g, g))
            /\ UNCHANGED raised
       ELSE Return(t) /\ UNCHANGED sock
    /\ UNCHANGED <<gen, nsd, conn, opened, renewVars, fails, lockVars, status,
                   phoneOn, startVars, used, boundVars, historyVars>>

Publish(t) ==
    /\ At(t, "publish")
    /\ LET g == Top(t).g IN
       IF g = gen /\ conn = g
       THEN /\ sock' = g
            /\ Invoke(t, "registered", Frame("register", g, g))
            /\ UNCHANGED <<opened, raised>>
       ELSE /\ opened' = IF conn = g THEN opened ELSE opened \ {g}
            /\ Return(t)
            /\ UNCHANGED sock
    /\ UNCHANGED <<gen, nsd, conn, renewVars, fails, lockVars, status, phoneOn,
                   startVars, used, boundVars, historyVars>>

(* Back from the first register(): start the receive thread of the run.    *)
Registered(t) ==
    /\ At(t, "registered")
    /\ LET g == Top(t).g IN
       IF raised[t] THEN Go(t, "undoStart") /\ Caught(t) /\ UNCHANGED used
       ELSE IF nsd /\ g = gen
       THEN \E r \in Receivers \ used :
                /\ used' = used \cup {r}
                /\ stack' = [stack EXCEPT ![t] = Tail(@),
                                          ![r] = <<Frame("loop", g, 0)>>]
                /\ UNCHANGED raised
       ELSE Return(t) /\ UNCHANGED used
    /\ UNCHANGED <<clientVars, renewVars, fails, lockVars, status, phoneOn,
                   startVars, boundVars, historyVars>>

-----------------------------------------------------------------------------
(* _detach_run() and _cleanup_detached_run().                              *)

(* Takes the resources of the run; the frame goes on at label.             *)
Detach(t, label) ==
    /\ Replace(t, [Top(t) EXCEPT !.at = label, !.conn = conn, !.event = event])
    /\ torn' = IF nsd /\ t \notin Apps /\ OwnRun(t) # gen
               THEN torn \cup {t} ELSE torn
    /\ gen' = gen + 1
    /\ nsd' = FALSE
    /\ conn' = 0 /\ sock' = 0
    /\ event' = None /\ renewing' = FALSE

(* Not the owner of the run any more: nothing to detach.                   *)
Detached == UNCHANGED <<gen, nsd, conn, sock, event, renewing, torn>>

(* except clause of start(): undo the run unless another one has begun.    *)
UndoStart(t) ==
    /\ At(t, "undoStart")
    /\ IF Top(t).g = gen THEN Detach(t, "closeStart") /\ UNCHANGED raised
       ELSE Raise(t) /\ Detached
    /\ UNCHANGED <<opened, cancelled, fails, lockVars, status, phoneOn,
                   startVars, used, boundVars, accepted>>

(* Cancels the register thread, closes the sockets; start() then gives its *)
(* exception on.                                                           *)
Cleanup(t) ==
    /\ stack[t] # <<>> /\ Top(t).at \in {"closeStart", "closeStop", "closeFailed"}
    /\ LET f == Top(t) IN
       /\ cancelled' = cancelled \cup ({f.event} \cap Timers)
       /\ event' = IF event = f.event /\ event # Later THEN None ELSE event
       /\ opened' = IF f.conn = conn THEN opened ELSE opened \ {f.conn}
       /\ CASE f.at = "closeStart" -> Raise(t)
            [] f.at = "closeStop" -> Return(t)
            [] f.at = "closeFailed" -> Go(t, "report") /\ UNCHANGED raised
    /\ UNCHANGED <<gen, nsd, conn, sock, renewing, fails, lockVars, status,
                   phoneOn, startVars, used, boundVars, historyVars>>

-----------------------------------------------------------------------------
(* SIPClient.stop().  From phone.stop() it carries expected_generation in  *)
(* g; on a thread inside a registration, ctx must be the current run too.  *)

StopFrame(expected, ctx) == Frame("sipStop", expected, ctx)

SipStop(t) ==
    /\ At(t, "sipStop")
    /\ LET f == Top(t) IN
       IF f.g # gen \/ f.ctx \notin {0, gen} THEN Return(t)
       ELSE /\ IF nsd /\ renewing
               THEN Invoke(t, "detach", Frame("deregister", gen, gen))
               ELSE Go(t, "detach")
            /\ UNCHANGED raised
    /\ UNCHANGED <<clientVars, renewVars, fails, lockVars, status, phoneOn,
                   startVars, used, boundVars, historyVars>>

(* finally clause: an exception of deregister() goes on.                   *)
StopDetach(t) ==
    /\ At(t, "detach")
    /\ IF Top(t).g = gen THEN Detach(t, "closeStop") ELSE Leave(t) /\ Detached
    /\ UNCHANGED <<opened, cancelled, fails, lockVars, status, phoneOn,
                   startVars, raised, used, boundVars, accepted>>

-----------------------------------------------------------------------------
(* VoIPPhone.stop(); the calls it ends first are in InboundCall.           *)

(* g is the run whose failure is reported.                                 *)
PhoneStopFrame(g, ctx, failed) ==
    [Frame("phoneStop", g, ctx) EXCEPT !.failed = failed]

StopPhone(a) ==
    /\ stack[a] = <<>>
    /\ stops < MaxStops
    /\ stops' = stops + 1
    /\ stack' = [stack EXCEPT ![a] = <<PhoneStopFrame(0, 0, FALSE)>>]
    /\ Caught(a)
    /\ UNCHANGED <<clientVars, renewVars, fails, lockVars, status, phoneOn,
                   startVars, used, faults, historyVars>>

PhoneStop(t) ==
    /\ At(t, "phoneStop")
    /\ phoneGen' = phoneGen + 1
    /\ starting' = FALSE /\ startGen' = None
    /\ status' = "DEREGISTERING"
    /\ Replace(t, [Top(t) EXCEPT !.at = "phoneOwned", !.g = gen,
                                 !.phone = phoneGen + 1])
    /\ UNCHANGED <<clientVars, renewVars, fails, lockVars, phoneOn, raised,
                   used, boundVars, historyVars>>

PhoneOwned(t) ==
    /\ At(t, "phoneOwned")
    /\ LET f == Top(t) IN
       IF f.phone = phoneGen
       THEN Invoke(t, "phoneStopped", StopFrame(f.g, f.ctx)) /\ UNCHANGED raised
       ELSE Return(t)
    /\ UNCHANGED <<clientVars, renewVars, fails, lockVars, status, phoneOn,
                   startVars, used, boundVars, historyVars>>

PhoneStopped(t) ==
    /\ At(t, "phoneStopped")
    /\ LET f == Top(t) IN
       IF f.phone = phoneGen
       THEN /\ phoneOn' = (nsd /\ gen # f.g)
            /\ status' = IF phoneOn' THEN status
                         ELSE IF f.failed THEN "FAILED" ELSE "INACTIVE"
       ELSE UNCHANGED <<phoneOn, status>>
    /\ Leave(t)
    /\ raised' = [raised EXCEPT ![t] = @ /\ Len(stack[t]) > 1]
    /\ UNCHANGED <<clientVars, renewVars, fails, lockVars, startVars, used,
                   boundVars, historyVars>>

-----------------------------------------------------------------------------
(* _fail_signaling_connection(conn, g) on the thread that read the failure.*)

FailFrame(c, g, ctx) == [Frame("fail", g, ctx) EXCEPT !.conn = c]

\* Mutant: the phone is stopped while the run is still on.
FailDirectly(t) ==
    /\ At(t, "fail")
    /\ LET f == Top(t) IN
       IF f.g = gen /\ f.conn = conn
       THEN Replace(t, PhoneStopFrame(f.g, f.ctx, TRUE)) /\ UNCHANGED raised
       ELSE Return(t)
    /\ UNCHANGED <<clientVars, renewVars, fails, lockVars, status, phoneOn,
                   startVars, used, boundVars, historyVars>>

Fail(t) ==
    /\ At(t, "fail")
    /\ LET f == Top(t) IN
       IF f.g = gen /\ f.conn = conn
       THEN Detach(t, "closeFailed") /\ UNCHANGED raised
       ELSE Return(t) /\ Detached
    /\ UNCHANGED <<opened, cancelled, fails, lockVars, status, phoneOn,
                   startVars, used, boundVars, accepted>>

(* Unless a run began meanwhile, fatalCallback, which is phone.fatal(), is *)
(* the last thing the routine does.                                        *)
Report(t, failed) ==
    /\ IF ~nsd /\ gen = Top(t).g + 1
       THEN /\ status' = IF failed THEN "FAILED" ELSE status
            /\ Replace(t, PhoneStopFrame(Top(t).g, Top(t).ctx, TRUE))
            /\ UNCHANGED raised
       ELSE Return(t) /\ UNCHANGED status
    /\ UNCHANGED <<clientVars, renewVars, fails, lockVars, phoneOn, startVars,
                   used, boundVars, historyVars>>

Failed(t) == At(t, "report") /\ Report(t, TRUE)

-----------------------------------------------------------------------------
(* register() of run g, and deregister() where it does the same.           *)

(* _receive_transaction() takes recvLock and compares the generation once  *)
(* more; the checks before it see nothing that this one does not, but that *)
(* a thread which already owns the lock for an earlier run must not wait.  *)
Transact(t) ==
    /\ At(t, "register") \/ At(t, "deregister")
    /\ LET off == Top(t).at = "deregister" IN
       IF Top(t).g # gen THEN Return(t) /\ UNCHANGED lockVars
       ELSE IF recvLock = t /\ lockRun # gen THEN Raise(t) /\ UNCHANGED lockVars
       ELSE /\ recvLock = None
            /\ IF off \/ nsd
               THEN /\ recvLock' = t /\ lockRun' = gen
                    /\ Go(t, IF off THEN "sendOff" ELSE "send")
                    /\ UNCHANGED raised
               ELSE Return(t) /\ UNCHANGED lockVars
    /\ UNCHANGED <<clientVars, renewVars, fails, status, phoneOn, startVars,
                   used, boundVars, historyVars>>

Off(t) == Top(t).at \in {"sendOff", "waitOff"}

(* Leaves the transaction, giving recvLock back, for label.                *)
Release(t, label) == recvLock' = None /\ lockRun' = 0 /\ Go(t, label)

(* send_raw(): raises after a stop or a restart, and without a socket.     *)
CanSend(t) == Top(t).g = gen /\ conn # 0 /\ conn \in opened

(* The status is written without a lock, then the request is sent; again   *)
(* with credentials it is sent only.                                       *)
Send(t) ==
    /\ At(t, "send") \/ At(t, "sendOff")
    /\ status' = IF Top(t).hops # {} THEN status
                 ELSE IF Off(t) THEN "DEREGISTERING" ELSE "REGISTERING"
    /\ \/ /\ CanSend(t)
          /\ Go(t, IF Off(t) THEN "waitOff" ELSE "wait")
          /\ UNCHANGED lockVars
          /\ NoFault
       \/ /\ IF CanSend(t) THEN "send" \in Faults /\ Fault ELSE NoFault
          /\ Release(t, IF Off(t) THEN "erredOff" ELSE "erred")
    /\ UNCHANGED <<clientVars, renewVars, fails, phoneOn, startVars, raised,
                   used, historyVars>>

(* _wait_for_transaction_response: a final response of the registrar.      *)
Waits(t) == At(t, "wait") \/ At(t, "waitOff")

Answered(t) ==
    /\ Waits(t)
    /\ CanSend(t)
    /\ \E a \in Answers :
        /\ Release(t, IF Off(t)
                      THEN [ok |-> "deregistered", retry |-> "again",
                            reject |-> "leaveOff"][a]
                      ELSE [ok |-> "commit", retry |-> "erredRetry",
                            reject |-> "erred"][a])
        /\ IF a = "ok" THEN NoFault ELSE Fault
        /\ accepted' = IF a = "ok" /\ ~Off(t) THEN gen ELSE accepted
    /\ UNCHANGED <<clientVars, renewVars, fails, status, phoneOn, startVars,
                   raised, used, torn>>

(* _authenticate_registration: one attempt per hop.                        *)
Challenged(t) ==
    /\ Waits(t)
    /\ CanSend(t)
    /\ Fault
    /\ \E h \in Hops :
        IF h \in Top(t).hops
        THEN Release(t, IF Off(t) THEN "leaveOff" ELSE "erred")
        ELSE /\ Replace(t, [Top(t) EXCEPT !.hops = @ \cup {h},
                              !.at = IF Off(t) THEN "sendOff" ELSE "send"])
             /\ UNCHANGED lockVars
    /\ UNCHANGED <<clientVars, renewVars, fails, status, phoneOn, startVars,
                   raised, used, historyVars>>

(* No response: register_timeout, or the socket was closed meanwhile.      *)
TimedOut(t) ==
    /\ Waits(t)
    /\ IF CanSend(t) THEN Fault ELSE NoFault
    /\ Release(t, IF Off(t) THEN "leaveOff" ELSE "erred")
    /\ UNCHANGED <<clientVars, renewVars, fails, status, phoneOn, startVars,
                   raised, used, historyVars>>

(* The stream fails under the thread that waits.                           *)
StreamFails(t) ==
    /\ Waits(t)
    /\ Fault
    /\ "stream" \in Faults
    /\ CanSend(t)
    /\ Invoke(t, IF Off(t) THEN "lostOff" ELSE "lost",
              FailFrame(conn, gen, Top(t).ctx))
    /\ UNCHANGED <<clientVars, renewVars, fails, lockVars, status, phoneOn,
                   startVars, raised, used, historyVars>>

Lost(t) ==
    /\ \/ At(t, "lost") /\ Release(t, "erred")
       \/ At(t, "lostOff") /\ Release(t, "leaveOff")
    /\ Caught(t)
    /\ UNCHANGED <<clientVars, renewVars, fails, status, phoneOn, startVars,
                   used, boundVars, historyVars>>

\* Mutants: nothing renews the registration; the run may be over.
CommitForGood(t) ==
    /\ At(t, "commit")
    /\ IF nsd /\ Top(t).g = gen
       THEN status' = "REGISTERED" /\ fails' = 0
       ELSE UNCHANGED <<status, fails>>
    /\ Return(t)
    /\ UNCHANGED <<clientVars, renewVars, lockVars, phoneOn, startVars, used,
                   boundVars, historyVars>>

CommitUnchecked(t) ==
    /\ At(t, "commit")
    /\ status' = "REGISTERED"
    /\ fails' = 0
    /\ Go(t, "renew")
    /\ UNCHANGED <<clientVars, renewVars, lockVars, phoneOn, startVars, raised,
                   used, boundVars, historyVars>>

(* After the transaction, under the lifecycle lock: accepted ...           *)
Commit(t) ==
    /\ At(t, "commit")
    /\ IF nsd /\ Top(t).g = gen
       THEN /\ status' = "REGISTERED"
            /\ fails' = 0
            /\ Go(t, "renew") /\ UNCHANGED raised
       ELSE Return(t) /\ UNCHANGED <<status, fails>>
    /\ UNCHANGED <<clientVars, renewVars, lockVars, phoneOn, startVars, used,
                   boundVars, historyVars>>

(* ... or not: count the failure; give up, try again or renew later.       *)
Erred(t) ==
    /\ At(t, "erred") \/ At(t, "erredRetry")
    /\ LET f == Top(t) IN
       IF nsd /\ f.g = gen
       THEN /\ fails' = fails + 1
            /\ IF fails + 1 >= Threshold
               THEN Invoke(t, "gaveUp", StopFrame(f.g, f.ctx))
               ELSE IF f.at = "erred" THEN Go(t, "renew")
               ELSE Replace(t, Frame("register", f.g, f.ctx))
            /\ UNCHANGED raised
       ELSE Return(t) /\ UNCHANGED fails
    /\ UNCHANGED <<clientVars, renewVars, lockVars, status, phoneOn, startVars,
                   used, boundVars, historyVars>>

(* The run has been stopped for its failures, or stop() raised.            *)
GaveUp(t) ==
    /\ At(t, "gaveUp")
    /\ \/ ~raised[t] /\ Report(t, FALSE)
       \/ /\ raised[t]
          /\ Return(t)
          /\ UNCHANGED <<clientVars, renewVars, fails, lockVars, status, phoneOn,
                         startVars, used, boundVars, historyVars>>

ErredOff(t) ==
    /\ At(t, "erredOff")
    /\ Return(t) \/ (Top(t).g = gen /\ Raise(t))
    /\ UNCHANGED <<clientVars, renewVars, fails, lockVars, status, phoneOn,
                   startVars, used, boundVars, historyVars>>

(* deregister(): a 500 is tried again, everything else is the end of it.   *)
LeaveOff(t) ==
    /\ At(t, "leaveOff") \/ At(t, "again")
    /\ LET f == Top(t) IN
       IF f.at = "again" /\ f.g = gen /\ f.tries + 1 < Threshold
       THEN /\ Replace(t, [f EXCEPT !.at = "deregister", !.hops = {},
                                    !.tries = @ + 1])
            /\ UNCHANGED raised
       ELSE Return(t)
    /\ UNCHANGED <<clientVars, renewVars, fails, lockVars, status, phoneOn,
                   startVars, used, boundVars, historyVars>>

Deregistered(t) ==
    /\ At(t, "deregistered")
    /\ status' = IF Top(t).g = gen THEN "INACTIVE" ELSE status
    /\ Return(t)
    /\ UNCHANGED <<clientVars, renewVars, fails, lockVars, phoneOn, startVars,
                   used, boundVars, historyVars>>

-----------------------------------------------------------------------------
(* __start_register_timer() and the register thread.                       *)

Renew(t) ==
    /\ At(t, "renew")
    /\ IF nsd /\ Top(t).g = gen
       THEN /\ cancelled' = cancelled \cup ({event} \cap Timers)
            /\ event' = None
            /\ Go(t, "arm") /\ UNCHANGED raised
       ELSE Return(t) /\ UNCHANGED <<cancelled, event>>
    /\ UNCHANGED <<clientVars, renewing, fails, lockVars, status, phoneOn,
                   startVars, used, boundVars, historyVars>>

(* The new register thread waits for its delay, unless the run is over.    *)
Arm(t) ==
    /\ At(t, "arm")
    /\ LET g == Top(t).g IN
       IF ~nsd \/ g # gen
       THEN /\ Leave(t)
            /\ UNCHANGED <<event, renewing, used>>
       ELSE /\ renewing' = TRUE
            /\ IF Timers \subseteq used
               THEN /\ event' = Later
                    /\ Leave(t)
                    /\ UNCHANGED used
               ELSE \E w \in Timers \ used :
                        /\ event' = w
                        /\ used' = used \cup {w}
                        /\ stack' = [stack EXCEPT ![t] = Tail(@),
                                                  ![w] = <<Frame("delay", g, 0)>>]
    /\ UNCHANGED <<clientVars, cancelled, fails, lockVars, status, phoneOn,
                   startVars, raised, boundVars, historyVars>>

(* _run_delayed_register: cancelled during the delay, or it is over.       *)
Delayed(w) ==
    /\ At(w, "delay")
    /\ IF w \notin cancelled /\ nsd /\ Top(w).g = gen
       THEN Replace(w, Frame("register", gen, gen))
       ELSE Leave(w)
    /\ UNCHANGED <<clientVars, renewVars, fails, lockVars, status, phoneOn,
                   startVars, raised, used, boundVars, historyVars>>

-----------------------------------------------------------------------------
(* The receive thread.  Iterations that read nothing, or a message for     *)
(* another component, change nothing here and are left out: recv_loop()    *)
(* takes recvLock to read a failure of the stream.                         *)

LoopEnds(r) ==
    /\ At(r, "loop")
    /\ ~nsd \/ Top(r).g # gen \/ sock = 0
    /\ Leave(r)
    /\ UNCHANGED <<clientVars, renewVars, fails, lockVars, status, phoneOn,
                   startVars, raised, used, boundVars, historyVars>>

(* recv() takes the connection and the generation of this moment, and      *)
(* reads the failure of that connection.                                   *)
Receive(r) ==
    /\ At(r, "loop")
    /\ "stream" \in Faults
    /\ nsd /\ Top(r).g = gen /\ sock # 0
    /\ recvLock = None
    /\ Fault
    /\ recvLock' = r /\ lockRun' = gen
    /\ Invoke(r, "received", FailFrame(conn, gen, 0))
    /\ UNCHANGED <<clientVars, renewVars, fails, status, phoneOn, startVars,
                   raised, used, historyVars>>

Received(r) ==
    /\ At(r, "received")
    /\ Release(r, "loop") /\ Caught(r)
    /\ UNCHANGED <<clientVars, renewVars, fails, status, phoneOn, startVars,
                   used, boundVars, historyVars>>

-----------------------------------------------------------------------------
(* What a thread does without being asked; Delayed waits for its time.     *)
Step(t) ==
    \/ PhoneStarted(t)
    \/ SipStart(t) \/ Connect(t) \/ Open(t) \/ Publish(t) \/ Registered(t)
    \/ UndoStart(t) \/ Cleanup(t)
    \/ SipStop(t) \/ StopDetach(t)
    \/ PhoneStop(t) \/ PhoneOwned(t) \/ PhoneStopped(t)
    \/ Fail(t) \/ Failed(t)
    \/ Transact(t) \/ Send(t)
    \/ Answered(t) \/ Challenged(t) \/ TimedOut(t) \/ StreamFails(t) \/ Lost(t)
    \/ Commit(t) \/ Erred(t) \/ GaveUp(t)
    \/ ErredOff(t) \/ LeaveOff(t) \/ Deregistered(t)
    \/ Renew(t) \/ Arm(t)
    \/ LoopEnds(t) \/ Received(t)

Next ==
    \/ \E a \in Apps : PhoneStart(a) \/ StopPhone(a)
    \/ \E t \in Threads : Step(t)
    \/ \E w \in Timers : Delayed(w)
    \/ \E r \in Receivers : Receive(r)

Spec == Init /\ [][Next]_vars
FairSpec == Spec /\ \A t \in Threads : WF_vars(Step(t))

-----------------------------------------------------------------------------
(* A value of each variable's kind.                                        *)
TypeOK ==
    /\ gen \in Nat /\ nsd \in BOOLEAN /\ conn \in 0..gen /\ sock \in 0..gen
    /\ opened \subseteq 1..gen
    /\ event \in Timers \cup {None, Later} /\ renewing \in BOOLEAN
    /\ fails \in Nat
    /\ recvLock \in Threads \cup {None} /\ lockRun \in 0..gen
    /\ status \in {"INACTIVE", "REGISTERING", "REGISTERED", "DEREGISTERING",
                   "FAILED"}
    /\ phoneOn \in BOOLEAN /\ phoneGen \in Nat /\ starting \in BOOLEAN
    /\ startGen \in 0..gen \cup {None}
    /\ raised \in [Threads -> BOOLEAN]
    /\ cancelled \subseteq Timers
    /\ used \subseteq Receivers \cup Timers
    /\ stops \in 0..MaxStops
    /\ accepted \in 0..gen
    /\ torn \subseteq Receivers \cup Timers
    /\ faults \in 0..MaxFaults

(* Threads in the middle of an operation on the run.                       *)
Waiting(t) == At(t, "delay") \/ At(t, "loop")
Busy(t) == stack[t] # <<>> /\ ~Waiting(t)
Quiet == \A t \in Threads : ~Busy(t)

(* start(), stop() and failures may overlap in any way, each cleaning up   *)
(* only what it owns: in the end no socket but that of the running         *)
(* connection is open, and no register thread of a stopped run waits on.   *)
NothingLeft ==
    Quiet => /\ opened = IF nsd THEN {conn} ELSE {}
             /\ conn # 0 <=> nsd
             /\ \A w \in Timers : At(w, "delay") /\ w \notin cancelled
                                      => nsd /\ event = w

(* A run that is on and that nobody works on is going to register again    *)
(* (register() arms a register thread on every way out that keeps the run).*)
KeepsRegistering ==
    Quiet /\ nsd => /\ event # None /\ event \notin cancelled
                    /\ \/ event = Later
                       \/ At(event, "delay") /\ Top(event).g = gen

(* The phone says REGISTERED only of a run whose own REGISTER the server   *)
(* has accepted, and only while that run is on.                            *)
RegisteredIsThisRun ==
    [][status' = "REGISTERED" /\ status # "REGISTERED"
           => nsd' /\ gen' = accepted']_vars

(* start() and stop() come back, whatever fails and whoever else is at it: *)
(* the transactions they wait for end, and so does the wait for recvLock.  *)
CallsReturn == \A a \in Apps : stack[a] # <<>> ~> stack[a] = <<>>

-----------------------------------------------------------------------------
(* The inductive invariant of SIPRunProofs.                                *)

(* Where the frame is that will have the run register (again).             *)
RegisterLabels == {"register", "send", "wait", "lost", "commit", "erred",
                   "erredRetry", "gaveUp", "renew", "arm"}
ChainLabels == RegisterLabels \cup {"connect", "open", "publish", "delay"}
EarlyLabels == ChainLabels \cup {"sipStart"}
ClosingLabels == {"closeStart", "closeStop", "closeFailed"}
HoldingLabels == {"send", "wait", "lost", "sendOff", "waitOff", "lostOff",
                  "received"}
Labels == EarlyLabels \cup ClosingLabels \cup HoldingLabels \cup
          {"phoneStarted", "registered", "undoStart", "phoneStop", "phoneOwned",
           "phoneStopped", "sipStop", "detach", "fail", "report", "deregister",
           "again", "erredOff", "leaveOff", "deregistered", "loop"}

FrameType ==
    [at : Labels, g : Nat, ctx : Nat, phone : Nat, hops : SUBSET Hops,
     tries : Nat, conn : Nat, event : Timers \cup {None, Later},
     failed : BOOLEAN]
StackType == stack \in [Threads -> Seq(FrameType)]

(* What a frame may rely on.  A frame of an earlier run relies on nothing. *)
FrameOK(f) ==
    /\ f.g <= gen
    /\ f.at \in ChainLabels => f.g >= 1 /\ (f.g = gen => nsd)
    /\ f.at \in RegisterLabels => f.ctx = f.g
    /\ f.at \in {"open", "publish"} /\ f.g = gen => conn = gen
    /\ f.at = "commit" /\ f.g = gen => accepted = gen
    /\ f.at \in ClosingLabels =>
          /\ f.conn < gen
          /\ f.event \in Timers => f.event \in used \ {event}
FramesOK == \A t \in Threads : \A i \in 1..Len(stack[t]) : FrameOK(stack[t][i])

(* How routines nest on the stack s of a thread.                           *)
Nested(s) ==
    \A i \in 1..Len(s) :
        /\ s[i].at \in {"delay", "loop"} => Len(s) = 1
        /\ s[i].at = "received" => i = Len(s)
        /\ s[i].at \in EarlyLabels =>
              \A j \in 1..Len(s) :
                  j > i => s[j].at \in {"registered", "phoneStarted"}

(* register() has given up on the run that is on: it is being stopped.     *)
Stops(f) == /\ f.at \in {"sipStop", "detach"}
            /\ f.g = gen /\ f.ctx \in {0, gen}
Stopping(s) ==
    \A i \in 1..Len(s) : s[i].at = "gaveUp" /\ s[i].g = gen =>
        i > 1 /\ Stops(s[i - 1])

StacksOK == /\ \A t \in Threads : Nested(stack[t]) /\ Stopping(stack[t])
            /\ \A t \in Receivers \cup Timers : t \notin used => stack[t] = <<>>

LockInv == \A t \in Threads : recvLock = t =>
               \E i \in 1..Len(stack[t]) : stack[t][i].at \in HoldingLabels

(* One frame keeps the run registered,                                     *)
Registers(f) == f.at \in ChainLabels /\ f.g = gen
OneRegisters ==
    \A t, u \in Threads :
        \A i \in 1..Len(stack[t]), j \in 1..Len(stack[u]) :
            Registers(stack[t][i]) /\ Registers(stack[u][j]) => t = u /\ i = j

(* or start() undoes the run, or a register thread waits to do it.         *)
Works(f) == f.at \in (ChainLabels \ {"delay"}) \cup {"undoStart"} /\ f.g = gen
Armed == /\ event \in Timers \ cancelled
         /\ At(event, "delay") /\ Top(event).g = gen
KeptAlive == nsd => \/ \E t \in Threads : \E i \in 1..Len(stack[t]) :
                           Works(stack[t][i])
                    \/ event = Later
                    \/ Armed

(* Who closes a socket that is open, and who opens that of the run.        *)
Closes(t, c) == /\ stack[t] # <<>>
                /\ \/ Top(t).at \in ClosingLabels /\ Top(t).conn = c
                   \/ Top(t).at = "publish" /\ Top(t).g = c
Opens(t) == /\ stack[t] # <<>>
            /\ Top(t).at \in {"connect", "open", "undoStart"} /\ Top(t).g = gen
SocketInv ==
    /\ conn # 0 => nsd /\ conn = gen
    /\ \A c \in opened : c = conn \/ \E t \in Threads : Closes(t, c)
    /\ nsd => \/ conn = gen /\ gen \in opened
              \/ \E t \in Threads : Opens(t)

(* Who cancels a register thread that waits.                               *)
Cancels(t, w) == /\ stack[t] # <<>>
                 /\ Top(t).at \in ClosingLabels /\ Top(t).event = w
TimerInv ==
    /\ event \in Timers => event \in used
    /\ cancelled \subseteq used
    /\ \A w \in Timers : At(w, "delay") =>
          /\ event = w => nsd /\ Top(w).g = gen
          /\ w \in cancelled \/ event = w \/ \E t \in Threads : Cancels(t, w)

IInv == /\ TypeOK
        /\ StackType
        /\ FramesOK
        /\ StacksOK
        /\ LockInv
        /\ OneRegisters
        /\ KeptAlive
        /\ SocketInv
        /\ TimerInv

(* CHANGELOG 2.10.5: "stale receivers, timers, transactions, and           *)
(* startup/shutdown completions cannot modify a restarted client": what    *)
(* a receive thread ends is one run.                                       *)
ReceiversOwnTheirRun == torn \cap Receivers = {}

=============================================================================
