--------------------------- MODULE Subscriptions ---------------------------
(***************************************************************************)
(* SUBSCRIBE and NOTIFY of SIPClient (rfcvoip/SIP.py, SIPSubscription.py): *)
(* subscribe_to(), unsubscribe_from(), the NOTIFY handler with its replay  *)
(* cache, late responses to SUBSCRIBE, and the queue of application        *)
(* callbacks, which are called with no lock held.                          *)
(*                                                                         *)
(* Runs are numbered by _run_generation: start() makes it odd, the detach  *)
(* of the run in stop() even.  The receive thread of a run is named by the *)
(* run.  The network loses, repeats and reorders: any message of a         *)
(* subscription that was asked for may be read at any time.  A NOTIFY is   *)
(* known by its CSeq; the one numbered MaxNotify is the terminal one.      *)
(***************************************************************************)
EXTENDS Naturals, Sequences, SequencesExt, FiniteSets

CONSTANTS
    Apps,       \* application threads
    Subs,       \* subscriptions: what subscribe_to() is called for
    None,
    MaxRetries, \* subscription_max_retries
    CacheSize,  \* entries the NOTIFY response cache keeps (128)
    MaxStarts,  \* bound: start() calls
    MaxNotify,  \* bound: CSeq of the notifier
    MaxReads,   \* bound: messages read
    MaxAsks,    \* bound: SUBSCRIBE requests before unsubscribe_from()
    Codes,      \* final responses: ok (2xx), challenge (401), fail, gone (481)
    Faults      \* {"send"} when sending a message may fail

ASSUME ConstantsAssumption ==
    /\ Apps \cap Nat = {} /\ None \notin Apps \cup Subs \cup Nat
    /\ MaxRetries \in Nat /\ CacheSize \in Nat \ {0}
    /\ MaxStarts \in Nat /\ MaxNotify \in Nat \ {0} /\ MaxReads \in Nat
    /\ MaxAsks \in Nat /\ Codes \subseteq {"ok", "challenge", "fail", "gone"}
    /\ Faults \subseteq {"send"}

VARIABLES
    gen,        \* _run_generation
    recvLock,   \* thread that holds recvLock
    subs,       \* subscriptions: the table of the current run
    tags,       \* subscriptions whose local tag is in tagLibrary
    sub,        \* the SIPSubscription objects
    cache,      \* _notify_response_cache: answered NOTIFYs, oldest first
    queue,      \* _pending_subscription_callbacks
    draining,   \* _subscription_callbacks_running
    thread,     \* what each thread is at
    reads,      \* messages read so far
    \* history
    delivered,  \* events given to the callback while their run was on
    answered,   \* NOTIFYs answered with 200
    refused,    \* NOTIFYs answered with 481 or 500 in this run
    kept,       \* NOTIFYs remembered since the run began, in order
    live,       \* subscribe_to() has returned them
    ended       \* ended by the server, or by the end of their run

history == <<delivered, answered, refused, kept, live, ended>>
vars == <<gen, recvLock, subs, tags, sub, cache, queue, draining, thread,
          reads, history>>

Receivers == {2 * k - 1 : k \in 1..MaxStarts}
Threads == Apps \cup Receivers
nsd == gen % 2 = 1              \* NSD: a run is on
Deque == gen \div 2             \* the callback queue of the moment
Note(s, n) == [sub |-> s, n |-> n]
StateOf(n) == IF n = MaxNotify THEN "terminated" ELSE "active"

(* at: label; g: run; zero: previous_pending is 0; res: how the transaction*)
(* went; note: NOTIFY or event in hand; deque: the queue being drained;    *)
(* held: the table of a detached run.                                      *)
Idle == [at |-> "idle", g |-> 0, sub |-> None, goal |-> "none", tries |-> 0,
         zero |-> FALSE, res |-> "none", note |-> None, deque |-> 0,
         held |-> {}]

Fresh == [run |-> 0, local |-> 0, answered |-> 0, remote |-> 0,
          state |-> "none", status |-> "pending", zero |-> FALSE]

Init ==
    /\ gen = 0 /\ recvLock = None
    /\ subs = {} /\ tags = {} /\ sub = [s \in Subs |-> Fresh]
    /\ cache = <<>> /\ queue = <<>> /\ draining = FALSE
    /\ thread = [t \in Threads |-> Idle]
    /\ reads = 0
    /\ delivered = <<>> /\ answered = {} /\ refused = {} /\ kept = <<>>
    /\ live = {} /\ ended = {}

At(t, label) == thread[t].at = label
Go(t, label) == thread' = [thread EXCEPT ![t].at = label]
Put(t, label) == thread' = [thread EXCEPT ![t].at = label, ![t].note = None]
End(t, label, res) ==
    thread' = [thread EXCEPT ![t].at = label, ![t].res = res, ![t].note = None]

(* Once a message is handled a transaction reads on, the receive loop      *)
(* gives recvLock back; when handling it raises both give it back.         *)
Handled(t) == Put(t, IF t \in Apps THEN "wait" ELSE "release")
Raises(t) == End(t, "release", IF t \in Apps THEN "raise" ELSE "none")

(* send_raw() refuses a thread whose run is over.                          *)
Sends(t) == thread[t].g = gen
SendFails(t) == ~Sends(t) \/ "send" \in Faults

-----------------------------------------------------------------------------
(* Start and stop of a run.  A stop() that finds no run has no effect here *)
(* and is left out; registration is in SIPRun.                             *)

Start(a) ==
    /\ At(a, "idle")
    /\ ~nsd /\ Deque < MaxStarts
    /\ gen' = gen + 1
    /\ thread' = [thread EXCEPT ![gen + 1] =
                      [Idle EXCEPT !.at = "loop", !.g = gen + 1]]
    /\ UNCHANGED <<recvLock, subs, tags, sub, cache, queue, draining, reads,
                   history>>

(* _detach_run(): the table, the cache and the queue are replaced.         *)
Stop(a) ==
    /\ At(a, "idle")
    /\ nsd
    /\ gen' = gen + 1
    /\ thread' = [thread EXCEPT ![a] = [Idle EXCEPT !.at = "clear",
                                                    !.held = subs]]
    /\ subs' = {} /\ cache' = <<>> /\ queue' = <<>> /\ draining' = FALSE
    /\ ended' = ended \cup subs
    /\ refused' = {} /\ kept' = <<>>
    /\ UNCHANGED <<recvLock, tags, sub, reads, delivered, answered, live>>

(* _clear_subscriptions() of what was detached.                            *)
Clear(a) ==
    /\ At(a, "clear")
    /\ LET held == thread[a].held IN
       /\ tags' = tags \ held
       /\ sub' = [s \in Subs |->
                    IF s \in held
                    THEN [sub[s] EXCEPT !.state = "terminated",
                                        !.status = "terminated"]
                    ELSE sub[s]]
    /\ thread' = [thread EXCEPT ![a] = Idle]
    /\ UNCHANGED <<gen, recvLock, subs, cache, queue, draining, reads, history>>

-----------------------------------------------------------------------------
(* subscribe_to() and unsubscribe_from().                                  *)

Subscribe(a, s) ==
    /\ At(a, "idle")
    /\ nsd
    /\ sub[s].run = 0
    /\ sub' = [sub EXCEPT ![s].run = gen]
    /\ thread' = [thread EXCEPT ![a] = [Idle EXCEPT !.at = "create", !.g = gen,
                                            !.sub = s, !.goal = "subscribe"]]
    /\ UNCHANGED <<gen, recvLock, subs, tags, cache, queue, draining, reads,
                   history>>

Create(a) ==
    /\ At(a, "create")
    /\ subs' = subs \cup {thread[a].sub}
    /\ tags' = tags \cup {thread[a].sub}
    /\ Go(a, "transact")
    /\ UNCHANGED <<gen, recvLock, sub, cache, queue, draining, reads, history>>

Unsubscribe(a, s) ==
    /\ At(a, "idle")
    /\ nsd
    /\ s \in subs
    /\ sub[s].local < MaxAsks
    /\ thread' = [thread EXCEPT ![a] = [Idle EXCEPT !.at = "transact", !.g = gen,
                      !.sub = s, !.goal = "unsubscribe", !.zero = sub[s].zero]]
    /\ sub' = [sub EXCEPT ![s].zero = TRUE]
    /\ UNCHANGED <<gen, recvLock, subs, tags, cache, queue, draining, reads,
                   history>>

(* _receive_transaction(generation).                                       *)
Transact(a) ==
    /\ At(a, "transact")
    /\ recvLock = None
    /\ IF thread[a].g = gen THEN recvLock' = a /\ Go(a, "ask")
       ELSE End(a, "drain", "raise") /\ UNCHANGED recvLock
    /\ UNCHANGED <<gen, subs, tags, sub, cache, queue, draining, reads, history>>

(* _build_subscribe_request() takes the next CSeq; then it is sent.        *)
Ask(a) ==
    /\ At(a, "ask")
    /\ sub' = [sub EXCEPT ![thread[a].sub].local = @ + 1]
    /\ \/ Sends(a) /\ Go(a, "wait")
       \/ SendFails(a) /\ Raises(a)
    /\ UNCHANGED <<gen, recvLock, subs, tags, cache, queue, draining, reads,
                   history>>

(* subscription_timeout, or the run is over.                               *)
TimeOut(a) ==
    /\ a \in Apps /\ At(a, "wait")
    /\ Raises(a)
    /\ UNCHANGED <<gen, recvLock, subs, tags, sub, cache, queue, draining,
                   reads, history>>

(* Everyone who gives recvLock back looks after the callbacks next.        *)
Release(t) ==
    /\ At(t, "release")
    /\ recvLock' = None
    /\ Go(t, "drain")
    /\ UNCHANGED <<gen, subs, tags, sub, cache, queue, draining, reads, history>>

\* Mutant: what failed is not rolled back.
LeaveRegistered(a) ==
    /\ At(a, "leave")
    /\ live' = IF thread[a].goal = "subscribe" /\ thread[a].res = "ok"
               THEN live \cup {thread[a].sub} ELSE live
    /\ thread' = [thread EXCEPT ![a] = Idle]
    /\ UNCHANGED <<gen, recvLock, subs, tags, sub, cache, queue, draining, reads,
                   delivered, answered, refused, kept, ended>>

(* After the transaction: a run that is over makes it raise as well.       *)
Leave(a) ==
    /\ At(a, "leave")
    /\ LET f == thread[a]
           good == f.res = "ok" /\ f.g = gen IN
       IF f.goal = "subscribe"
       THEN /\ live' = IF good THEN live \cup {f.sub} ELSE live
            /\ IF good THEN UNCHANGED <<subs, tags>>
               ELSE subs' = subs \ {f.sub} /\ tags' = tags \ {f.sub}
            /\ UNCHANGED sub
       ELSE /\ sub' = IF good THEN sub ELSE [sub EXCEPT ![f.sub].zero = f.zero]
            /\ UNCHANGED <<subs, tags, live>>
    /\ thread' = [thread EXCEPT ![a] = Idle]
    /\ UNCHANGED <<gen, recvLock, cache, queue, draining, reads, delivered,
                   answered, refused, kept, ended>>

-----------------------------------------------------------------------------
(* _apply_subscribe_response().  Only the response to the latest request   *)
(* counts, and only once; a provisional one is passed over.                *)

Matches(s) == sub[s].local > 0 /\ sub[s].local # sub[s].answered

Status(s, code) ==
    CASE code = "ok" /\ sub[s].zero -> "cancelling"
      [] code = "gone" -> "terminated"
      [] OTHER -> IF sub[s].state \in {"active", "pending"} THEN sub[s].state
                  ELSE IF code = "ok" THEN "pending" ELSE "failed"

Apply(s, code) ==
    sub' = [sub EXCEPT ![s].answered = sub[s].local, ![s].status = Status(s, code)]

(* _emit_subscription_event(): recvLock is held, so nothing is called back *)
(* yet.                                                                    *)
Enqueue(event) == queue' = Append(queue, event)

Discard(s) == subs' = subs \ {s} /\ tags' = tags \ {s}

(* The response a transaction waits for.                                   *)
Answered(a, code) ==
    LET f == thread[a] IN
    IF code = "challenge" /\ f.tries < MaxRetries
    THEN /\ thread' = [thread EXCEPT ![a].at = "ask", ![a].tries = @ + 1]
         /\ UNCHANGED <<subs, tags, sub, ended>>
    ELSE /\ IF f.sub \in subs THEN Apply(f.sub, code) ELSE UNCHANGED sub
         /\ IF code = "gone" THEN Discard(f.sub) /\ ended' = ended \cup {f.sub}
            ELSE UNCHANGED <<subs, tags, ended>>
         /\ End(a, "release",
                IF code = "ok" \/ (code = "gone" /\ f.goal = "unsubscribe")
                THEN "ok" ELSE "raise")

(* A response that nobody waits for is applied and reported.               *)
Late(t, s, code) ==
    /\ IF s \in subs
       THEN /\ Apply(s, code)
            /\ Enqueue(Note(s, 0))
            /\ IF code = "gone" THEN Discard(s) /\ ended' = ended \cup {s}
               ELSE UNCHANGED <<subs, tags, ended>>
       ELSE UNCHANGED <<subs, tags, sub, queue, ended>>
    /\ Handled(t)

(* Reading a message: recv() of a thread whose run is over may still read  *)
(* from the connection of the next one.                                    *)
Reads(t) ==
    /\ At(t, "wait")
    /\ IF t \in Apps THEN thread[t].g = gen ELSE nsd
    /\ reads < MaxReads
    /\ reads' = reads + 1

ReadResponse(t, s, code) ==
    /\ Reads(t)
    /\ Matches(s)
    /\ IF t \in Apps /\ thread[t].sub = s
       THEN Answered(t, code) /\ UNCHANGED queue
       ELSE Late(t, s, code)
    /\ UNCHANGED <<gen, recvLock, cache, draining, delivered, answered, refused,
                   kept, live>>

-----------------------------------------------------------------------------
(* _handle_notify().                                                       *)

(* The checks, under _subscription_lock in the end, and the refusals.  The *)
(* subscription is updated before the NOTIFY is answered.                  *)
ReadNotify(t, s, n) ==
    /\ Reads(t)
    /\ sub[s].local > 0
    /\ \/ /\ Note(s, n) \notin ToSet(cache)
          /\ s \in subs /\ n > sub[s].remote
          /\ sub' = [sub EXCEPT ![s].state = StateOf(n), ![s].status = StateOf(n)]
          /\ thread' = [thread EXCEPT ![t].at = "answer", ![t].note = Note(s, n)]
          /\ UNCHANGED refused
       \/ /\ Note(s, n) \in ToSet(cache) \/ s \notin subs \/ n <= sub[s].remote
          /\ \/ /\ Sends(t) /\ Handled(t)
                /\ refused' = IF Note(s, n) \in ToSet(cache) THEN refused
                              ELSE refused \cup {Note(s, n)}
             \/ SendFails(t) /\ Raises(t) /\ UNCHANGED refused
          /\ UNCHANGED sub
    /\ UNCHANGED <<gen, recvLock, subs, tags, cache, queue, draining, delivered,
                   answered, kept, live, ended>>

\* Mutant: the failure of the answer goes unnoticed.
AnswerAnyway(t) ==
    /\ At(t, "answer")
    /\ \/ Sends(t) /\ answered' = answered \cup {thread[t].note}
       \/ SendFails(t) /\ UNCHANGED answered
    /\ Go(t, "remember")
    /\ UNCHANGED <<gen, recvLock, subs, tags, sub, cache, queue, draining,
                   reads, delivered, refused, kept, live, ended>>

(* 200; a NOTIFY that cannot be answered is handled anew when it is sent   *)
(* again.                                                                  *)
Answer(t) ==
    /\ At(t, "answer")
    /\ \/ Sends(t) /\ Go(t, "remember")
          /\ answered' = answered \cup {thread[t].note}
       \/ SendFails(t) /\ Raises(t) /\ UNCHANGED answered
    /\ UNCHANGED <<gen, recvLock, subs, tags, sub, cache, queue, draining,
                   reads, delivered, refused, kept, live, ended>>

\* Mutant: when the cache is full the new entry goes.
RememberOldest(t) ==
    /\ At(t, "remember")
    /\ sub' = [sub EXCEPT ![thread[t].note.sub].remote = thread[t].note.n]
    /\ cache' = IF Len(cache) >= CacheSize THEN cache
                ELSE Append(cache, thread[t].note)
    /\ kept' = Append(kept, thread[t].note)
    /\ Go(t, "emit")
    /\ UNCHANGED <<gen, recvLock, subs, tags, queue, draining, reads,
                   delivered, answered, refused, live, ended>>

(* An entry that is there already keeps its place.  Its expiry after 32    *)
(* seconds is left out: it can only happen once a NOTIFY is not repeated   *)
(* any more.                                                               *)
Remember(t) ==
    /\ At(t, "remember")
    /\ LET note == thread[t].note
           all == IF note \in ToSet(cache) THEN cache ELSE Append(cache, note) IN
       /\ sub' = [sub EXCEPT ![note.sub].remote = note.n]
       /\ cache' = IF Len(all) > CacheSize THEN Tail(all) ELSE all
       /\ kept' = Append(kept, note)
    /\ Go(t, "emit")
    /\ UNCHANGED <<gen, recvLock, subs, tags, queue, draining, reads,
                   delivered, answered, refused, live, ended>>

(* The event is queued, whichever run is on now; the terminal one ends the *)
(* subscription.                                                           *)
Emit(t) ==
    /\ At(t, "emit")
    /\ LET note == thread[t].note IN
       /\ Enqueue(note)
       /\ IF StateOf(note.n) = "terminated"
          THEN Discard(note.sub) /\ ended' = ended \cup {note.sub}
          ELSE UNCHANGED <<subs, tags, ended>>
    /\ Handled(t)
    /\ UNCHANGED <<gen, recvLock, sub, cache, draining, reads, delivered,
                   answered, refused, kept, live>>

-----------------------------------------------------------------------------
(* recv_loop() of the receive thread.                                      *)

Loop(r) ==
    /\ At(r, "loop")
    /\ IF thread[r].g = gen
       THEN recvLock = None /\ recvLock' = r /\ Go(r, "wait")
       ELSE (Go(r, "idle") \/ Go(r, "drain")) /\ UNCHANGED recvLock
    /\ UNCHANGED <<gen, subs, tags, sub, cache, queue, draining, reads, history>>

ReadNothing(r) ==
    /\ r \in Receivers /\ At(r, "wait")
    /\ Go(r, "release")
    /\ UNCHANGED <<gen, recvLock, subs, tags, sub, cache, queue, draining,
                   reads, history>>

-----------------------------------------------------------------------------
(* _drain_subscription_callbacks().                                        *)

Drained(t) ==
    thread' = [thread EXCEPT ![t].at = IF t \in Apps THEN "leave" ELSE "loop",
                             ![t].deque = 0]

(* The queue is looked at without a lock.                                  *)
Drain(t) ==
    /\ At(t, "drain")
    /\ IF queue = <<>> THEN Drained(t)
       ELSE thread' = [thread EXCEPT ![t].at = "claim", ![t].deque = Deque]
    /\ UNCHANGED <<gen, recvLock, subs, tags, sub, cache, queue, draining,
                   reads, history>>

\* Mutant: two threads may call back at a time.
ClaimAnyway(t) ==
    /\ At(t, "claim")
    /\ Go(t, "take")
    /\ draining' = TRUE
    /\ UNCHANGED <<gen, recvLock, subs, tags, sub, cache, queue, reads, history>>

Claim(t) ==
    /\ At(t, "claim")
    /\ IF draining THEN Drained(t) ELSE Go(t, "take")
    /\ draining' = TRUE
    /\ UNCHANGED <<gen, recvLock, subs, tags, sub, cache, queue, reads, history>>

Take(t) ==
    /\ At(t, "take")
    /\ IF thread[t].deque # Deque \/ queue = <<>>
       THEN Go(t, "yield") /\ UNCHANGED queue
       ELSE /\ thread' = [thread EXCEPT ![t].at = "call", ![t].note = Head(queue)]
            /\ queue' = Tail(queue)
    /\ UNCHANGED <<gen, recvLock, subs, tags, sub, cache, draining, reads,
                   history>>

Call(t) ==
    /\ At(t, "call")
    /\ delivered' = IF sub[thread[t].note.sub].run = gen
                    THEN Append(delivered, thread[t].note) ELSE delivered
    /\ Put(t, "take")
    /\ UNCHANGED <<gen, recvLock, subs, tags, sub, cache, queue, draining,
                   reads, answered, refused, kept, live, ended>>

\* Mutant: the flag is left set.
YieldStillDraining(t) ==
    /\ At(t, "yield")
    /\ Drained(t)
    /\ UNCHANGED <<gen, recvLock, subs, tags, sub, cache, queue, draining,
                   reads, history>>

(* finally clause: only the flag of the drained queue is reset; events     *)
(* that came meanwhile are left to the thread that holds recvLock, if any. *)
Yield(t) ==
    /\ At(t, "yield")
    /\ IF thread[t].deque = Deque
       THEN /\ draining' = FALSE
            /\ IF queue # <<>> /\ recvLock = None THEN Go(t, "drain")
               ELSE Drained(t)
       ELSE Drained(t) /\ UNCHANGED draining
    /\ UNCHANGED <<gen, recvLock, subs, tags, sub, cache, queue, reads, history>>

-----------------------------------------------------------------------------
Step(t) ==
    \/ Clear(t) \/ Create(t) \/ Transact(t) \/ Ask(t) \/ TimeOut(t) \/ Leave(t)
    \/ Loop(t) \/ ReadNothing(t)
    \/ Release(t) \/ Answer(t) \/ Remember(t) \/ Emit(t)
    \/ Drain(t) \/ Claim(t) \/ Take(t) \/ Call(t) \/ Yield(t)

Next ==
    \/ \E a \in Apps : Start(a) \/ Stop(a)
    \/ \E a \in Apps, s \in Subs : Subscribe(a, s) \/ Unsubscribe(a, s)
    \/ \E t \in Threads, s \in Subs :
          \/ \E code \in Codes : ReadResponse(t, s, code)
          \/ \E n \in 1..MaxNotify : ReadNotify(t, s, n)
    \/ \E t \in Threads : Step(t)

Spec == Init /\ [][Next]_vars

-----------------------------------------------------------------------------
(* A value of each variable's kind.                                        *)
Notes == [sub : Subs, n : 0..MaxNotify]
TypeOK ==
    /\ gen \in 0..2 * MaxStarts /\ recvLock \in Threads \cup {None}
    /\ subs \subseteq Subs /\ tags \subseteq Subs
    /\ \A s \in Subs : sub[s].answered <= sub[s].local /\ sub[s].remote <= MaxNotify
    /\ cache \in Seq(Notes) /\ Len(cache) <= CacheSize
    /\ queue \in Seq(Notes) /\ draining \in BOOLEAN
    /\ recvLock # None =>
           thread[recvLock].at \in {"ask", "wait", "answer", "remember", "emit",
                                    "release"}

(* Events reach the application in the order of the notifier's CSeq, none  *)
(* twice and none after the terminal one, whichever threads call back and  *)
(* whatever the network repeats or reorders.                               *)
DeliveredInOrder ==
    \A i, j \in 1..Len(delivered) :
        /\ i < j
        /\ delivered[i].sub = delivered[j].sub
        /\ delivered[i].n > 0 /\ delivered[j].n > 0
        => delivered[i].n < delivered[j].n

(* A NOTIFY is reported exactly when it was answered with 200: nothing the *)
(* notifier holds for received is lost, nothing it will repeat is reported *)
(* before (of subscriptions of the running run, with no NOTIFY in hand).   *)
InHand(t) == thread[t].at \in {"answer", "remember", "emit"}
Reported == ToSet(delivered) \cup ToSet(queue)
                \cup {thread[t].note : t \in {u \in Threads : At(u, "call")}}
ReportedIffAnswered ==
    (\A t \in Threads : ~InHand(t)) /\ nsd =>
        \A s \in Subs, n \in 1..MaxNotify :
            sub[s].run = gen => (Note(s, n) \in answered <=> Note(s, n) \in Reported)

(* CHANGELOG 2.10.4: "replay successful terminal notifications after       *)
(* subscription cleanup": one of the last CacheSize NOTIFYs remembered is  *)
(* never refused when it is repeated, its subscription gone or not.        *)
RepeatsAnsweredAlike ==
    \A i \in 1..Len(kept) : i > Len(kept) - CacheSize => kept[i] \notin refused

Quiet == \A t \in Threads : thread[t].at \in {"idle", "loop"}
(* subscribe_to() that failed, a terminal NOTIFY, a 481 or the end of the  *)
(* run leave no entry and no tag; a subscription that was returned stays   *)
(* in the table until one of those.                                        *)
TableMatchesOutcome ==
    Quiet => /\ subs = tags
             /\ subs = live \ ended
             /\ ~nsd => subs = {}

(* Nothing is left in the queue once everyone is through, so no event of   *)
(* the first run waits for a later one to be called back.                  *)
NothingLeftToDeliver == Quiet /\ gen = 1 => queue = <<>>

(* The same of every run.  CHANGELOG 2.10.5: "Deliver subscription         *)
(* callbacks after releasing receive locks".                               *)
NothingEverLeft == Quiet /\ nsd => queue = <<>>

-----------------------------------------------------------------------------
(* The inductive invariant of SubscriptionsProofs.                         *)

LockLabels == {"ask", "wait", "answer", "remember", "emit", "release"}
HandLabels == {"answer", "remember", "emit"}
DrainLabels == {"take", "call", "yield"}
RestLabels == {"idle", "clear", "loop"}
AppLabels == {"create", "transact", "ask", "leave", "clear"}
Labels == RestLabels \cup LockLabels \cup DrainLabels \cup AppLabels
              \cup {"drain", "claim"}

SubType ==
    [run : Nat, local : Nat, answered : Nat, remote : Nat,
     state : {"none", "active", "terminated"},
     status : {"pending", "active", "cancelling", "terminated", "failed"},
     zero : BOOLEAN]
ThreadType ==
    [at : Labels, g : Nat, sub : Subs \cup {None},
     goal : {"none", "subscribe", "unsubscribe"}, tries : Nat, zero : BOOLEAN,
     res : {"none", "ok", "raise"}, note : Notes \cup {None}, deque : Nat,
     held : SUBSET Subs]
DataType ==
    /\ sub \in [Subs -> SubType] /\ thread \in [Threads -> ThreadType]
    /\ delivered \in Seq(Notes) /\ answered \subseteq Notes
    /\ refused \subseteq Notes /\ kept \in Seq(Notes)
    /\ live \subseteq Subs /\ ended \subseteq Subs

(* What a thread is at, and of which run.                                  *)
Placed(t) ==
    LET f == thread[t] IN
    /\ t \notin Apps => f.goal = "none" /\ f.at \notin AppLabels
    /\ t \in Apps => f.at # "loop"
    /\ f.at \in RestLabels => f.goal = "none" /\ f.sub = None
    /\ t \notin Apps => f.sub = None
    /\ t \in Apps /\ f.at \notin RestLabels =>
          f.goal # "none" /\ f.sub \in Subs /\ f.g % 2 = 1
    /\ t \notin Apps /\ t > gen => f.at = "idle"
    /\ f.g <= gen
    /\ f.deque <= Deque
PlaceInv == \A t \in Threads : Placed(t)

LockInv == \A t \in Threads : thread[t].at \in LockLabels <=> recvLock = t

(* subscribe_to() works on s.                                              *)
Subscribing(t, s) == thread[t].goal = "subscribe" /\ thread[t].sub = s
Unknown(s) ==
    /\ s \notin subs \cup tags \cup live \cup ended
    /\ sub[s].local = 0

(* The table, the tags and the outcomes tell the same, up to the threads   *)
(* that are going to make them.                                            *)
Tabled(s) ==
    /\ sub[s].run <= gen
    /\ sub[s].run = 0 => Unknown(s) /\ \A t \in Threads : thread[t].sub # s
    /\ \A t, u \in Threads : Subscribing(t, s) /\ Subscribing(u, s) => t = u
    /\ \A t \in Threads : At(t, "create") /\ thread[t].sub = s => Subscribing(t, s)
    /\ \A t \in Threads : Subscribing(t, s) =>
          /\ s \notin live
          /\ ~At(t, "create") => s \in subs \cup ended
          /\ At(t, "create") =>
                Unknown(s) /\ \A u \in Threads : thread[u].sub = s => u = t
    /\ s \in subs =>
          /\ s \in tags /\ s \notin ended
          /\ s \in live \/ \E t \in Threads : Subscribing(t, s)
    /\ s \in live => s \in subs \cup ended
    /\ s \in live \cap subs => nsd
    /\ s \in tags \ subs => \E t \in Threads : At(t, "clear") /\ s \in thread[t].held
    /\ \A t \in Threads : s \in thread[t].held => s \in ended
TableInv == \A s \in Subs : Tabled(s)

(* A NOTIFY that has been answered is no later than the one its            *)
(* subscription remembers; one in hand is later until it is remembered.    *)
Past(k) == sub[k.sub].local > 0 /\ k.n <= sub[k.sub].remote
Above(e, k) == e.sub = k.sub /\ e.n > 0 /\ k.n > 0 => k.n < e.n
HandInv ==
    \A t \in Threads : InHand(t) =>
        LET e == thread[t].note IN
        /\ e \in Notes /\ e.n > 0 /\ sub[e.sub].local > 0
        /\ ~At(t, "emit") => e.n > sub[e.sub].remote /\ e \notin refused
        /\ At(t, "emit") => e.n <= sub[e.sub].remote
                            /\ \A k \in Reported : Above(e, k)
        /\ ~At(t, "answer") => e \in answered

(* The cache is the end of what was remembered, and none of it is refused. *)
CacheInv ==
    /\ Len(cache) <= Len(kept)
    /\ Len(cache) = CacheSize \/ Len(cache) = Len(kept)
    /\ \A i \in 1..Len(cache) :
          /\ cache[i] = kept[Len(kept) - Len(cache) + i]
          /\ Past(cache[i]) /\ cache[i] \notin refused
    /\ \A k \in refused : /\ sub[k.sub].local > 0
                          /\ k.sub \notin subs \/ k.n <= sub[k.sub].remote

(* Events are on their way in order: delivered, in the hands of the thread *)
(* that calls back, queued.                                                *)
Current(k) == sub[k.sub].run = gen
OrderInv ==
    /\ \A k \in Reported : Past(k)
    /\ \A i, j \in 1..Len(delivered) : i < j => Above(delivered[j], delivered[i])
    /\ \A i, j \in 1..Len(queue) : i < j => Above(queue[j], queue[i])
    /\ \A i \in 1..Len(delivered), j \in 1..Len(queue) : Above(queue[j], delivered[i])
    /\ \A t \in Threads : At(t, "call") =>
          LET c == thread[t].note IN
          /\ c \in Notes
          /\ \A j \in 1..Len(queue) : Above(queue[j], c)
          /\ Current(c) => /\ thread[t].deque = Deque
                           /\ \A i \in 1..Len(delivered) : Above(c, delivered[i])

(* One thread drains the queue of the moment.                              *)
Drains(t) == thread[t].at \in DrainLabels /\ thread[t].deque = Deque
DrainInv ==
    /\ \A t, u \in Threads : Drains(t) /\ Drains(u) => t = u
    /\ \A t \in Threads : Drains(t) => draining

AnswerInv ==
    /\ \A k \in Reported : k.n > 0 => k \in answered
    /\ \A k \in answered :
          /\ sub[k.sub].run > 0
          /\ Current(k) => \/ k \in Reported
                           \/ \E t \in Threads : /\ thread[t].note = k
                                                 /\ thread[t].at \in {"remember", "emit"}

(* In the first run no event is left in the queue: somebody looks after it.*)
DrainLeft ==
    gen <= 1 =>
        /\ draining => \E t \in Threads : thread[t].at \in DrainLabels
        /\ queue # <<>> =>
              \E t \in Threads : thread[t].at \in LockLabels \cup DrainLabels
                                                      \cup {"drain", "claim"}

IInv == /\ TypeOK
        /\ DataType
        /\ PlaceInv
        /\ LockInv
        /\ TableInv
        /\ HandInv
        /\ CacheInv
        /\ OrderInv
        /\ DrainInv
        /\ AnswerInv
        /\ DrainLeft

=============================================================================
