------------------------- MODULE OutboundCallProofs -------------------------
(***************************************************************************)
(* Proofs about OutboundCall: the inductive invariant IInv, and from it    *)
(* that a call has one answerer, that it stays ended, that a late 2xx is   *)
(* recognised, that a failed call() leaves nothing and that every repeated *)
(* INVITE was asked for.  Then PortInv: ports are held by one call each    *)
(* and CallLifecycle is implemented, as long as no call that gave its port *)
(* back enters it in assignedPorts again.                                  *)
(***************************************************************************)
EXTENDS OutboundCall, FiniteSetTheorems, TLAPS

Kept(t) == /\ pc'[t] = pc[t] /\ routine'[t] = routine[t]
           /\ cur'[t] = cur[t] /\ dial'[t] = dial[t]

(* What Done does to the thread and to the lock.                           *)
LEMMA DoneFacts ==
    ASSUME TypeOK, NEW t \in Threads, NEW b \in BOOLEAN, Done(t, b),
           LockInv(t)
    PROVE  /\ \A u \in Threads \ {t} : Kept(u)
           /\ cur'[t] = None /\ routine'[t] = "none" /\ tried' = tried
           /\ pc'[t] = IF InTransaction(t) THEN "wait"
                       ELSE IF routine[t] = "reclaim" THEN "port" ELSE "idle"
           /\ dial'[t] = IF InTransaction(t) \/ routine[t] = "reclaim"
                         THEN dial[t] ELSE None
           /\ recvLock' = IF t = Recv THEN None ELSE recvLock
           /\ pc' \in [Threads -> Labels] /\ routine' \in [Threads -> Routines]
           /\ cur' \in [Threads -> Calls \cup {None}]
           /\ seq' \in [Threads -> 0..(MaxRetries + 1)]
           /\ dial' \in [Threads -> Calls \cup {None}]
           /\ handed' \subseteq Calls /\ recvLock' \in Threads \cup {None}
<1> USE ConstantsAssumption DEF TypeOK
<1>1. /\ routine' = [routine EXCEPT ![t] = "none"]
      /\ cur' = [cur EXCEPT ![t] = None] /\ seq' = [seq EXCEPT ![t] = 0]
      /\ pc' = [pc EXCEPT ![t] =
                   IF InTransaction(t) THEN "wait"
                   ELSE IF routine[t] = "reclaim" THEN "port" ELSE "idle"]
      /\ tried' = tried /\ recvLock' = IF t = Recv THEN None ELSE recvLock
  <2>1. ~(InTransaction(t) /\ routine[t] = "reclaim")
    BY DEF LockInv, InTransaction
  <2> QED
    BY <2>1 DEF Done, Enter, Go
<1>2. dial' = IF dial[t] # None /\ ~InTransaction(t) /\ routine[t] # "reclaim"
              THEN [dial EXCEPT ![t] = None] ELSE dial
  BY DEF Done
<1>3. handed' \subseteq Calls
  BY DEF Done
<1>4. /\ pc' \in [Threads -> Labels] /\ routine' \in [Threads -> Routines]
      /\ cur' \in [Threads -> Calls \cup {None}]
      /\ seq' \in [Threads -> 0..(MaxRetries + 1)]
      /\ dial' \in [Threads -> Calls \cup {None}]
  BY <1>1, <1>2 DEF Labels, Routines
<1> QED
  BY <1>1, <1>2, <1>3, <1>4 DEF Kept

(* Entering a routine gives the thread a well-typed frame.                 *)
LEMMA EnterFacts ==
    ASSUME TypeOK, NEW t \in Threads, NEW r \in Routines, NEW l \in Labels,
           NEW c \in Calls, NEW n \in 0..(MaxRetries + 1), Enter(t, r, l, c, n)
    PROVE  /\ \A u \in Threads \ {t} :
                  pc'[u] = pc[u] /\ routine'[u] = routine[u] /\ cur'[u] = cur[u]
           /\ pc'[t] = l /\ routine'[t] = r /\ cur'[t] = c
           /\ pc' \in [Threads -> Labels] /\ routine' \in [Threads -> Routines]
           /\ cur' \in [Threads -> Calls \cup {None}]
           /\ seq' \in [Threads -> 0..(MaxRetries + 1)]
  BY DEF TypeOK, Enter, Go

(* So does moving on.                                                      *)
LEMMA GoFacts ==
    ASSUME TypeOK, NEW t \in Threads, NEW l \in Labels, Go(t, l)
    PROVE  /\ \A u \in Threads \ {t} : pc'[u] = pc[u]
           /\ pc'[t] = l /\ pc' \in [Threads -> Labels]
  BY DEF TypeOK, Go

----------------------------------------------------------------------------
(* Types *)

LifeType ==
    /\ state \in [Calls -> {"NONE", "DIALING", "RINGING", "ANSWERED", "ENDED"}]
    /\ busy \in [Calls -> BOOLEAN] /\ finalized \in [Calls -> BOOLEAN]
    /\ running \in [Calls -> BOOLEAN] /\ remote \subseteq Calls
PortType ==
    /\ port \in [Calls -> Ports \cup {None}] /\ assigned \in [Calls -> BOOLEAN]
    /\ freed \subseteq Calls /\ pool \subseteq Ports
RegistryType ==
    /\ calls \subseteq Calls /\ ended \subseteq Calls /\ tag \subseteq Calls
    /\ active \in Calls \cup {None} /\ pending \in [Calls -> Responses]
PeerType ==
    /\ sent \in [Calls -> 0..(MaxRetries + 1)]
    /\ answer \in [Calls -> [Attempts -> {"none", "ok", "challenge", "reject"}]]
    /\ acked \subseteq Calls /\ byed \subseteq Calls /\ msgs \in 0..MaxMsgs
ThreadType ==
    /\ pc \in [Threads -> Labels] /\ routine \in [Threads -> Routines]
    /\ cur \in [Threads -> Calls \cup {None}]
    /\ seq \in [Threads -> 0..(MaxRetries + 1)]
    /\ dial \in [Threads -> Calls \cup {None}]
    /\ tried \subseteq Calls /\ handed \subseteq Calls
    /\ recvLock \in Threads \cup {None}

(* An update keeps the type of a function.                                 *)
LEMMA PutType ==
    ASSUME NEW S, NEW T, NEW f \in [S -> T], NEW x, NEW v \in T
    PROVE  [f EXCEPT ![x] = v] \in [S -> T]
  OBVIOUS

(* Where threads are, the call of a handler and that of call() exist.      *)
Placed(t) == /\ pc[t] \in HandlerLabels => cur[t] \in Calls
             /\ pc[t] \in CallLabels => dial[t] \in Calls

(* What IInv says of types and of the place of a thread, in parts.         *)
LEMMA PlacedThreads ==
    ASSUME IInv, NEW t \in Threads
    PROVE  /\ LifeType /\ PortType /\ RegistryType /\ PeerType /\ ThreadType
           /\ Placed(t)
  BY DEF IInv, TypeOK, FrameInv, DialInv, Placed, LifeType, PortType,
         RegistryType, PeerType, ThreadType

(* The ACK of a call the thread works on.                                  *)
LEMMA AckTypes ==
    ASSUME PeerType, NEW t \in Threads, cur[t] \in Calls,
           AckAndReturn(t) \/ Ack(cur[t]) \/ UNCHANGED acked
    PROVE  acked' \subseteq Calls
  BY DEF PeerType, AckAndReturn, Ack

(* A 18x keeps the type of the states.                                     *)
LEMMA RingType ==
    ASSUME LifeType, NEW c \in Calls, Ring(c) \/ UNCHANGED state
    PROVE  state' \in
               [Calls -> {"NONE", "DIALING", "RINGING", "ANSWERED", "ENDED"}]
  BY DEF LifeType, Ring

(* A response that arrives answers an INVITE that was sent.                *)
LEMMA ArrivesTypes ==
    ASSUME PeerType, NEW c \in Calls, NEW n, NEW k, Arrives(c, n, k)
    PROVE  /\ msgs' \in 0..MaxMsgs
           /\ answer' \in [Calls -> [Attempts ->
                              {"none", "ok", "challenge", "reject"}]]
           /\ n \in 1..sent[c]
<1>1. msgs' \in 0..MaxMsgs /\ n \in 1..sent[c]
  BY ConstantsAssumption DEF Arrives, PeerType
<1>2. CASE k = "ringing"
  BY <1>1, <1>2 DEF Arrives, PeerType
<1>3. CASE k # "ringing"
  <2>1. k \in {"ok", "challenge", "reject"}
    BY <1>3, ConstantsAssumption DEF Arrives
  <2>2. answer' = [answer EXCEPT ![c][n] = k]
    BY <1>3 DEF Arrives
  <2> QED
    BY <1>1, <2>1, <2>2 DEF PeerType
<1> QED
  BY <1>2, <1>3

(* Every step keeps the type of the call objects,                          *)
LEMMA LifeTypeStep ==
    ASSUME IInv, NEW t \in Threads, Step(t) \/ Hearing(t)
    PROVE  LifeType'
<1>0. /\ LifeType /\ PortType /\ RegistryType /\ PeerType /\ ThreadType
      /\ Placed(t)
  BY PlacedThreads
<1> USE <1>0, ConstantsAssumption
    DEF LifeType, PortType, RegistryType, PeerType, ThreadType, Placed,
        lifeVars, mediaVars, portVars, registryVars, setupVars, peerVars,
        dialogVars, Labels, HandlerLabels, CallLabels, SetupLabels
<1>1. CASE RequestPort(t)
  BY <1>1 DEF RequestPort
<1>2. CASE Reclaim(t)
  BY <1>2 DEF Reclaim
<1>3. CASE PrepareInvite(t)
  BY <1>3 DEF PrepareInvite
<1>4. CASE SendInvite(t)
  BY <1>4 DEF SendInvite
<1>5. CASE TimedOut(t)
  BY <1>5 DEF TimedOut
<1>6. CASE Abandon(t)
  BY <1>6 DEF Abandon, Nothing
<1>7. CASE GiveUp(t)
  BY <1>7 DEF GiveUp
<1>8. CASE Create(t)
  BY <1>8 DEF Create
<1>9. CASE LeaveCreation(t)
  BY <1>9 DEF LeaveCreation
<1>10. CASE Replay(t)
  <2>1. Ring(dial[t]) \/ UNCHANGED state
    BY <1>10 DEF Replay
  <2>2. dial[t] \in Calls
    BY <1>10 DEF Replay
  <2>3. state' \in [Calls -> {"NONE", "DIALING", "RINGING", "ANSWERED",
                              "ENDED"}]
    BY <2>1, <2>2, RingType
  <2> QED
    BY <1>10, <2>3 DEF Replay
<1>11. CASE Progress(t)
  BY <1>11 DEF Progress, Arrives, Returns, Awaits
<1>12. CASE Challenged(t)
  BY <1>12 DEF Challenged, Arrives, Awaits
<1>13. CASE Final(t)
  BY <1>13 DEF Final, Arrives, Returns, Awaits
<1>14. CASE Read(t)
  BY <1>14 DEF Read, Arrives, Ring
<1>15. CASE ReadBye(t)
  BY <1>15 DEF ReadBye
<1>16. CASE Stale(t)
  BY <1>16 DEF Stale
<1>17. CASE Failed(t)
  BY <1>17 DEF Failed
<1>18. CASE Late(t)
  BY <1>18 DEF Late
<1>19. CASE Queue(t)
  BY <1>19 DEF Queue
<1>20. CASE Enqueue(t)
  BY <1>20 DEF Enqueue
<1>21. CASE Find(t)
  BY <1>21 DEF Find
<1>22. CASE Cached(t)
  BY <1>22 DEF Cached
<1>23. CASE Claim(t)
  <2>1. UNCHANGED <<state, finalized, mediaVars>>
    BY <1>23 DEF Claim
  <2>2. \/ UNCHANGED busy
        \/ busy' = [busy EXCEPT ![cur[t]] = TRUE]
    BY <1>23 DEF Claim
  <2>3. LifeType
    OBVIOUS
  <2> HIDE <1>0, ConstantsAssumption
  <2> QED
    BY <2>1, <2>2, <2>3
<1>24. CASE Check(t)
  BY <1>24 DEF Check
<1>25. CASE Start(t)
  <2>1. UNCHANGED <<lifeVars, remote>>
    BY <1>25 DEF Start
  <2>2. \/ UNCHANGED running
        \/ running' = [running EXCEPT ![cur[t]] = TRUE]
    BY <1>25 DEF Start
  <2>3. LifeType
    OBVIOUS
  <2> HIDE <1>0, ConstantsAssumption
  <2> QED
    BY <2>1, <2>2, <2>3
<1>26. CASE Commit(t)
  BY <1>26 DEF Commit
<1>27. CASE SendAck(t)
  BY <1>27 DEF SendAck
<1>28. CASE Unflag(t)
  BY <1>28 DEF Unflag
<1>29. CASE StopMedia(t)
  BY <1>29 DEF StopMedia
<1>30. CASE SendBye(t)
  BY <1>30 DEF SendBye, Bye
<1>31. CASE SetEnded(t)
  BY <1>31 DEF SetEnded
<1>32. CASE Finalize(t)
  BY <1>32 DEF Finalize
<1>33. CASE Remember(t)
  BY <1>33 DEF Remember
<1>34. CASE Release(t)
  BY <1>34 DEF Release
<1>35. CASE Remove(t)
  BY <1>35 DEF Remove
<1>36. CASE SendBoth(t)
  BY <1>36 DEF SendBoth, Ack, Bye
<1> QED
  BY <1>1, <1>2, <1>3, <1>4, <1>5, <1>6, <1>7, <1>8, <1>9,
     <1>10, <1>11, <1>12, <1>13, <1>14, <1>15, <1>16, <1>17, <1>18,
     <1>19, <1>20, <1>21, <1>22, <1>23, <1>24, <1>25, <1>26, <1>27,
     <1>28, <1>29, <1>30, <1>31, <1>32, <1>33, <1>34, <1>35, <1>36
  DEF Step, Calling, Hearing, Handling, Ending

(* of their ports,                                                         *)
LEMMA PortTypeStep ==
    ASSUME IInv, NEW t \in Threads, Step(t) \/ Hearing(t)
    PROVE  PortType'
<1>0. /\ LifeType /\ PortType /\ RegistryType /\ PeerType /\ ThreadType
      /\ Placed(t)
  BY PlacedThreads
<1> USE <1>0, ConstantsAssumption
    DEF LifeType, PortType, RegistryType, PeerType, ThreadType, Placed,
        lifeVars, mediaVars, portVars, registryVars, setupVars, peerVars,
        dialogVars, Labels, HandlerLabels, CallLabels, SetupLabels
<1>1. CASE RequestPort(t)
  BY <1>1 DEF RequestPort
<1>2. CASE Reclaim(t)
  BY <1>2 DEF Reclaim
<1>3. CASE PrepareInvite(t)
  BY <1>3 DEF PrepareInvite
<1>4. CASE SendInvite(t)
  BY <1>4 DEF SendInvite
<1>5. CASE TimedOut(t)
  BY <1>5 DEF TimedOut
<1>6. CASE Abandon(t)
  BY <1>6 DEF Abandon, Nothing
<1>7. CASE GiveUp(t)
  BY <1>7 DEF GiveUp
<1>8. CASE Create(t)
  BY <1>8 DEF Create
<1>9. CASE LeaveCreation(t)
  BY <1>9 DEF LeaveCreation
<1>10. CASE Replay(t)
  BY <1>10 DEF Replay, Ring, Nothing
<1>11. CASE Progress(t)
  BY <1>11 DEF Progress, Arrives, Returns, Awaits
<1>12. CASE Challenged(t)
  BY <1>12 DEF Challenged, Arrives, Awaits
<1>13. CASE Final(t)
  BY <1>13 DEF Final, Arrives, Returns, Awaits
<1>14. CASE Read(t)
  BY <1>14 DEF Read, Arrives, Ring
<1>15. CASE ReadBye(t)
  BY <1>15 DEF ReadBye
<1>16. CASE Stale(t)
  BY <1>16 DEF Stale
<1>17. CASE Failed(t)
  BY <1>17 DEF Failed
<1>18. CASE Late(t)
  BY <1>18 DEF Late
<1>19. CASE Queue(t)
  BY <1>19 DEF Queue
<1>20. CASE Enqueue(t)
  BY <1>20 DEF Enqueue
<1>21. CASE Find(t)
  BY <1>21 DEF Find
<1>22. CASE Cached(t)
  BY <1>22 DEF Cached
<1>23. CASE Claim(t)
  BY <1>23 DEF Claim
<1>24. CASE Check(t)
  BY <1>24 DEF Check
<1>25. CASE Start(t)
  BY <1>25 DEF Start
<1>26. CASE Commit(t)
  BY <1>26 DEF Commit
<1>27. CASE SendAck(t)
  BY <1>27 DEF SendAck
<1>28. CASE Unflag(t)
  BY <1>28 DEF Unflag
<1>29. CASE StopMedia(t)
  BY <1>29 DEF StopMedia
<1>30. CASE SendBye(t)
  BY <1>30 DEF SendBye, Bye
<1>31. CASE SetEnded(t)
  BY <1>31 DEF SetEnded
<1>32. CASE Finalize(t)
  BY <1>32 DEF Finalize
<1>33. CASE Remember(t)
  BY <1>33 DEF Remember
<1>34. CASE Release(t)
  BY <1>34 DEF Release
<1>35. CASE Remove(t)
  BY <1>35 DEF Remove
<1>36. CASE SendBoth(t)
  BY <1>36 DEF SendBoth, Ack, Bye
<1> QED
  BY <1>1, <1>2, <1>3, <1>4, <1>5, <1>6, <1>7, <1>8, <1>9,
     <1>10, <1>11, <1>12, <1>13, <1>14, <1>15, <1>16, <1>17, <1>18,
     <1>19, <1>20, <1>21, <1>22, <1>23, <1>24, <1>25, <1>26, <1>27,
     <1>28, <1>29, <1>30, <1>31, <1>32, <1>33, <1>34, <1>35, <1>36
  DEF Step, Calling, Hearing, Handling, Ending

(* of the registry and the pending responses,                              *)
LEMMA RegistryTypeStep ==
    ASSUME IInv, NEW t \in Threads, Step(t) \/ Hearing(t)
    PROVE  RegistryType'
<1>0. /\ LifeType /\ PortType /\ RegistryType /\ PeerType /\ ThreadType
      /\ Placed(t)
  BY PlacedThreads
<1> USE <1>0, ConstantsAssumption
    DEF LifeType, PortType, RegistryType, PeerType, ThreadType, Placed,
        lifeVars, mediaVars, portVars, registryVars, setupVars, peerVars,
        dialogVars, Labels, HandlerLabels, CallLabels, SetupLabels
<1>1. CASE RequestPort(t)
  BY <1>1 DEF RequestPort
<1>2. CASE Reclaim(t)
  BY <1>2 DEF Reclaim
<1>3. CASE PrepareInvite(t)
  BY <1>3 DEF PrepareInvite
<1>4. CASE SendInvite(t)
  BY <1>4 DEF SendInvite
<1>5. CASE TimedOut(t)
  BY <1>5 DEF TimedOut
<1>6. CASE Abandon(t)
  <2>1. Nothing \in Responses
    BY ConstantsAssumption DEF Nothing, Responses
  <2> QED
    BY <1>6, <2>1 DEF Abandon
<1>7. CASE GiveUp(t)
  BY <1>7 DEF GiveUp
<1>8. CASE Create(t)
  BY <1>8 DEF Create
<1>9. CASE LeaveCreation(t)
  BY <1>9 DEF LeaveCreation
<1>10. CASE Replay(t)
  <2>1. pending' = [pending EXCEPT ![dial[t]] = Nothing]
    BY <1>10 DEF Replay
  <2>2. Nothing \in Responses
    BY ConstantsAssumption DEF Nothing, Responses
  <2> QED
    BY <1>10, <2>1, <2>2 DEF Replay
<1>11. CASE Progress(t)
  <2>1. PICK k \in {"ringing", "ok", "reject"} : Returns(t, k)
    BY <1>11 DEF Progress
  <2>2. [kind |-> k, seq |-> sent[dial[t]]] \in Responses
    BY <1>11 DEF Progress, Awaits, Responses
  <2> QED
    BY <2>1, <2>2 DEF Returns
<1>12. CASE Challenged(t)
  BY <1>12 DEF Challenged, Arrives, Awaits
<1>13. CASE Final(t)
  <2>1. PICK k \in {"ringing", "ok", "reject"} : Returns(t, k)
    BY <1>13 DEF Final
  <2>2. [kind |-> k, seq |-> sent[dial[t]]] \in Responses
    BY <1>13 DEF Final, Awaits, Responses
  <2> QED
    BY <2>1, <2>2 DEF Returns
<1>14. CASE Read(t)
  BY <1>14 DEF Read, Arrives, Ring
<1>15. CASE ReadBye(t)
  BY <1>15 DEF ReadBye
<1>16. CASE Stale(t)
  BY <1>16 DEF Stale
<1>17. CASE Failed(t)
  BY <1>17 DEF Failed
<1>18. CASE Late(t)
  BY <1>18 DEF Late
<1>19. CASE Queue(t)
  BY <1>19 DEF Queue
<1>20. CASE Enqueue(t)
  <2>1. CASE UNCHANGED pending
    BY <1>20, <2>1 DEF Enqueue
  <2>2. CASE pending' = [pending EXCEPT ![cur[t]] =
                            [kind |-> IF routine[t] = "accepted" THEN "ok"
                                      ELSE "reject",
                             seq |-> seq[t]]]
    <3>1. [kind |-> IF routine[t] = "accepted" THEN "ok" ELSE "reject",
           seq |-> seq[t]] \in Responses
      BY DEF Responses
    <3> QED
      BY <1>20, <2>2, <3>1 DEF Enqueue
  <2> QED
    BY <1>20, <2>1, <2>2 DEF Enqueue
<1>21. CASE Find(t)
  BY <1>21 DEF Find
<1>22. CASE Cached(t)
  BY <1>22 DEF Cached
<1>23. CASE Claim(t)
  BY <1>23 DEF Claim
<1>24. CASE Check(t)
  BY <1>24 DEF Check
<1>25. CASE Start(t)
  BY <1>25 DEF Start
<1>26. CASE Commit(t)
  BY <1>26 DEF Commit
<1>27. CASE SendAck(t)
  BY <1>27 DEF SendAck
<1>28. CASE Unflag(t)
  BY <1>28 DEF Unflag
<1>29. CASE StopMedia(t)
  BY <1>29 DEF StopMedia
<1>30. CASE SendBye(t)
  BY <1>30 DEF SendBye, Bye
<1>31. CASE SetEnded(t)
  BY <1>31 DEF SetEnded
<1>32. CASE Finalize(t)
  BY <1>32 DEF Finalize
<1>33. CASE Remember(t)
  BY <1>33 DEF Remember
<1>34. CASE Release(t)
  BY <1>34 DEF Release
<1>35. CASE Remove(t)
  BY <1>35 DEF Remove
<1>36. CASE SendBoth(t)
  BY <1>36 DEF SendBoth, Ack, Bye
<1> QED
  BY <1>1, <1>2, <1>3, <1>4, <1>5, <1>6, <1>7, <1>8, <1>9,
     <1>10, <1>11, <1>12, <1>13, <1>14, <1>15, <1>16, <1>17, <1>18,
     <1>19, <1>20, <1>21, <1>22, <1>23, <1>24, <1>25, <1>26, <1>27,
     <1>28, <1>29, <1>30, <1>31, <1>32, <1>33, <1>34, <1>35, <1>36
  DEF Step, Calling, Hearing, Handling, Ending

(* and of what the peers see.                                              *)
LEMMA PeerTypeStep ==
    ASSUME IInv, NEW t \in Threads, Step(t) \/ Hearing(t)
    PROVE  PeerType'
<1>0. /\ LifeType /\ PortType /\ RegistryType /\ PeerType /\ ThreadType
      /\ Placed(t)
  BY PlacedThreads
<1> USE <1>0, ConstantsAssumption
    DEF LifeType, PortType, RegistryType, PeerType, ThreadType, Placed,
        lifeVars, mediaVars, portVars, registryVars, setupVars, peerVars,
        dialogVars, Labels, HandlerLabels, CallLabels, SetupLabels, Attempts
<1>1. CASE RequestPort(t)
  BY <1>1 DEF RequestPort
<1>2. CASE Reclaim(t)
  BY <1>2 DEF Reclaim
<1>3. CASE PrepareInvite(t)
  BY <1>3 DEF PrepareInvite
<1>4. CASE SendInvite(t)
  <2>1. 1 \in 0..(MaxRetries + 1) /\ PeerType
    BY ConstantsAssumption
  <2>2. \/ UNCHANGED <<peerVars, dialogVars, msgs>>
        \/ /\ sent' = [sent EXCEPT ![dial[t]] = 1]
           /\ UNCHANGED <<answer, dialogVars, msgs>>
    BY <1>4 DEF SendInvite
  <2> HIDE <1>0, ConstantsAssumption
  <2>3. sent' \in [Calls -> 0..(MaxRetries + 1)]
    <3>1. sent \in [Calls -> 0..(MaxRetries + 1)]
      BY <2>1
    <3>2. \/ sent' = sent
          \/ sent' = [sent EXCEPT ![dial[t]] = 1]
      BY <2>2
    <3> QED
      BY <2>1, <3>1, <3>2, PutType
  <2>4. UNCHANGED <<answer, dialogVars, msgs>>
    BY <2>2
  <2> QED
    BY <2>1, <2>3, <2>4
<1>5. CASE TimedOut(t)
  BY <1>5 DEF TimedOut
<1>6. CASE Abandon(t)
  BY <1>6 DEF Abandon, Nothing
<1>7. CASE GiveUp(t)
  BY <1>7 DEF GiveUp
<1>8. CASE Create(t)
  BY <1>8 DEF Create
<1>9. CASE LeaveCreation(t)
  BY <1>9 DEF LeaveCreation
<1>10. CASE Replay(t)
  BY <1>10 DEF Replay, Ring, Nothing
<1>11. CASE Progress(t)
  BY <1>11 DEF Progress, Arrives, Returns, Awaits
<1>12. CASE Challenged(t)
  <2>1. dial[t] \in Calls /\ \E n, k : Arrives(dial[t], n, k)
    BY <1>12 DEF Challenged, Awaits
  <2>2. msgs' \in 0..MaxMsgs /\ answer' \in
            [Calls -> [Attempts -> {"none", "ok", "challenge", "reject"}]]
    BY <2>1, ArrivesTypes
  <2>3. sent' \in [Calls -> 0..(MaxRetries + 1)]
    <3>1. \/ UNCHANGED sent
          \/ sent' = [sent EXCEPT ![dial[t]] = sent[dial[t]] + 1]
      BY <1>12 DEF Challenged
    <3>2. sent[dial[t]] + 1 \in 0..(MaxRetries + 1)
      BY <1>12, <2>1 DEF Challenged
    <3>3. sent \in [Calls -> 0..(MaxRetries + 1)]
      OBVIOUS
    <3> HIDE <1>0
    <3> QED
      BY <3>1, <3>2, <3>3
  <2>4. UNCHANGED dialogVars
    BY <1>12 DEF Challenged
  <2>5. PeerType
    OBVIOUS
  <2> HIDE <1>0
  <2> QED
    BY <2>2, <2>3, <2>4, <2>5
<1>13. CASE Final(t)
  <2>1. dial[t] \in Calls /\ \E n, k : Arrives(dial[t], n, k)
    BY <1>13 DEF Final, Awaits
  <2>2. msgs' \in 0..MaxMsgs /\ answer' \in
            [Calls -> [Attempts -> {"none", "ok", "challenge", "reject"}]]
    BY <2>1, ArrivesTypes
  <2>3. UNCHANGED <<sent, dialogVars>>
    BY <1>13 DEF Final, Returns, Arrives
  <2>4. PeerType
    OBVIOUS
  <2> HIDE <1>0
  <2> QED
    BY <2>2, <2>3, <2>4
<1>14. CASE Read(t)
  <2>1. \E c \in Calls : \E n, k : Arrives(c, n, k)
    BY <1>14 DEF Read
  <2>2. msgs' \in 0..MaxMsgs /\ answer' \in
            [Calls -> [Attempts -> {"none", "ok", "challenge", "reject"}]]
    BY <2>1, ArrivesTypes
  <2> QED
    BY <1>14, <2>2 DEF Read
<1>15. CASE ReadBye(t)
  BY <1>15 DEF ReadBye
<1>16. CASE Stale(t)
  BY <1>16 DEF Stale
<1>17. CASE Failed(t)
  BY <1>17 DEF Failed
<1>18. CASE Late(t)
  BY <1>18 DEF Late
<1>19. CASE Queue(t)
  <2>1. acked' \subseteq Calls
    BY <1>19, AckTypes DEF Queue
  <2> QED
    BY <1>19, <2>1 DEF Queue
<1>20. CASE Enqueue(t)
  <2>1. acked' \subseteq Calls
    BY <1>20, AckTypes DEF Enqueue
  <2> QED
    BY <1>20, <2>1 DEF Enqueue
<1>21. CASE Find(t)
  <2>1. acked' \subseteq Calls
    BY <1>21, AckTypes DEF Find
  <2> QED
    BY <1>21, <2>1 DEF Find
<1>22. CASE Cached(t)
  <2>1. acked' \subseteq Calls
    BY <1>22, AckTypes DEF Cached
  <2>2. byed' \subseteq Calls
    <3>1. cur[t] \in Calls /\ (Bye(cur[t]) \/ UNCHANGED byed)
      BY <1>22 DEF Cached
    <3> QED
      BY <3>1 DEF Bye
  <2>3. UNCHANGED <<peerVars, msgs>>
    BY <1>22 DEF Cached
  <2> QED
    BY <2>1, <2>2, <2>3
<1>23. CASE Claim(t)
  <2>1. acked' \subseteq Calls
    BY <1>23, AckTypes DEF Claim
  <2> QED
    BY <1>23, <2>1 DEF Claim
<1>24. CASE Check(t)
  BY <1>24 DEF Check
<1>25. CASE Start(t)
  BY <1>25 DEF Start
<1>26. CASE Commit(t)
  BY <1>26 DEF Commit
<1>27. CASE SendAck(t)
  BY <1>27 DEF SendAck
<1>28. CASE Unflag(t)
  BY <1>28 DEF Unflag
<1>29. CASE StopMedia(t)
  BY <1>29 DEF StopMedia
<1>30. CASE SendBye(t)
  BY <1>30 DEF SendBye, Bye
<1>31. CASE SetEnded(t)
  BY <1>31 DEF SetEnded
<1>32. CASE Finalize(t)
  BY <1>32 DEF Finalize
<1>33. CASE Remember(t)
  BY <1>33 DEF Remember
<1>34. CASE Release(t)
  BY <1>34 DEF Release
<1>35. CASE Remove(t)
  BY <1>35 DEF Remove
<1>36. CASE SendBoth(t)
  BY <1>36 DEF SendBoth, Ack, Bye
<1> QED
  BY <1>1, <1>2, <1>3, <1>4, <1>5, <1>6, <1>7, <1>8, <1>9,
     <1>10, <1>11, <1>12, <1>13, <1>14, <1>15, <1>16, <1>17, <1>18,
     <1>19, <1>20, <1>21, <1>22, <1>23, <1>24, <1>25, <1>26, <1>27,
     <1>28, <1>29, <1>30, <1>31, <1>32, <1>33, <1>34, <1>35, <1>36
  DEF Step, Calling, Hearing, Handling, Ending

----------------------------------------------------------------------------
(* Control flow *)

Others(t) == \A u \in Threads \ {t} : Kept(u)

FramesTyped ==
    /\ pc' \in [Threads -> Labels] /\ routine' \in [Threads -> Routines]
    /\ cur' \in [Threads -> Calls \cup {None}]
    /\ seq' \in [Threads -> 0..(MaxRetries + 1)]

(* A handler goes on, or it ends.                                          *)
GoesOn(t) ==
    /\ Others(t) /\ FramesTyped
    /\ pc'[t] \in HandlerLabels /\ cur'[t] = cur[t]
    /\ (routine'[t] = "reclaim") <=> (routine[t] = "reclaim")
    /\ UNCHANGED <<recvLock, appVars>>
Ends(t) == \E b \in BOOLEAN : Done(t, b)

(* A handler that moves to a label of its own goes on.                     *)
LEMMA GoOn ==
    ASSUME TypeOK, NEW t \in Threads, NEW l \in HandlerLabels, Go(t, l),
           UNCHANGED frameVars, Stay
    PROVE  GoesOn(t)
<1>1. l \in Labels
  BY DEF HandlerLabels
<1> QED
  BY <1>1, GoFacts
  DEF GoesOn, Others, Kept, FramesTyped, frameVars, Stay, appVars, TypeOK

(* So does one that takes up another routine for the same call.            *)
LEMMA EnterOn ==
    ASSUME TypeOK, NEW t \in Threads, NEW r \in Routines, NEW l \in HandlerLabels,
           NEW n \in 0..(MaxRetries + 1), cur[t] \in Calls,
           r # "reclaim", routine[t] # "reclaim",
           Enter(t, r, l, cur[t], n), Stay
    PROVE  GoesOn(t)
<1>1. l \in Labels
  BY DEF HandlerLabels
<1> QED
  BY <1>1, EnterFacts DEF GoesOn, Others, Kept, FramesTyped, Stay, appVars

(* A handler that returns, with or without an exception, ends.             *)
LEMMA ReturnEnds ==
    ASSUME NEW t, Returned(t) \/ AckAndReturn(t)
    PROVE  Ends(t)
  BY DEF Ends, Returned, AckAndReturn

(* After the call is finalized the handler sends or ends.                  *)
LEMMA FinalizedMoves ==
    ASSUME TypeOK, NEW t \in Threads, Finalized(t)
    PROVE  GoesOn(t) \/ Ends(t)
<1>1. "sendboth" \in HandlerLabels
  BY DEF HandlerLabels, CallLabels, SetupLabels, Labels
<1> QED
  BY <1>1, GoOn, ReturnEnds DEF Finalized

(* Each step of a handler goes on or ends.                                 *)
LEMMA HandlerControl ==
    ASSUME IInv, NEW t \in Threads, Handling(t) \/ Ending(t)
    PROVE  GoesOn(t) \/ Ends(t)
<1> USE DEF HandlerLabels, CallLabels, SetupLabels, Labels
<1>0. TypeOK /\ FrameInv(t)
  BY DEF IInv
<1>1. CASE Stale(t)
  BY <1>0, <1>1, GoOn, ReturnEnds, FinalizedMoves DEF Stale, Ends
<1>2. CASE Failed(t)
  BY <1>0, <1>2, GoOn, ReturnEnds, FinalizedMoves DEF Failed, Ends
<1>3. CASE Late(t)
  BY <1>0, <1>3, GoOn, ReturnEnds, FinalizedMoves DEF Late, Ends
<1>4. CASE Queue(t)
  BY <1>0, <1>4, GoOn, ReturnEnds, FinalizedMoves DEF Queue, Ends
<1>5. CASE Enqueue(t)
  BY <1>0, <1>5, GoOn, ReturnEnds, FinalizedMoves DEF Enqueue, Ends
<1>6. CASE Find(t)
  BY <1>0, <1>6, GoOn, ReturnEnds, FinalizedMoves DEF Find, Ends
<1>7. CASE Cached(t)
  BY <1>0, <1>7, GoOn, ReturnEnds, FinalizedMoves DEF Cached, Ends
<1>8. CASE Claim(t)
  <2>1. cur[t] \in Calls /\ routine[t] # "reclaim"
    BY <1>0, <1>8 DEF Claim, FrameInv
  <2>2. 0 \in 0..(MaxRetries + 1)
    BY ConstantsAssumption
  <2>3. {"unusable", "orphan", "answer"} \subseteq Routines
    BY DEF Routines
  <2> QED
    BY <1>0, <1>8, <2>1, <2>2, <2>3, GoOn, EnterOn, ReturnEnds DEF Claim
<1>9. CASE Check(t)
  <2>1. cur[t] \in Calls /\ routine[t] # "reclaim"
    BY <1>0, <1>9 DEF Check, FrameInv
  <2>2. 0 \in 0..(MaxRetries + 1)
    BY ConstantsAssumption
  <2>3. {"unusable", "orphan", "answer"} \subseteq Routines
    BY DEF Routines
  <2> QED
    BY <1>0, <1>9, <2>1, <2>2, <2>3, GoOn, EnterOn, ReturnEnds DEF Check
<1>10. CASE Start(t)
  <2>1. cur[t] \in Calls /\ routine[t] # "reclaim"
    BY <1>0, <1>10 DEF Start, FrameInv
  <2>2. 0 \in 0..(MaxRetries + 1)
    BY ConstantsAssumption
  <2>3. {"unusable", "orphan", "answer"} \subseteq Routines
    BY DEF Routines
  <2> QED
    BY <1>0, <1>10, <2>1, <2>2, <2>3, GoOn, EnterOn, ReturnEnds DEF Start
<1>11. CASE Commit(t)
  <2>1. cur[t] \in Calls /\ routine[t] # "reclaim"
    BY <1>0, <1>11 DEF Commit, FrameInv
  <2>2. 0 \in 0..(MaxRetries + 1)
    BY ConstantsAssumption
  <2>3. {"unusable", "orphan", "answer"} \subseteq Routines
    BY DEF Routines
  <2> QED
    BY <1>0, <1>11, <2>1, <2>2, <2>3, GoOn, EnterOn, ReturnEnds DEF Commit
<1>12. CASE SendAck(t)
  <2>1. routine[t] # "reclaim"
    BY <1>0, <1>12 DEF SendAck, FrameInv
  <2>2. "unflag" \in Labels
    OBVIOUS
  <2>3. /\ routine' \in [Threads -> Routines]
        /\ routine'[t] # "reclaim"
        /\ \A u \in Threads \ {t} : routine'[u] = routine[u]
    BY <1>0, <1>12, <2>1 DEF SendAck, TypeOK, Routines
  <2> QED
    BY <1>0, <1>12, <2>1, <2>2, <2>3, GoFacts
    DEF SendAck, GoesOn, Others, Kept, FramesTyped, Stay, appVars, TypeOK
<1>13. CASE Unflag(t)
  BY <1>0, <1>13, GoOn, ReturnEnds, FinalizedMoves DEF Unflag, Ends
<1>14. CASE StopMedia(t)
  BY <1>0, <1>14, GoOn, ReturnEnds, FinalizedMoves DEF StopMedia, Ends
<1>15. CASE SendBye(t)
  BY <1>0, <1>15, GoOn, ReturnEnds, FinalizedMoves DEF SendBye, Ends
<1>16. CASE SetEnded(t)
  BY <1>0, <1>16, GoOn, ReturnEnds, FinalizedMoves DEF SetEnded, Ends
<1>17. CASE Finalize(t)
  BY <1>0, <1>17, GoOn, ReturnEnds, FinalizedMoves DEF Finalize, Ends
<1>18. CASE Remember(t)
  BY <1>0, <1>18, GoOn, ReturnEnds, FinalizedMoves DEF Remember, Ends
<1>19. CASE Release(t)
  BY <1>0, <1>19, GoOn, ReturnEnds, FinalizedMoves DEF Release, Ends
<1>20. CASE Remove(t)
  BY <1>0, <1>20, GoOn, ReturnEnds, FinalizedMoves DEF Remove, Ends
<1>21. CASE SendBoth(t)
  BY <1>0, <1>21, GoOn, ReturnEnds, FinalizedMoves DEF SendBoth, Ends
<1> QED
  BY <1>1, <1>2, <1>3, <1>4, <1>5, <1>6, <1>7, <1>8, <1>9,
     <1>10, <1>11, <1>12, <1>13, <1>14, <1>15, <1>16, <1>17, <1>18,
     <1>19, <1>20, <1>21
  DEF Handling, Ending

(* What a handler never does: build an object or take one away, add a tag  *)
(* or a Call-ID, or forget what ended.                                     *)
Steady ==
    /\ \A c \in Calls : (state'[c] = "NONE") <=> (state[c] = "NONE")
    /\ tag' \subseteq tag /\ freed \subseteq freed' /\ ended \subseteq ended'
    /\ calls' \subseteq calls
    /\ UNCHANGED <<port, depth, sent, answer>>

(* No step of a handler does any of that.                                  *)
LEMMA HandlerSteady ==
    ASSUME IInv, NEW t \in Threads, Handling(t) \/ Ending(t)
    PROVE  Steady
<1> USE DEF HandlerLabels, CallLabels, SetupLabels, Labels, ObjectLabels,
            Steady, lifeVars, portVars, registryVars, setupVars, peerVars
<1>0. FrameInv(t) /\ LifeType /\ RegistryType
  BY PlacedThreads DEF IInv
<1>1. CASE Stale(t)
  BY <1>1 DEF Stale
<1>2. CASE Failed(t)
  BY <1>2 DEF Failed
<1>3. CASE Late(t)
  BY <1>3 DEF Late
<1>4. CASE Queue(t)
  BY <1>4 DEF Queue
<1>5. CASE Enqueue(t)
  BY <1>5 DEF Enqueue
<1>6. CASE Find(t)
  BY <1>6 DEF Find
<1>7. CASE Cached(t)
  BY <1>7 DEF Cached
<1>8. CASE Claim(t)
  BY <1>8 DEF Claim
<1>9. CASE Check(t)
  BY <1>9 DEF Check
<1>10. CASE Start(t)
  BY <1>10 DEF Start
<1>11. CASE Commit(t)
  <2>1. cur[t] \in Calls /\ state[cur[t]] # "NONE"
    BY <1>0, <1>11 DEF Commit, FrameInv
  <2>2. \A c \in Calls : (state'[c] = "NONE") <=> (state[c] = "NONE")
    BY <1>0, <1>11, <2>1 DEF Commit, LifeType
  <2> QED
    BY <1>11, <2>2 DEF Commit
<1>12. CASE SendAck(t)
  BY <1>12 DEF SendAck
<1>13. CASE Unflag(t)
  BY <1>13 DEF Unflag
<1>14. CASE StopMedia(t)
  BY <1>14 DEF StopMedia
<1>15. CASE SendBye(t)
  BY <1>15 DEF SendBye
<1>16. CASE SetEnded(t)
  <2>1. cur[t] \in Calls /\ state[cur[t]] # "NONE"
    BY <1>0, <1>16 DEF SetEnded, FrameInv
  <2>2. \A c \in Calls : (state'[c] = "NONE") <=> (state[c] = "NONE")
    BY <1>0, <1>16, <2>1 DEF SetEnded, LifeType
  <2> QED
    BY <1>16, <2>2 DEF SetEnded
<1>17. CASE Finalize(t)
  BY <1>17 DEF Finalize
<1>18. CASE Remember(t)
  BY <1>18 DEF Remember
<1>19. CASE Release(t)
  BY <1>19 DEF Release
<1>20. CASE Remove(t)
  BY <1>20 DEF Remove
<1>21. CASE SendBoth(t)
  BY <1>21 DEF SendBoth
<1> QED
  BY <1>1, <1>2, <1>3, <1>4, <1>5, <1>6, <1>7, <1>8, <1>9,
     <1>10, <1>11, <1>12, <1>13, <1>14, <1>15, <1>16, <1>17, <1>18,
     <1>19, <1>20, <1>21
  DEF Handling, Ending

(* Every step keeps the type of the threads.                               *)
LEMMA ThreadTypeStep ==
    ASSUME IInv, NEW t \in Threads, Step(t) \/ Hearing(t)
    PROVE  ThreadType'
<1> USE ConstantsAssumption
<1>0. /\ TypeOK /\ ThreadType /\ LifeType /\ RegistryType /\ PeerType /\ Placed(t)
      /\ LockInv(t)
  BY PlacedThreads DEF IInv
<1>a. ASSUME Ends(t) PROVE ThreadType'
  <2>1. PICK b \in BOOLEAN : Done(t, b)
    BY <1>a DEF Ends
  <2>2. tried' \subseteq Calls
    BY <1>0, <2>1, DoneFacts DEF ThreadType
  <2> QED
    BY <1>0, <2>1, <2>2, DoneFacts DEF ThreadType
<1>b. ASSUME GoesOn(t) PROVE ThreadType'
  BY <1>0, <1>b DEF GoesOn, FramesTyped, ThreadType, appVars
<1>c. ASSUME NEW r \in Routines, NEW l \in Labels, NEW c \in Calls,
             NEW n \in 0..(MaxRetries + 1), Enter(t, r, l, c, n),
             UNCHANGED appVars, recvLock' \in {t, recvLock}
      PROVE  ThreadType'
  BY <1>0, <1>c, EnterFacts DEF ThreadType, appVars
<1>d. {"reclaim", "accepted", "failed", "bye"} \subseteq Routines
      /\ {"fin", "find", "stale", "media"} \subseteq Labels
      /\ 0 \in 0..(MaxRetries + 1) /\ Attempts \subseteq 0..(MaxRetries + 1)
  BY DEF Routines, Labels, Attempts
<1>1. CASE Handling(t) \/ Ending(t)
  BY <1>a, <1>b, <1>1, HandlerControl
<1>2. CASE RequestPort(t)
  BY <1>0, <1>2 DEF RequestPort, Go, ThreadType, Labels, frameVars, appVars
<1>3. CASE Reclaim(t)
  BY <1>0, <1>3, <1>c, <1>d DEF Reclaim, Stay, RegistryType
<1>4. CASE PrepareInvite(t)
  BY <1>0, <1>4 DEF PrepareInvite, Go, ThreadType, Labels, frameVars, appVars
<1>5. CASE SendInvite(t)
  BY <1>0, <1>5 DEF SendInvite, Go, ThreadType, Labels, frameVars, appVars
<1>6. CASE TimedOut(t)
  BY <1>0, <1>6 DEF TimedOut, Go, ThreadType, Labels, frameVars, appVars
<1>7. CASE Abandon(t)
  BY <1>0, <1>7 DEF Abandon, Go, ThreadType, Labels, frameVars, appVars
<1>8. CASE GiveUp(t)
  BY <1>0, <1>8 DEF GiveUp, Go, ThreadType, Labels, frameVars, appVars
<1>9. CASE Create(t)
  BY <1>0, <1>9 DEF Create, Go, ThreadType, Labels, frameVars, appVars
<1>10. CASE LeaveCreation(t)
  BY <1>0, <1>10 DEF LeaveCreation, Go, ThreadType, Labels, frameVars
<1>11. CASE Progress(t)
  BY <1>0, <1>11 DEF Progress, Returns, Go, ThreadType, Labels, frameVars, appVars
<1>12. CASE Challenged(t)
  BY <1>0, <1>12 DEF Challenged, Go, ThreadType, Labels, frameVars, appVars
<1>13. CASE Final(t)
  BY <1>0, <1>13 DEF Final, Returns, Go, ThreadType, Labels, frameVars, appVars
<1>14. CASE Replay(t)
  <2>1. dial[t] \in Calls /\ pending[dial[t]].seq \in 0..(MaxRetries + 1)
    BY <1>0, <1>14
    DEF Replay, Placed, RegistryType, Responses, CallLabels
  <2>2. CASE Ends(t)
    BY <1>a, <2>2
  <2>3. CASE ~Ends(t)
    BY <1>14, <1>c, <1>d, <2>1, <2>3 DEF Replay, Ends, Stay
  <2> QED
    BY <2>2, <2>3
<1>15. CASE Read(t)
  <2>1. PICK c \in Calls, n \in Attempts :
            \/ UNCHANGED <<recvLock, pc, frameVars>>
            \/ Locked(t) /\ \/ Enter(t, "accepted", "find", c, n)
                            \/ Enter(t, "failed", "stale", c, n)
    BY <1>15 DEF Read
  <2>2. UNCHANGED appVars
    BY <1>15 DEF Read
  <2>3. CASE UNCHANGED <<recvLock, pc, frameVars>>
    BY <1>0, <2>2, <2>3 DEF ThreadType, frameVars, appVars
  <2> QED
    BY <1>c, <1>d, <2>1, <2>2, <2>3 DEF Locked
<1>16. CASE ReadBye(t)
  <2>1. PICK c \in calls, l \in {"media", "fin"} : Enter(t, "bye", l, c, 0)
    BY <1>16 DEF ReadBye
  <2> QED
    BY <1>0, <1>16, <1>c, <1>d, <2>1 DEF ReadBye, Locked, RegistryType
<1> QED
  BY <1>1, <1>2, <1>3, <1>4, <1>5, <1>6, <1>7, <1>8, <1>9,
     <1>10, <1>11, <1>12, <1>13, <1>14, <1>15, <1>16
  DEF Step, Calling, Hearing

----------------------------------------------------------------------------
(* The invariants of a thread *)

(* What a step of t leaves to another thread u: it may build the object of *)
(* its own call() only, and give a tag to that call only.                  *)
LEMMA OthersKeep ==
    ASSUME IInv, NEW t \in Threads, NEW u \in Threads \ {t}, Others(t),
           (recvLock' = u) <=> (recvLock = u),
           \A c \in Calls : state[c] # "NONE" => state'[c] # "NONE",
           \A c \in Calls : state'[c] # "NONE" /\ state[c] = "NONE" =>
               c = dial[t],
           tag' \subseteq tag \cup {dial[t]}, freed \subseteq freed',
           ended \subseteq ended', tried \subseteq tried',
           dial'[t] \notin {dial[t], None} => dial'[t] \notin tried
    PROVE  FrameInv(u)' /\ LockInv(u)' /\ DialInv(u)'
<1>0. /\ FrameInv(u) /\ LockInv(u) /\ DialInv(u) /\ ThreadType
      /\ Kept(u) /\ DialInv(t)
  BY PlacedThreads DEF IInv, Others
<1>1. FrameInv(u)'
  BY <1>0, ConstantsAssumption
  DEF FrameInv, Kept, ObjectLabels
<1>2. LockInv(u)'
  BY <1>0 DEF LockInv, Kept
<1>3. DialInv(u)'
  <2>1. dial[u] # None => dial[u] \in tried /\ dial[u] \in Calls
        /\ dial[u] # dial[t] /\ dial'[t] # dial[u]
    BY <1>0 DEF DialInv, ThreadType
  <2>2. \A w \in Threads : dial[u] # None /\ dial'[w] = dial[u] => w = u
    BY <1>0, <2>1 DEF DialInv, Others, Kept
  <2>3. dial[u] # None => (state'[dial[u]] = "NONE") <=> (state[dial[u]] = "NONE")
    BY <2>1
  <2>4. InSetup(u)' <=> InSetup(u)
    BY <1>0 DEF InSetup, Kept
  <2>5. pc[u] \in {"giveup", "leave"} => dial[u] # None
    BY <1>0 DEF DialInv, CallLabels, SetupLabels
  <2>6. dial[u] # None /\ dial[u] \notin tag => dial[u] \notin tag'
    BY <2>1
  <2> QED
    BY <1>0, <2>1, <2>2, <2>3, <2>4, <2>5, <2>6 DEF DialInv, Kept
<1> QED
  BY <1>1, <1>2, <1>3

(* A handler that goes on or ends keeps what is said of locks and call()s. *)
LEMMA HandlerKeeps ==
    ASSUME IInv, NEW t \in Threads, Handling(t) \/ Ending(t),
           pc[t] \in HandlerLabels
    PROVE  /\ LockInv(t)' /\ DialInv(t)'
           /\ \A u \in Threads \ {t} :
                  FrameInv(u)' /\ LockInv(u)' /\ DialInv(u)'
           /\ Creators' = Creators
<1>0. /\ TypeOK /\ FrameInv(t) /\ LockInv(t) /\ DialInv(t) /\ ThreadType
      /\ Steady /\ Others(t)
  <2>1. Ends(t) => Others(t)
    BY DoneFacts DEF IInv, Ends, Others
  <2> QED
    BY <2>1, PlacedThreads, HandlerSteady, HandlerControl DEF IInv, GoesOn
<1> USE DEF HandlerLabels, CallLabels, SetupLabels, Labels
<1>1. CASE GoesOn(t)
  <2>1. /\ LockInv(t)' /\ DialInv(t)' /\ InSetup(t)' = InSetup(t)
        /\ dial' = dial /\ tried' = tried /\ recvLock' = recvLock
        /\ pc'[t] # "leave"
    <3>1. /\ pc'[t] \in HandlerLabels /\ dial' = dial /\ tried' = tried
          /\ recvLock' = recvLock
          /\ (routine'[t] = "reclaim") <=> (routine[t] = "reclaim")
      BY <1>1 DEF GoesOn, appVars
    <3>2. LockInv(t)'
      BY <1>0, <3>1 DEF LockInv
    <3>3. InSetup(t)' = InSetup(t)
      BY <1>0, <3>1 DEF InSetup
    <3>4. dial[t] # None =>
             (state'[dial[t]] = "NONE") <=> (state[dial[t]] = "NONE")
      BY <1>0 DEF Steady, ThreadType
    <3>5. pc'[t] \notin CallLabels \cup {"idle"}
      BY <3>1
    <3>6. pc[t] \notin CallLabels \cup {"idle"}
      BY <1>0
    <3>7. DialInv(t)'
      <4> HIDE DEF HandlerLabels, CallLabels, SetupLabels, Labels
      <4>1. pc'[t] \notin {"giveup", "leave", "idle"}
            /\ pc[t] \notin {"giveup", "leave", "idle"}
        BY <3>5, <3>6 DEF CallLabels, SetupLabels
      <4> QED
        BY <1>0, <3>1, <3>3, <3>4, <3>5, <3>6, <4>1 DEF DialInv
    <3> QED
      BY <3>1, <3>2, <3>3, <3>5, <3>7
  <2>2. \A u \in Threads \ {t} : FrameInv(u)' /\ LockInv(u)' /\ DialInv(u)'
    BY <1>0, <2>1, OthersKeep DEF Steady
  <2>3. \A u \in Threads : (Creating(u))' <=> Creating(u)
    <3>1. \A u \in Threads \ {t} : (Creating(u))' <=> Creating(u)
      BY <1>0, <2>1 DEF Creating, InSetup, Others, Kept
    <3>2. (Creating(t))' <=> Creating(t)
      BY <2>1 DEF Creating
    <3> QED
      BY <3>1, <3>2
  <2> QED
    BY <2>1, <2>2, <2>3 DEF Creators
<1>2. CASE Ends(t)
  <2>1. /\ routine'[t] = "none" /\ tried' = tried
        /\ pc'[t] = IF InTransaction(t) THEN "wait"
                    ELSE IF routine[t] = "reclaim" THEN "port" ELSE "idle"
        /\ dial'[t] = IF InTransaction(t) \/ routine[t] = "reclaim"
                      THEN dial[t] ELSE None
        /\ recvLock' = IF t = Recv THEN None ELSE recvLock
    BY <1>0, <1>2, DoneFacts DEF Ends
  <2>2. Recv \in Threads /\ None \notin Calls /\ (t = Recv \/ t \in Apps)
    BY ConstantsAssumption DEF Threads
  <2>3. t = Recv => recvLock = t /\ routine[t] # "reclaim" /\ dial[t] = None
    BY <1>0 DEF LockInv, DialInv
  <2>4. \A u \in Threads \ {t} : (recvLock' = u) <=> (recvLock = u)
    BY <2>1, <2>2, <2>3, ConstantsAssumption DEF Threads
  <2>5. LockInv(t)'
    BY <1>0, <2>1, <2>2, <2>3, ConstantsAssumption DEF LockInv, InTransaction
  <2>6. dial[t] # None => dial[t] \in Calls
    BY <1>0 DEF ThreadType
  <2>7. routine[t] = "reclaim" => dial[t] # None
    BY <1>0 DEF DialInv
  <2>8. DialInv(t)'
    <3>1. dial'[t] # None =>
             /\ InSetup(t) /\ dial'[t] = dial[t] /\ pc'[t] \in {"wait", "port"}
      BY <2>1 DEF InSetup, InTransaction
    <3>2. dial[t] # None /\ state[dial[t]] = "NONE" => state'[dial[t]] = "NONE"
      BY <1>0, <2>6 DEF Steady
    <3>3. \A u \in Threads : dial'[t] # None /\ dial'[u] = dial'[t] => u = t
      BY <1>0, <3>1 DEF DialInv, Others, Kept
    <3>4. pc'[t] \in {"wait", "port"} => dial'[t] # None
      BY <1>0, <2>1, <2>2, <2>7, ConstantsAssumption DEF LockInv, InTransaction
    <3>5. pc'[t] \in {"wait", "port", "idle"} /\ (pc'[t] = "idle" => dial'[t] = None)
      BY <2>1
    <3>6. t = Recv => dial'[t] = None
      BY <2>1, <2>3
    <3>7. pc'[t] \in {"wait", "port"} => InSetup(t)'
      BY DEF InSetup
    <3> QED
      BY <1>0, <2>1, <3>1, <3>2, <3>3, <3>4, <3>5, <3>6, <3>7 DEF DialInv
  <2>9. \A u \in Threads \ {t} : FrameInv(u)' /\ LockInv(u)' /\ DialInv(u)'
    BY <1>0, <2>1, <2>4, OthersKeep DEF Steady
  <2>10. \A u \in Threads : (Creating(u))' <=> Creating(u)
    <3>1. \A u \in Threads \ {t} : (Creating(u))' <=> Creating(u)
      BY <1>0, <2>4 DEF Creating, InSetup, Others, Kept
    <3>2. (Creating(t))' <=> Creating(t)
      <4>1. CASE InTransaction(t)
        BY <1>0, <2>1, <4>1 DEF Creating, InSetup, InTransaction
      <4>2. CASE ~InTransaction(t) /\ routine[t] = "reclaim"
        BY <1>0, <2>1, <4>2 DEF Creating, InSetup
      <4>3. CASE ~InTransaction(t) /\ routine[t] # "reclaim"
        BY <1>0, <2>1, <2>2, <2>3, <4>3 DEF Creating, InSetup, InTransaction
      <4> QED
        BY <4>1, <4>2, <4>3
    <3> QED
      BY <3>1, <3>2
  <2> QED
    BY <2>5, <2>8, <2>9, <2>10 DEF Creators
<1> QED
  BY <1>1, <1>2, HandlerControl

(* Where a handler that goes on can come to.                               *)
GoesTo(t) ==
    /\ pc'[t] \in ObjectLabels => pc[t] \in ObjectLabels \/ cur[t] \in calls
    /\ pc'[t] \in {"release", "remove"} => cur[t] \in ended'
    /\ routine'[t] = "unusable" => pc'[t] \in UnusableLabels
    /\ routine'[t] = "reclaim" => pc'[t] \in {"fin", "remember", "release",
                                              "remove"}
    /\ (Answering(t))' => Answering(t) \/ pc[t] = "claim"

(* Each step of a handler that goes on comes to such a place.              *)
LEMMA HandlerMoves ==
    ASSUME IInv, NEW t \in Threads, Handling(t) \/ Ending(t)
    PROVE  Ends(t) \/ GoesTo(t)
<1>0. /\ TypeOK /\ FrameInv(t) /\ Steady /\ ThreadType
      /\ {"unusable", "orphan", "answer"} \subseteq Routines
      /\ 0 \in 0..(MaxRetries + 1)
  BY PlacedThreads, HandlerSteady, ConstantsAssumption DEF IInv, Routines
<1>L. HandlerLabels \subseteq Labels
  BY DEF HandlerLabels
<1>1. CASE Stale(t)
  <2>1. pc[t] = "stale"
    BY <1>1 DEF Stale
  <2>2. \/ Ends(t)
        \/ pc'[t] = "failed" /\ routine'[t] = routine[t]
    BY <1>0, <1>1, ReturnEnds DEF Stale, Ends, Go, frameVars, TypeOK
  <2> QED
    BY <1>0, <2>1, <2>2
    DEF FrameInv, Steady, GoesTo, Answering, AnswerLabels, UnusableLabels,
        ObjectLabels, HandlerLabels, CallLabels, SetupLabels, Labels
<1>2. CASE Failed(t)
  <2>1. pc[t] = "failed"
    BY <1>2 DEF Failed
  <2>2. \/ pc'[t] = "late" /\ routine'[t] = routine[t] /\ cur[t] \in calls
        \/ pc'[t] = "queue" /\ routine'[t] = routine[t]
    BY <1>0, <1>2, ReturnEnds DEF Failed, Ends, Go, frameVars, TypeOK
  <2> QED
    BY <1>0, <2>1, <2>2
    DEF FrameInv, Steady, GoesTo, Answering, AnswerLabels, UnusableLabels,
        ObjectLabels, HandlerLabels, CallLabels, SetupLabels, Labels
<1>3. CASE Late(t)
  <2>1. pc[t] = "late"
    BY <1>3 DEF Late
  <2>2. \/ Ends(t)
        \/ pc'[t] = "media" /\ routine'[t] = routine[t]
    BY <1>0, <1>3, ReturnEnds DEF Late, Ends, Go, frameVars, TypeOK
  <2> QED
    BY <1>0, <2>1, <2>2
    DEF FrameInv, Steady, GoesTo, Answering, AnswerLabels, UnusableLabels,
        ObjectLabels, HandlerLabels, CallLabels, SetupLabels, Labels
<1>4. CASE Queue(t)
  <2>1. pc[t] = "queue"
    BY <1>4 DEF Queue
  <2>2. \/ Ends(t)
        \/ pc'[t] = "enqueue" /\ routine'[t] = routine[t]
    BY <1>0, <1>4, ReturnEnds DEF Queue, Ends, Go, frameVars, TypeOK
  <2> QED
    BY <1>0, <2>1, <2>2
    DEF FrameInv, Steady, GoesTo, Answering, AnswerLabels, UnusableLabels,
        ObjectLabels, HandlerLabels, CallLabels, SetupLabels, Labels
<1>5. CASE Enqueue(t)
  BY <1>5, ReturnEnds DEF Enqueue, Ends
<1>6. CASE Find(t)
  <2>1. pc[t] = "find"
    BY <1>6 DEF Find
  <2>2. \/ Ends(t)
        \/ pc'[t] = "claim" /\ routine'[t] = routine[t] /\ cur[t] \in calls
        \/ pc'[t] = "cached" /\ routine'[t] = routine[t]
    BY <1>0, <1>6, ReturnEnds DEF Find, Ends, Go, frameVars, TypeOK
  <2> QED
    BY <1>0, <2>1, <2>2
    DEF FrameInv, Steady, GoesTo, Answering, AnswerLabels, UnusableLabels,
        ObjectLabels, HandlerLabels, CallLabels, SetupLabels, Labels
<1>7. CASE Cached(t)
  <2>1. pc[t] = "cached"
    BY <1>7 DEF Cached
  <2>2. \/ Ends(t)
        \/ pc'[t] = "queue" /\ routine'[t] = routine[t]
    BY <1>0, <1>7, ReturnEnds DEF Cached, Ends, Go, frameVars, TypeOK
  <2> QED
    BY <1>0, <2>1, <2>2
    DEF FrameInv, Steady, GoesTo, Answering, AnswerLabels, UnusableLabels,
        ObjectLabels, HandlerLabels, CallLabels, SetupLabels, Labels
<1>8. CASE Claim(t)
  <2>1. pc[t] = "claim"
    BY <1>8 DEF Claim
  <2>2. \/ Ends(t)
        \/ pc'[t] = "media" /\ routine'[t] = "orphan"
        \/ pc'[t] = "check" /\ routine'[t] = "answer"
    <3>1. cur[t] \in Calls
      BY <1>0, <2>1 DEF FrameInv, HandlerLabels, CallLabels, SetupLabels, Labels
    <3> QED
      BY <1>0, <1>8, <3>1, ReturnEnds
      DEF Claim, Ends, Go, Enter, frameVars, TypeOK
  <2> QED
    BY <1>0, <2>1, <2>2
    DEF FrameInv, Steady, GoesTo, Answering, AnswerLabels, UnusableLabels,
        ObjectLabels, HandlerLabels, CallLabels, SetupLabels, Labels
<1>9. CASE Check(t)
  <2>1. pc[t] = "check"
    BY <1>9 DEF Check
  <2>2. \/ pc'[t] = "media" /\ routine'[t] = "unusable"
        \/ pc'[t] = "start" /\ routine'[t] = routine[t]
        \/ pc'[t] = "ack" /\ routine'[t] = routine[t]
    <3>1. cur[t] \in Calls
      BY <1>0, <2>1 DEF FrameInv, HandlerLabels, CallLabels, SetupLabels, Labels
    <3> QED
      BY <1>0, <1>9, <3>1, ReturnEnds
      DEF Check, Ends, Go, Enter, frameVars, TypeOK
  <2> QED
    BY <1>0, <2>1, <2>2
    DEF FrameInv, Steady, GoesTo, Answering, AnswerLabels, UnusableLabels,
        ObjectLabels, HandlerLabels, CallLabels, SetupLabels, Labels
<1>10. CASE Start(t)
  <2>1. pc[t] = "start"
    BY <1>10 DEF Start
  <2>2. \/ pc'[t] = "media" /\ routine'[t] = "unusable"
        \/ pc'[t] = "commit" /\ routine'[t] = routine[t]
    <3>1. cur[t] \in Calls
      BY <1>0, <2>1 DEF FrameInv, HandlerLabels, CallLabels, SetupLabels, Labels
    <3> QED
      BY <1>0, <1>10, <3>1, ReturnEnds
      DEF Start, Ends, Go, Enter, frameVars, TypeOK
  <2> QED
    BY <1>0, <2>1, <2>2
    DEF FrameInv, Steady, GoesTo, Answering, AnswerLabels, UnusableLabels,
        ObjectLabels, HandlerLabels, CallLabels, SetupLabels, Labels
<1>11. CASE Commit(t)
  <2>1. pc[t] = "commit"
    BY <1>11 DEF Commit
  <2>2. \/ pc'[t] = "media" /\ routine'[t] = "unusable"
        \/ pc'[t] = "ack" /\ routine'[t] = routine[t]
    <3>1. cur[t] \in Calls
      BY <1>0, <2>1 DEF FrameInv, HandlerLabels, CallLabels, SetupLabels, Labels
    <3> QED
      BY <1>0, <1>11, <3>1, ReturnEnds
      DEF Commit, Ends, Go, Enter, frameVars, TypeOK
  <2> QED
    BY <1>0, <2>1, <2>2
    DEF FrameInv, Steady, GoesTo, Answering, AnswerLabels, UnusableLabels,
        ObjectLabels, HandlerLabels, CallLabels, SetupLabels, Labels
<1>12. CASE SendAck(t)
  <2>1. pc[t] = "ack"
    BY <1>12 DEF SendAck
  <2>2. pc'[t] = "unflag" /\ routine'[t] \in {routine[t], "raised"}
    BY <1>0, <1>12, ReturnEnds DEF SendAck, Ends, Go, frameVars, TypeOK
  <2> QED
    BY <1>0, <2>1, <2>2
    DEF FrameInv, Steady, GoesTo, Answering, AnswerLabels, UnusableLabels,
        ObjectLabels, HandlerLabels, CallLabels, SetupLabels, Labels
<1>13. CASE Unflag(t)
  BY <1>13, ReturnEnds DEF Unflag, Ends
<1>14. CASE StopMedia(t)
  <2>1. pc[t] = "media"
    BY <1>14 DEF StopMedia
  <2>2. \/ pc'[t] = "sendbye" /\ routine'[t] = routine[t] /\ routine[t] = "hangup"
        \/ pc'[t] = "ended" /\ routine'[t] = routine[t]
    BY <1>0, <1>14, ReturnEnds DEF StopMedia, Ends, Go, frameVars, TypeOK
  <2> QED
    BY <1>0, <2>1, <2>2
    DEF FrameInv, Steady, GoesTo, Answering, AnswerLabels, UnusableLabels,
        ObjectLabels, HandlerLabels, CallLabels, SetupLabels, Labels
<1>15. CASE SendBye(t)
  <2>1. pc[t] = "sendbye"
    BY <1>15 DEF SendBye
  <2>2. pc'[t] = "ended" /\ routine'[t] = routine[t]
    BY <1>0, <1>15, ReturnEnds DEF SendBye, Ends, Go, frameVars, TypeOK
  <2> QED
    BY <1>0, <2>1, <2>2
    DEF FrameInv, Steady, GoesTo, Answering, AnswerLabels, UnusableLabels,
        ObjectLabels, HandlerLabels, CallLabels, SetupLabels, Labels
<1>16. CASE SetEnded(t)
  <2>1. pc[t] = "ended"
    BY <1>16 DEF SetEnded
  <2>2. pc'[t] = "fin" /\ routine'[t] = routine[t]
    BY <1>0, <1>16, ReturnEnds DEF SetEnded, Ends, Go, frameVars, TypeOK
  <2> QED
    BY <1>0, <2>1, <2>2
    DEF FrameInv, Steady, GoesTo, Answering, AnswerLabels, UnusableLabels,
        ObjectLabels, HandlerLabels, CallLabels, SetupLabels, Labels
<1>17. CASE Finalize(t)
  <2>1. pc[t] = "fin"
    BY <1>17 DEF Finalize
  <2>2. \/ Ends(t)
        \/ pc'[t] = "sendboth" /\ routine'[t] = routine[t] /\ routine[t] # "reclaim"
        \/ pc'[t] = "remember" /\ routine'[t] = routine[t]
    BY <1>0, <1>17, ReturnEnds DEF Finalize, Finalized, Ends, Go, frameVars, TypeOK
  <2> QED
    BY <1>0, <2>1, <2>2
    DEF FrameInv, Steady, GoesTo, Answering, AnswerLabels, UnusableLabels,
        ObjectLabels, HandlerLabels, CallLabels, SetupLabels, Labels
<1>18. CASE Remember(t)
  <2>1. pc[t] = "remember"
    BY <1>18 DEF Remember
  <2>2. pc'[t] = "release" /\ routine'[t] = routine[t] /\ cur[t] \in ended'
    BY <1>0, <1>18, ReturnEnds DEF Remember, Ends, Go, frameVars, TypeOK
  <2> QED
    BY <1>0, <2>1, <2>2
    DEF FrameInv, Steady, GoesTo, Answering, AnswerLabels, UnusableLabels,
        ObjectLabels, HandlerLabels, CallLabels, SetupLabels, Labels
<1>19. CASE Release(t)
  <2>1. pc[t] = "release"
    BY <1>19 DEF Release
  <2>2. pc'[t] = "remove" /\ routine'[t] = routine[t]
    BY <1>0, <1>19, ReturnEnds DEF Release, Ends, Go, frameVars, TypeOK
  <2> QED
    BY <1>0, <2>1, <2>2
    DEF FrameInv, Steady, GoesTo, Answering, AnswerLabels, UnusableLabels,
        ObjectLabels, HandlerLabels, CallLabels, SetupLabels, Labels
<1>20. CASE Remove(t)
  <2>1. pc[t] = "remove"
    BY <1>20 DEF Remove
  <2>2. \/ Ends(t)
        \/ pc'[t] = "sendboth" /\ routine'[t] = routine[t] /\ routine[t] # "reclaim"
    BY <1>0, <1>20, ReturnEnds DEF Remove, Finalized, Ends, Go, frameVars, TypeOK
  <2> QED
    BY <1>0, <2>1, <2>2
    DEF FrameInv, Steady, GoesTo, Answering, AnswerLabels, UnusableLabels,
        ObjectLabels, HandlerLabels, CallLabels, SetupLabels, Labels
<1>21. CASE SendBoth(t)
  <2>1. pc[t] = "sendboth"
    BY <1>21 DEF SendBoth
  <2>2. \/ Ends(t)
        \/ pc'[t] = "unflag" /\ routine'[t] = routine[t] /\ routine[t] = "unusable"
    BY <1>0, <1>21, ReturnEnds DEF SendBoth, Ends, Go, frameVars, TypeOK
  <2> QED
    BY <1>0, <2>1, <2>2
    DEF FrameInv, Steady, GoesTo, Answering, AnswerLabels, UnusableLabels,
        ObjectLabels, HandlerLabels, CallLabels, SetupLabels, Labels
<1> QED
  BY <1>1, <1>2, <1>3, <1>4, <1>5, <1>6, <1>7, <1>8, <1>9,
     <1>10, <1>11, <1>12, <1>13, <1>14, <1>15, <1>16, <1>17, <1>18,
     <1>19, <1>20, <1>21
  DEF Handling, Ending

(* A handler keeps what is said of its own frame.                          *)
LEMMA HandlerFrame ==
    ASSUME IInv, NEW t \in Threads, Handling(t) \/ Ending(t)
    PROVE  FrameInv(t)'
<1>0. TypeOK /\ FrameInv(t) /\ LockInv(t) /\ Steady /\ RegistryInv
  BY HandlerSteady DEF IInv
<1>1. CASE Ends(t)
  <2>1. /\ cur'[t] = None /\ routine'[t] = "none"
        /\ pc'[t] \in {"wait", "port", "idle"}
    BY <1>0, <1>1, DoneFacts DEF Ends
  <2> QED
    BY <2>1 DEF FrameInv, ObjectLabels, HandlerLabels, CallLabels, SetupLabels
<1>2. CASE ~Ends(t)
  <2>1. GoesOn(t) /\ GoesTo(t)
    BY <1>2, HandlerControl, HandlerMoves
  <2>2. pc[t] \in HandlerLabels
    <3>1. pc[t] \in Labels
      BY <1>0 DEF TypeOK
    <3> QED
      BY <3>1 DEF Handling, Ending, Stale, Failed, Late, Queue, Enqueue, Find,
         Cached, Claim, Check, Start, Commit, SendAck, Unflag, StopMedia,
         SendBye, SetEnded, Finalize, Remember, Release, Remove, SendBoth,
         HandlerLabels, CallLabels, SetupLabels
  <2>3. cur'[t] = cur[t] /\ cur[t] \in Calls /\ pc'[t] \in HandlerLabels
    BY <1>0, <2>1, <2>2 DEF GoesOn, FrameInv
  <2>4. pc'[t] \in ObjectLabels => state'[cur[t]] # "NONE"
    BY <1>0, <2>1, <2>3 DEF GoesTo, FrameInv, RegistryInv, Steady
  <2> QED
    BY <2>1, <2>3, <2>4 DEF FrameInv, GoesTo
<1> QED
  BY <1>1, <1>2

(* The steps of handlers are taken inside handlers.                        *)
LEMMA HandlerIsHandler ==
    ASSUME TypeOK, NEW t \in Threads, Handling(t) \/ Ending(t)
    PROVE  pc[t] \in HandlerLabels
<1>1. pc[t] \in Labels
  BY DEF TypeOK
<1> QED
  BY <1>1 DEF Handling, Ending, Stale, Failed, Late, Queue, Enqueue, Find,
     Cached, Claim, Check, Start, Commit, SendAck, Unflag, StopMedia, SendBye,
     SetEnded, Finalize, Remember, Release, Remove, SendBoth, HandlerLabels,
     CallLabels, SetupLabels

----------------------------------------------------------------------------
(* Answers *)

(* Steps that neither raise nor lower the flag of a call.                  *)
LEMMA AnswerKept ==
    ASSUME IInv, UNCHANGED busy,
           \A t \in Threads : (Answering(t))' => Answering(t) /\ cur'[t] = cur[t]
    PROVE  AnswerInv'
  BY DEF IInv, AnswerInv

(* A handler keeps one answerer per call, with its flag raised.            *)
LEMMA HandlerAnswers ==
    ASSUME IInv, NEW t \in Threads, Handling(t) \/ Ending(t)
    PROVE  AnswerInv'
<1>0. /\ TypeOK /\ FrameInv(t) /\ LockInv(t) /\ AnswerInv /\ Others(t)
      /\ (Ends(t) \/ (GoesOn(t) /\ GoesTo(t)))
      /\ (Ends(t) => ~(Answering(t))')
  <2>1. Ends(t) => /\ Others(t) /\ routine'[t] = "none"
                   /\ pc'[t] \in {"wait", "port", "idle"}
    BY DoneFacts DEF IInv, Ends, Others
  <2>2. Ends(t) => ~(Answering(t))'
    BY <2>1 DEF Answering, AnswerLabels
  <2>3. Ends(t) \/ (GoesOn(t) /\ GoesTo(t))
    <3>1. GoesOn(t) \/ Ends(t)
      BY HandlerControl
    <3>2. Ends(t) \/ GoesTo(t)
      BY HandlerMoves
    <3> QED
      BY <3>1, <3>2
  <2>4. Others(t)
    BY <2>1, <2>3 DEF GoesOn
  <2>5. TypeOK /\ FrameInv(t) /\ LockInv(t) /\ AnswerInv
    BY DEF IInv
  <2> QED
    BY <2>2, <2>3, <2>4, <2>5
<1>1. \A u \in Threads \ {t} : (Answering(u))' <=> Answering(u)
  BY <1>0 DEF Others, Kept, Answering
<1>2. \A u \in Threads \ {t} : cur'[u] = cur[u]
  BY <1>0 DEF Others, Kept
<1>3. CASE Claim(t) /\ ~Ends(t)
  <2>1. pc[t] = "claim" /\ cur[t] \in Calls /\ cur'[t] = cur[t]
    BY <1>0, <1>3
    DEF Claim, FrameInv, GoesOn, HandlerLabels, CallLabels, SetupLabels, Labels
  <2>2. CASE UNCHANGED busy /\ ~(Answering(t))'
    BY <1>1, <1>2, <2>2, AnswerKept
  <2>3. CASE busy' = [busy EXCEPT ![cur[t]] = TRUE] /\ ~busy[cur[t]]
    <3>1. \A u \in Threads : Answering(u) => cur[u] # cur[t]
      BY <1>0, <2>3 DEF AnswerInv
    <3>2. busy'[cur[t]] /\ \A c \in Calls : busy[c] => busy'[c]
      BY <1>0, <2>1, <2>3 DEF TypeOK
    <3>3. \A u \in Threads : Answering(u) => busy'[cur[u]]
      <4> SUFFICES ASSUME NEW u \in Threads, Answering(u) PROVE busy'[cur[u]]
        OBVIOUS
      <4>1. busy[cur[u]] /\ busy' = [busy EXCEPT ![cur[t]] = TRUE]
            /\ cur[u] # cur[t]
        BY <1>0, <2>3, <3>1 DEF AnswerInv
      <4> QED
        BY <1>0, <4>1 DEF TypeOK
    <3>4. \A u \in Threads : (Answering(u))' => busy'[cur'[u]]
      BY <1>1, <1>2, <2>1, <3>2, <3>3
    <3>5. \A u, w \in Threads :
              (Answering(u))' /\ (Answering(w))' /\ cur'[u] = cur'[w] => u = w
      BY <1>0, <1>1, <1>2, <2>1, <3>1 DEF AnswerInv
    <3> QED
      BY <3>4, <3>5 DEF AnswerInv
  <2>4. \/ UNCHANGED busy /\ ~(Answering(t))'
        \/ busy' = [busy EXCEPT ![cur[t]] = TRUE] /\ ~busy[cur[t]]
    <3>1. CASE state[cur[t]] = "ENDED"
      <4>1. pc'[t] = "media" /\ routine'[t] = "orphan" /\ UNCHANGED busy
        BY <1>0, <1>3, <3>1, ReturnEnds DEF Claim, Enter, Go, TypeOK
      <4> QED
        BY <4>1 DEF Answering, AnswerLabels
    <3>2. CASE state[cur[t]] # "ENDED"
      BY <1>3, <3>2, ReturnEnds DEF Claim
    <3> QED
      BY <3>1, <3>2
  <2> QED
    BY <2>2, <2>3, <2>4
<1>4. CASE Unflag(t)
  <2>1. Ends(t) /\ busy' = [busy EXCEPT ![cur[t]] = FALSE] /\ Answering(t)
    BY <1>4 DEF Unflag, Ends, Answering, AnswerLabels
  <2>2. \A u \in Threads \ {t} : Answering(u) => busy'[cur[u]]
    BY <1>0, <2>1 DEF AnswerInv, TypeOK
  <2> QED
    BY <1>0, <1>1, <1>2, <2>1, <2>2 DEF AnswerInv
<1>5. CASE ~Unflag(t) /\ ~(Claim(t) /\ ~Ends(t))
  <2>1. CASE Ends(t)
    <3>1. UNCHANGED busy
      <4>1. CASE Claim(t)
        <5>1. pc'[t] # "check"
          BY <1>0, <2>1, DoneFacts DEF Ends
        <5>2. UNCHANGED busy \/ Enter(t, "answer", "check", cur[t], 0)
          BY <4>1 DEF Claim
        <5> QED
          BY <1>0, <5>1, <5>2 DEF Enter, Go, TypeOK
      <4>2. CASE ~Claim(t)
        BY <1>5, <4>2 DEF Handling, Ending, Stale, Failed, Late, Queue, Enqueue,
           Find, Cached, Check, Start, Commit, SendAck, StopMedia, SendBye,
           SetEnded, Finalize, Remember, Release, Remove, SendBoth, lifeVars
      <4> QED
        BY <4>1, <4>2
    <3> QED
      BY <1>0, <1>1, <1>2, <2>1, <3>1, AnswerKept
  <2>2. CASE ~Ends(t)
    <3>1. ~Claim(t) /\ pc[t] # "claim"
      BY <1>5, <2>2
      DEF Handling, Ending, Stale, Failed, Late, Queue, Enqueue,
           Find, Cached, Check, Start, Commit, SendAck, StopMedia, SendBye,
           SetEnded, Finalize, Remember, Release, Remove, SendBoth
    <3>2. UNCHANGED busy
      BY <1>5, <3>1 DEF Handling, Ending, Stale, Failed, Late, Queue, Enqueue,
           Find, Cached, Check, Start, Commit, SendAck, StopMedia, SendBye,
           SetEnded, Finalize, Remember, Release, Remove, SendBoth, lifeVars
    <3>3. GoesOn(t) /\ GoesTo(t)
      BY <1>0, <2>2
    <3>4. (Answering(t))' => Answering(t) /\ cur'[t] = cur[t]
      BY <3>1, <3>3 DEF GoesOn, GoesTo
    <3> QED
      BY <1>1, <1>2, <3>2, <3>4, AnswerKept
  <2> QED
    BY <2>1, <2>2
<1> QED
  BY <1>3, <1>4, <1>5

----------------------------------------------------------------------------
(* The registry, and what is counted *)

(* A step that builds no object and adds no tag, loses no remembered call  *)
(* and lets go of a Call-ID only when there is an object.                  *)
LEMMA RegistryKept ==
    ASSUME IInv,
           \A c \in Calls : (state'[c] = "NONE") <=> (state[c] = "NONE"),
           tag' \subseteq tag, freed \subseteq freed', port' = port,
           tried' = tried, calls' \subseteq calls, ended \subseteq ended',
           calls \subseteq calls' \cup ended',
           \A c \in Calls : state[c] = "NONE" /\ Placing(c) => (Placing(c))'
    PROVE  RegistryInv'
<1>0. TypeOK /\ RegistryInv
  BY DEF IInv
<1>1. LateAnswerRecognised'
  BY <1>0 DEF RegistryInv, LateAnswerRecognised
<1>2. FailedCallLeavesNothing'
  BY <1>0 DEF RegistryInv, FailedCallLeavesNothing, Holds, TypeOK
<1>3. calls \subseteq Calls
  BY <1>0 DEF TypeOK
<1> QED
  BY <1>0, <1>1, <1>2, <1>3 DEF RegistryInv

(* A thread leaves call() only when the call has an object.                *)
LEMMA HandlerRegistry ==
    ASSUME IInv, NEW t \in Threads, Handling(t) \/ Ending(t)
    PROVE  RegistryInv'
<1>0. /\ TypeOK /\ FrameInv(t) /\ LockInv(t) /\ DialInv(t) /\ Steady
      /\ pc[t] \in HandlerLabels
  BY HandlerSteady, HandlerIsHandler DEF IInv
<1>1. Others(t) /\ tried' = tried
  <2>1. CASE GoesOn(t)
    BY <2>1 DEF GoesOn, appVars
  <2>2. CASE Ends(t)
    BY <1>0, <2>2, DoneFacts DEF Ends, Others
  <2> QED
    BY <2>1, <2>2, HandlerControl
<1>2. \A c \in Calls : state[c] = "NONE" /\ Placing(c) => (Placing(c))'
  <2> SUFFICES ASSUME NEW c \in Calls, state[c] = "NONE", NEW u \in Threads,
                      dial[u] = c
               PROVE  dial'[u] = c
    BY DEF Placing
  <2>1. CASE u # t
    BY <1>1, <2>1 DEF Others, Kept
  <2>2. CASE u = t
    <3>1. c # None
      BY ConstantsAssumption
    <3>2. pc[t] # "leave"
      BY <1>0 DEF HandlerLabels, CallLabels
    <3>3. InSetup(t)
      BY <1>0, <2>2, <3>1, <3>2 DEF DialInv
    <3>4. CASE GoesOn(t)
      BY <2>2, <3>4 DEF GoesOn, appVars
    <3>5. CASE Ends(t)
      <4>1. pc[t] \notin SetupLabels
        BY <1>0 DEF HandlerLabels, CallLabels
      <4>2. routine[t] = "reclaim" \/ recvLock = t
        BY <3>3, <4>1 DEF InSetup
      <4>3. t \in Apps
        BY <1>0, <2>2, <3>1 DEF DialInv, Threads
      <4>4. InTransaction(t) \/ routine[t] = "reclaim"
        BY <4>2, <4>3 DEF InTransaction
      <4> QED
        BY <1>0, <2>2, <3>5, <4>4, DoneFacts DEF Ends
    <3> QED
      BY <3>4, <3>5, HandlerControl
  <2> QED
    BY <2>1, <2>2
<1>3. calls \subseteq calls' \cup ended'
  <2>1. CASE Remove(t)
    <3>1. calls' = calls \ {cur[t]} /\ cur[t] \in ended
      BY <1>0, <2>1 DEF Remove, FrameInv
    <3> QED
      BY <1>0, <3>1 DEF Steady
  <2>2. CASE ~Remove(t)
    BY <2>2 DEF Handling, Ending, Stale, Failed, Late, Queue, Enqueue, Find,
       Cached, Claim, Check, Start, Commit, SendAck, Unflag, StopMedia,
       SendBye, SetEnded, Finalize, Remember, Release, SendBoth, registryVars
  <2> QED
    BY <2>1, <2>2
<1> QED
  BY <1>0, <1>1, <1>2, <1>3, RegistryKept DEF Steady

(* The steps of a handler keep the inductive invariant.                    *)
LEMMA HandlerStep ==
    ASSUME IInv, NEW t \in Threads, Handling(t) \/ Ending(t)
    PROVE  IInv'
<1>1. Step(t)
  BY DEF Step
<1>2. TypeOK /\ Steady /\ DepthInv /\ ChallengesMatchRetries
  BY HandlerSteady DEF IInv
<1>3. pc[t] \in HandlerLabels
  BY <1>2, HandlerIsHandler
<1>4. \A u \in Threads : (FrameInv(u) /\ LockInv(u) /\ DialInv(u))'
  BY <1>3, HandlerKeeps, HandlerFrame
<1>5. DepthInv'
  BY <1>2, <1>3, HandlerKeeps DEF DepthInv, Steady
<1>6. ChallengesMatchRetries'
  BY <1>2 DEF ChallengesMatchRetries, Steady
<1>7. depth' \in Nat
  BY <1>2 DEF TypeOK, Steady
<1>8. TypeOK'
  BY <1>1, <1>7, LifeTypeStep, PortTypeStep, RegistryTypeStep, PeerTypeStep,
     ThreadTypeStep
  DEF TypeOK, LifeType, PortType, RegistryType, PeerType, ThreadType
<1> QED
  BY <1>4, <1>5, <1>6, <1>8, HandlerAnswers, HandlerRegistry DEF IInv

----------------------------------------------------------------------------
(* The steps of call() itself *)

AllThreads == \A t \in Threads : FrameInv(t) /\ LockInv(t) /\ DialInv(t)

\* What a step says of the requests and of the types is shown apart.
Inductive == AllThreads /\ DepthInv /\ AnswerInv /\ RegistryInv

(* Where a thread of call() is not in a handler.                           *)
LEMMA OutsideHandlers ==
    ASSUME IInv, NEW t \in Threads, pc[t] \notin HandlerLabels
    PROVE  /\ cur[t] = None /\ routine[t] = "none" /\ ~Answering(t)
           /\ (InSetup(t) <=> pc[t] \in SetupLabels)
  <1>1. FrameInv(t)
    BY DEF IInv
  <1>2. AnswerLabels \subseteq HandlerLabels
    BY DEF AnswerLabels, HandlerLabels, Labels, CallLabels, SetupLabels
  <1> QED
    BY <1>1, <1>2 DEF FrameInv, Answering, InSetup

(* A step of call() before it knows of an object.                          *)
LEMMA SetupKeeps ==
    ASSUME IInv, NEW t \in Threads, pc[t] \in SetupLabels,
           pc'[t] \in SetupLabels \cup {"leave"}, Others(t),
           UNCHANGED <<dial, tried, routine, cur, state, calls, ended, depth,
                       busy>>,
           tag' \subseteq tag \cup {dial[t]}, freed \subseteq freed',
           \A c \in Calls : c # dial[t] => port'[c] = port[c],
           \A u \in Threads \ {t} : (recvLock' = u) <=> (recvLock = u),
           (recvLock' = t) <=> (pc'[t] = "wait"),
           pc'[t] \in {"giveup", "leave"} => dial[t] \notin tag',
           pc'[t] = "leave" => dial[t] \in freed'
    PROVE  Inductive'
<1>0. /\ TypeOK /\ FrameInv(t) /\ LockInv(t) /\ DialInv(t) /\ DepthInv
      /\ RegistryInv
  BY DEF IInv
<1>1. /\ pc[t] \notin HandlerLabels /\ pc'[t] \notin HandlerLabels
      /\ pc[t] \in CallLabels /\ pc'[t] \in CallLabels /\ pc[t] # "leave"
      /\ "wait" \in SetupLabels
  BY DEF HandlerLabels, CallLabels, SetupLabels
<1>2. /\ cur[t] = None /\ routine[t] = "none" /\ ~Answering(t) /\ InSetup(t)
  BY <1>1, OutsideHandlers
<1>3. dial[t] \in Calls /\ dial[t] # None /\ t # Recv
  BY <1>0, <1>1 DEF TypeOK, DialInv
<1>4. \A u \in Threads \ {t} : FrameInv(u)' /\ LockInv(u)' /\ DialInv(u)'
  BY <1>3, OthersKeep
<1>5. FrameInv(t)'
  <2>1. pc'[t] \notin ObjectLabels /\ pc'[t] \notin {"release", "remove"}
    BY <1>1 DEF ObjectLabels, HandlerLabels, CallLabels, SetupLabels, Labels
  <2> QED
    BY <1>1, <1>2, <2>1 DEF FrameInv
<1>6. LockInv(t)'
  BY <1>1, <1>2, <1>3 DEF LockInv
<1>7. InSetup(t)' <=> pc'[t] \in SetupLabels
  BY <1>1 DEF InSetup
<1>8. DialInv(t)'
  <2>1. pc'[t] # "idle" /\ (pc'[t] \in SetupLabels \/ pc'[t] = "leave")
    BY DEF SetupLabels
  <2> QED
    BY <1>0, <1>2, <1>3, <1>7, <2>1 DEF DialInv
<1>9. DepthInv'
  <2>1. \A u \in Threads \ {t} : (Creating(u))' <=> Creating(u)
    BY DEF Creating, InSetup, Others, Kept
  <2>2. Creating(t) /\ (Creating(t))'
    BY <1>2, <1>3, <1>7 DEF Creating
  <2>3. Creators' = Creators
    BY <2>1, <2>2 DEF Creators
  <2> QED
    BY <1>0, <2>3 DEF DepthInv
<1>10. AnswerInv'
  <2>1. ~(Answering(t))'
    BY <1>1, <1>2 DEF Answering, AnswerLabels, HandlerLabels, CallLabels,
       SetupLabels, Labels
  <2>2. \A u \in Threads \ {t} :
            (Answering(u))' => Answering(u) /\ cur'[u] = cur[u]
    BY DEF Answering, Others, Kept
  <2> QED
    BY <2>1, <2>2, AnswerKept
<1>11. RegistryInv'
  <2>1. FailedCallLeavesNothing'
    <3>1. \A c \in Calls : (Placing(c))' <=> Placing(c)
      BY DEF Placing
    <3>2. Placing(dial[t])
      BY DEF Placing
    <3> QED
      BY <1>0, <3>1, <3>2 DEF RegistryInv, FailedCallLeavesNothing, Holds, TypeOK
  <2> QED
    BY <1>0, <2>1 DEF RegistryInv, LateAnswerRecognised
<1> QED
  BY <1>4, <1>5, <1>6, <1>8, <1>9, <1>10, <1>11 DEF Inductive, AllThreads

(* What a request adds is asked for: the answer to an INVITE never changes. *)
LEMMA ArrivesKeeps ==
    ASSUME IInv, NEW c \in Calls, NEW n, NEW k, Arrives(c, n, k)
    PROVE  \A d \in Calls : \A m \in Attempts :
               answer[d][m] # "none" => answer'[d][m] = answer[d][m]
<1>1. TypeOK
  BY DEF IInv
<1>2. CASE k = "ringing"
  BY <1>2 DEF Arrives
<1>3. CASE k # "ringing"
  <2>1. /\ answer' = [answer EXCEPT ![c][n] = k] /\ answer[c][n] \in {"none", k}
    BY <1>3 DEF Arrives
  <2> QED
    BY <1>1, <2>1 DEF TypeOK
<1> QED
  BY <1>2, <1>3

(* A step that sends no INVITE keeps every repetition justified.            *)
LEMMA ChallengesKept ==
    ASSUME IInv, UNCHANGED sent,
           UNCHANGED answer \/ \E c \in Calls : \E n, k : Arrives(c, n, k)
    PROVE  ChallengesMatchRetries'
<1>1. TypeOK /\ ChallengesMatchRetries
  BY DEF IInv
<1>2. \A d \in Calls : \A m \in Attempts :
          answer[d][m] # "none" => answer'[d][m] = answer[d][m]
  BY ArrivesKeeps
<1>3. \A d \in Calls : \A m \in 1..(sent[d] - 1) : m \in Attempts
  BY <1>1, ConstantsAssumption DEF TypeOK, Attempts
<1> QED
  BY <1>1, <1>2, <1>3 DEF ChallengesMatchRetries

(* The steps of call() up to its object, one by one.                       *)
SetupStep(t) == \/ RequestPort(t) \/ PrepareInvite(t) \/ SendInvite(t)
                \/ TimedOut(t) \/ Abandon(t) \/ GiveUp(t)
                \/ Progress(t) \/ Challenged(t) \/ Final(t)

(* Such a step is taken inside call(), for a Call-ID.                      *)
LEMMA SetupPlace ==
    ASSUME IInv, NEW t \in Threads, SetupStep(t)
    PROVE  /\ pc[t] \in SetupLabels /\ dial[t] \in Calls
           /\ TypeOK /\ LockInv(t) /\ DialInv(t)
<1>1. pc[t] \in SetupLabels
  BY DEF SetupStep, RequestPort, PrepareInvite, SendInvite, TimedOut, Abandon,
         GiveUp, Progress, Challenged, Final, Awaits, SetupLabels
<1>2. TypeOK /\ LockInv(t) /\ DialInv(t)
  BY DEF IInv
<1> QED
  BY <1>1, <1>2 DEF DialInv, CallLabels, TypeOK

(* A step of call() moves its own thread, and takes or gives up the lock.  *)
LEMMA SetupMoves ==
    ASSUME IInv, NEW t \in Threads, SetupStep(t)
    PROVE  /\ Others(t) /\ pc'[t] \in SetupLabels \cup {"leave"}
           /\ \A u \in Threads \ {t} : (recvLock' = u) <=> (recvLock = u)
           /\ (recvLock' = t) <=> (pc'[t] = "wait")
           /\ UNCHANGED <<dial, tried, routine, cur, state, calls, ended, depth,
                          busy>>
           /\ \A c \in Calls : c # dial[t] => port'[c] = port[c]
           /\ tag' \subseteq tag \cup {dial[t]} /\ freed \subseteq freed'
<1>0. TypeOK /\ LockInv(t) /\ None \notin Threads
  BY SetupPlace, ConstantsAssumption DEF Threads
<1> USE DEF lifeVars, mediaVars, portVars, registryVars, setupVars, peerVars,
            frameVars, appVars, Others, Kept, TypeOK, LockInv, Go, SetupLabels,
            HandlerLabels, CallLabels, Labels
<1>1. CASE RequestPort(t)
  BY <1>0, <1>1 DEF RequestPort
<1>2. CASE PrepareInvite(t)
  BY <1>0, <1>2 DEF PrepareInvite
<1>3. CASE SendInvite(t)
  BY <1>0, <1>3 DEF SendInvite
<1>4. CASE TimedOut(t)
  BY <1>0, <1>4 DEF TimedOut, Awaits
<1>5. CASE Abandon(t)
  BY <1>0, <1>5 DEF Abandon
<1>6. CASE GiveUp(t)
  BY <1>0, <1>6 DEF GiveUp
<1>7. CASE Progress(t)
  BY <1>0, <1>7 DEF Progress, Awaits, Returns
<1>8. CASE Challenged(t)
  BY <1>0, <1>8 DEF Challenged, Awaits
<1>9. CASE Final(t)
  BY <1>0, <1>9 DEF Final, Awaits, Returns
<1> QED
  BY <1>1, <1>2, <1>3, <1>4, <1>5, <1>6, <1>7, <1>8, <1>9 DEF SetupStep

(* It keeps what is inductive,                                             *)
LEMMA SetupInductive ==
    ASSUME IInv, NEW t \in Threads, SetupStep(t)
    PROVE  Inductive'
<1>0. TypeOK /\ DialInv(t) /\ pc[t] \in SetupLabels /\ dial[t] \in Calls
  BY SetupPlace
<1>1. CASE Abandon(t)
  <2>1. pc'[t] = "giveup" /\ dial[t] \notin tag'
    BY <1>0, <1>1 DEF Abandon, Go, TypeOK
  <2> QED
    BY <1>0, <2>1, SetupMoves, SetupKeeps
<1>2. CASE GiveUp(t)
  <2>1. pc[t] = "giveup" /\ pc'[t] = "leave" /\ tag' = tag /\ dial[t] \in freed'
    BY <1>0, <1>2 DEF GiveUp, Go, TypeOK, registryVars
  <2>2. dial[t] \notin tag'
    BY <1>0, <2>1 DEF DialInv
  <2> QED
    BY <1>0, <2>1, <2>2, SetupMoves, SetupKeeps
<1>3. CASE ~Abandon(t) /\ ~GiveUp(t)
  <2>1. pc'[t] \notin {"giveup", "leave"}
    BY <1>0, <1>3 DEF SetupStep, RequestPort, PrepareInvite, SendInvite,
       TimedOut, Progress, Challenged, Final, Returns, Awaits, Go, TypeOK
  <2> QED
    BY <1>0, <2>1, SetupMoves, SetupKeeps
<1> QED
  BY <1>1, <1>2, <1>3

(* and repeats an INVITE only when the one sent last was challenged.       *)
LEMMA SetupChallenges ==
    ASSUME IInv, NEW t \in Threads, SetupStep(t)
    PROVE  ChallengesMatchRetries'
<1>0. TypeOK /\ dial[t] \in Calls /\ ChallengesMatchRetries
  BY SetupPlace DEF IInv
<1>1. CASE RequestPort(t) \/ PrepareInvite(t) \/ TimedOut(t) \/ Abandon(t)
           \/ GiveUp(t)
  <2>1. UNCHANGED <<sent, answer>>
    BY <1>1 DEF RequestPort, PrepareInvite, TimedOut, Abandon, GiveUp, peerVars
  <2> QED
    BY <2>1, ChallengesKept
<1>2. CASE SendInvite(t)
  <2>1. UNCHANGED answer
        /\ \A d \in Calls : sent'[d] = sent[d] \/ sent'[d] = 1
    BY <1>0, <1>2 DEF SendInvite, TypeOK
  <2>2. \A d \in Calls : \A m \in 1..(sent'[d] - 1) : sent'[d] = sent[d]
    BY <2>1
  <2> QED
    BY <1>0, <2>1, <2>2 DEF ChallengesMatchRetries
<1>3. CASE Progress(t) \/ Final(t)
  <2>1. UNCHANGED sent /\ \E n, k : Arrives(dial[t], n, k)
    BY <1>3 DEF Progress, Final, Returns
  <2> QED
    BY <1>0, <2>1, ChallengesKept
<1>4. CASE Challenged(t)
  <2>1. Arrives(dial[t], sent[dial[t]], "challenge")
    BY <1>4 DEF Challenged
  <2>2. CASE UNCHANGED sent
    BY <1>0, <2>1, <2>2, ChallengesKept
  <2>3. CASE sent' = [sent EXCEPT ![dial[t]] = @ + 1]
    <3> SUFFICES ASSUME NEW d \in Calls, NEW m \in 1..(sent'[d] - 1)
                 PROVE  answer'[d][m] = "challenge"
      BY DEF ChallengesMatchRetries
    <3>1. sent[d] \in 0..(MaxRetries + 1) /\ MaxRetries \in Nat
      BY <1>0, ConstantsAssumption DEF TypeOK
    <3>2. CASE m \in 1..(sent[d] - 1)
      <4>1. answer[d][m] = "challenge" /\ m \in Attempts
        BY <1>0, <3>1, <3>2 DEF ChallengesMatchRetries, Attempts
      <4> QED
        BY <1>0, <2>1, <4>1, ArrivesKeeps
    <3>3. CASE m \notin 1..(sent[d] - 1)
      <4>1. sent' = [sent EXCEPT ![dial[t]] = sent[dial[t]] + 1]
        BY <2>3
      <4>2. sent'[d] = IF d = dial[t] THEN sent[d] + 1 ELSE sent[d]
        BY <1>0, <4>1 DEF TypeOK
      <4>3. d = dial[t] /\ m = sent[d]
        BY <3>1, <3>3, <4>2
      <4>4. m \in Attempts
        BY <3>1, <3>3, <4>2 DEF Attempts
      <4>5. answer' = [answer EXCEPT ![d][m] = "challenge"]
        BY <2>1, <4>3 DEF Arrives
      <4> QED
        BY <1>0, <4>4, <4>5 DEF TypeOK
    <3> QED
      BY <3>2, <3>3
  <2> QED
    BY <1>4, <2>2, <2>3 DEF Challenged
<1> QED
  BY <1>1, <1>2, <1>3, <1>4 DEF SetupStep

----------------------------------------------------------------------------
(* The start of a handler *)

\* Objects, tags and Call-IDs stay.
Unbuilt == /\ \A c \in Calls : (state'[c] = "NONE") <=> (state[c] = "NONE")
           /\ UNCHANGED <<calls, ended, tag, port, freed, tried, dial, depth,
                          busy>>

(* A thread enters a handler while it holds the lock, or as a caller.      *)
LEMMA StartKeeps ==
    ASSUME IInv, NEW t \in Threads, pc[t] \notin HandlerLabels, Others(t),
           pc'[t] \in HandlerLabels \ (AnswerLabels \cup {"release", "remove"}),
           routine'[t] # "unusable", cur'[t] \in Calls,
           pc'[t] \in ObjectLabels => state[cur'[t]] # "NONE",
           routine'[t] = "reclaim" => pc'[t] = "fin" /\ pc[t] = "port",
           routine'[t] # "reclaim" => pc[t] \in {"idle", "wait", "replay"},
           \A u \in Threads \ {t} : (recvLock' = u) <=> (recvLock = u),
           (recvLock' = t) <=> (pc[t] = "wait" \/ t = Recv),
           Unbuilt
    PROVE  Inductive'
<1>0. /\ TypeOK /\ FrameInv(t) /\ LockInv(t) /\ DialInv(t) /\ DepthInv
      /\ RegistryInv
  BY DEF IInv
<1>1. /\ cur[t] = None /\ routine[t] = "none" /\ ~Answering(t)
      /\ (InSetup(t) <=> pc[t] \in SetupLabels)
  BY OutsideHandlers
<1>2. \A u \in Threads \ {t} : FrameInv(u)' /\ LockInv(u)' /\ DialInv(u)'
  BY OthersKeep DEF Unbuilt
<1>3. FrameInv(t)'
  BY <1>0 DEF FrameInv, Unbuilt
<1>4. /\ pc[t] \in {"port", "wait", "replay"} => dial[t] # None /\ t # Recv
      /\ pc[t] = "idle" => dial[t] = None
  BY <1>0 DEF DialInv, CallLabels, SetupLabels
<1>5. pc'[t] \notin CallLabels \cup {"idle"}
  BY DEF HandlerLabels
<1>6. LockInv(t)'
  BY <1>4, <1>5 DEF LockInv, CallLabels, SetupLabels, Unbuilt
<1>7. dial[t] # None => (InSetup(t)' <=> InSetup(t)) /\ pc[t] # "leave"
  BY <1>1, <1>4, <1>5 DEF InSetup, SetupLabels, CallLabels
<1>8. DialInv(t)'
  <2>1. pc'[t] \notin {"giveup", "leave"} /\ pc'[t] \notin CallLabels
    BY <1>5 DEF CallLabels, SetupLabels
  <2>2. dial'[t] = dial[t] /\ tried' = tried
        /\ \A u \in Threads : dial'[u] = dial[u]
    BY DEF Unbuilt
  <2>3. dial[t] # None => dial[t] \in Calls
    BY <1>0 DEF TypeOK
  <2>4. dial[t] # None => (state'[dial[t]] = "NONE") <=> (state[dial[t]] = "NONE")
    BY <2>3 DEF Unbuilt
  <2>5. routine'[t] = "reclaim" => dial[t] # None
    BY <1>4
  <2> QED
    BY <1>0, <1>5, <1>7, <2>1, <2>2, <2>4, <2>5 DEF DialInv
<1>9. DepthInv'
  <2>1. \A u \in Threads \ {t} : (Creating(u))' <=> Creating(u)
    BY DEF Creating, InSetup, Others, Kept
  <2>2. (Creating(t))' <=> Creating(t)
    BY <1>5, <1>7 DEF Creating, Unbuilt, CallLabels, SetupLabels
  <2>3. Creators' = Creators
    BY <2>1, <2>2 DEF Creators
  <2> QED
    BY <1>0, <2>3 DEF DepthInv, Unbuilt
<1>10. AnswerInv'
  <2>1. ~(Answering(t))'
    BY DEF Answering
  <2>2. \A u \in Threads \ {t} :
            (Answering(u))' => Answering(u) /\ cur'[u] = cur[u]
    BY DEF Answering, Others, Kept
  <2> QED
    BY <2>1, <2>2, AnswerKept DEF Unbuilt
<1>11. RegistryInv'
  BY RegistryKept DEF Unbuilt, Placing
<1> QED
  BY <1>2, <1>3, <1>6, <1>8, <1>9, <1>10, <1>11 DEF Inductive, AllThreads

(* No thread moves.                                                        *)
LEMMA StillKeeps ==
    ASSUME IInv, UNCHANGED <<pc, routine, cur, recvLock>>, Unbuilt
    PROVE  Inductive'
<1>0. AllThreads /\ DepthInv /\ AnswerInv /\ RegistryInv /\ TypeOK
  BY DEF IInv, AllThreads
<1>1. AllThreads'
  <2> SUFFICES ASSUME NEW t \in Threads
               PROVE  (FrameInv(t) /\ LockInv(t) /\ DialInv(t))'
    BY DEF AllThreads
  <2>1. FrameInv(t) /\ LockInv(t) /\ DialInv(t)
    BY <1>0 DEF AllThreads
  <2>2. dial[t] # None => dial[t] \in Calls
    BY <1>0 DEF TypeOK
  <2>3. dial[t] # None => (state'[dial[t]] = "NONE") <=> (state[dial[t]] = "NONE")
    BY <2>2 DEF Unbuilt
  <2>4. FrameInv(t)' /\ LockInv(t)'
    BY <2>1, ConstantsAssumption DEF FrameInv, LockInv, Unbuilt, ObjectLabels
  <2>5. InSetup(t)' <=> InSetup(t)
    BY DEF InSetup
  <2>6. /\ dial' = dial /\ tried' = tried /\ tag' = tag /\ freed' = freed
        /\ pc' = pc /\ routine' = routine
    BY DEF Unbuilt
  <2>7. DialInv(t)'
    BY <2>1, <2>3, <2>5, <2>6 DEF DialInv, CallLabels
  <2> QED
    BY <2>4, <2>7
<1>2. DepthInv'
  <2>1. Creators' = Creators
    BY DEF Creators, Creating, InSetup, Unbuilt
  <2> QED
    BY <1>0, <2>1 DEF DepthInv, Unbuilt
<1>3. AnswerInv'
  BY AnswerKept DEF Answering, Unbuilt
<1>4. RegistryInv'
  BY RegistryKept DEF Unbuilt, Placing
<1> QED
  BY <1>1, <1>2, <1>3, <1>4 DEF Inductive

(* A 18x makes no call and takes none away.                                *)
LEMMA RingKeeps ==
    ASSUME IInv, NEW c \in Calls, Ring(c)
    PROVE  \A d \in Calls : (state'[d] = "NONE") <=> (state[d] = "NONE")
<1>1. TypeOK
  BY DEF IInv
<1> QED
  BY <1>1 DEF Ring, TypeOK

(* Enter, seen from StartKeeps.                                            *)
LEMMA EnterStarts ==
    ASSUME TypeOK, NEW t \in Threads, NEW r, NEW l, NEW c, NEW n,
           Enter(t, r, l, c, n), UNCHANGED dial
    PROVE  /\ Others(t) /\ pc'[t] = l /\ routine'[t] = r /\ cur'[t] = c
  BY DEF TypeOK, Enter, Go, Others, Kept

(* A call() without a port finalizes an ended call.                        *)
LEMMA ReclaimInductive ==
    ASSUME IInv, NEW t \in Threads, Reclaim(t)
    PROVE  Inductive'
<1>0. TypeOK /\ LockInv(t) /\ DialInv(t) /\ RegistryInv
  BY DEF IInv
<1>1. PICK d \in calls : state[d] = "ENDED" /\ Enter(t, "reclaim", "fin", d, 0)
  BY DEF Reclaim
<1>2. /\ pc[t] = "port" /\ Stay /\ UNCHANGED dial /\ d \in Calls
  BY <1>0 DEF Reclaim, Stay, appVars, TypeOK
<1>3. Others(t) /\ pc'[t] = "fin" /\ routine'[t] = "reclaim" /\ cur'[t] = d
  BY <1>0, <1>1, <1>2, EnterStarts
<1>4. Unbuilt
  BY DEF Reclaim, Stay, appVars, Unbuilt, lifeVars, registryVars, portVars,
         setupVars
<1>5. /\ pc[t] \notin HandlerLabels
      /\ pc'[t] \in HandlerLabels \ (AnswerLabels \cup {"release", "remove"})
  BY <1>2, <1>3 DEF HandlerLabels, CallLabels, SetupLabels, Labels, AnswerLabels
<1>6. recvLock' = recvLock /\ recvLock # t /\ t # Recv
  BY <1>0, <1>2, <1>5 DEF Stay, LockInv, DialInv, CallLabels, SetupLabels
<1> QED
  BY <1>1, <1>2, <1>3, <1>4, <1>5, <1>6, StartKeeps

(* cancel() and hangup() of a call the application has.                    *)
LEMMA AppInductive ==
    ASSUME IInv, NEW t \in Threads, NEW c \in Calls, Cancel(t, c) \/ Hangup(t, c)
    PROVE  Inductive'
<1>0. TypeOK /\ LockInv(t)
  BY DEF IInv
<1>1. PICK r \in {"cancel", "hangup"} : Enter(t, r, "media", c, 0)
  BY DEF Cancel, Hangup
<1>2. /\ pc[t] = "idle" /\ Stay /\ UNCHANGED dial /\ t # Recv
      /\ state[c] # "NONE"
  BY ConstantsAssumption DEF Cancel, Hangup, Stay, appVars
<1>3. Others(t) /\ pc'[t] = "media" /\ routine'[t] = r /\ cur'[t] = c
  BY <1>0, <1>1, <1>2, EnterStarts
<1>4. \A d \in Calls : (state'[d] = "NONE") <=> (state[d] = "NONE")
  BY <1>0, <1>2 DEF Cancel, Hangup, lifeVars, TypeOK
<1>5. Unbuilt
  BY <1>4 DEF Cancel, Hangup, Stay, appVars, Unbuilt, lifeVars, registryVars,
     portVars, setupVars
<1>6. /\ pc[t] \notin HandlerLabels
      /\ pc'[t] \in HandlerLabels \ (AnswerLabels \cup {"release", "remove"})
  BY <1>2, <1>3 DEF HandlerLabels, CallLabels, SetupLabels, Labels, AnswerLabels
<1>7. recvLock' = recvLock /\ recvLock # t
  BY <1>0, <1>2, <1>6 DEF Stay, LockInv
<1> QED
  BY <1>1, <1>2, <1>3, <1>5, <1>6, <1>7, StartKeeps

(* A thread that reads for others takes the lock, or has it.               *)
LEMMA ReadsLock ==
    ASSUME IInv, NEW t \in Threads, Reads(t)
    PROVE  /\ pc[t] \in {"idle", "wait"} /\ pc[t] \notin HandlerLabels
           /\ pc[t] = "wait" \/ t = Recv
           /\ recvLock \in {t, None}
<1>1. LockInv(t)
  BY DEF IInv
<1> QED
  BY <1>1 DEF Reads, Awaits, LockInv, HandlerLabels, CallLabels, SetupLabels

(* A response to another call is read.                                     *)
LEMMA ReadInductive ==
    ASSUME IInv, NEW t \in Threads, Read(t)
    PROVE  Inductive'
<1>0. TypeOK /\ LockInv(t)
  BY DEF IInv
<1>1. PICK c \in Calls \ {dial[t]}, n \in Attempts, k \in Kinds :
          /\ Arrives(c, n, k)
          /\ CASE k = "ringing" ->
                     /\ Ring(c)
                     /\ UNCHANGED <<recvLock, pc, frameVars>>
               [] k = "ok" ->
                     /\ Enter(t, "accepted", "find", c, n)
                     /\ Locked(t) /\ UNCHANGED state
               [] OTHER ->
                     /\ Enter(t, "failed", "stale", c, n)
                     /\ Locked(t) /\ UNCHANGED state
  BY DEF Read
<1>2. /\ UNCHANGED <<calls, ended, tag, port, freed, tried, dial, depth, busy>>
      /\ pc[t] \in {"idle", "wait"} /\ pc[t] \notin HandlerLabels
      /\ pc[t] = "wait" \/ t = Recv
      /\ recvLock \in {t, None}
  BY ReadsLock DEF Read, appVars, registryVars, portVars
<1>3. CASE k = "ringing"
  <2>1. Ring(c) /\ UNCHANGED <<pc, routine, cur, recvLock>>
    BY <1>1, <1>3 DEF frameVars
  <2>2. Unbuilt
    BY <1>2, <2>1, RingKeeps DEF Unbuilt
  <2> QED
    BY <2>1, <2>2, StillKeeps
<1>4. CASE k # "ringing"
  <2>1. PICK r \in {"accepted", "failed"}, l \in {"find", "stale"} :
            Enter(t, r, l, c, n) /\ Locked(t) /\ UNCHANGED state
    BY <1>1, <1>4
  <2>2. Others(t) /\ pc'[t] = l /\ routine'[t] = r /\ cur'[t] = c
    BY <1>0, <1>2, <2>1, EnterStarts
  <2>3. Unbuilt
    BY <1>2, <2>1 DEF Unbuilt
  <2>4. /\ pc'[t] \notin ObjectLabels
        /\ pc'[t] \in HandlerLabels \ (AnswerLabels \cup {"release", "remove"})
    BY <2>2 DEF ObjectLabels, HandlerLabels, CallLabels, SetupLabels, Labels,
       AnswerLabels
  <2>5. recvLock' = t /\ \A u \in Threads \ {t} : recvLock # u
    BY <1>2, <2>1, ConstantsAssumption DEF Locked, Threads
  <2> QED
    BY <1>2, <2>1, <2>2, <2>3, <2>4, <2>5, StartKeeps
<1> QED
  BY <1>3, <1>4

(* A BYE is read.                                                          *)
LEMMA ReadByeInductive ==
    ASSUME IInv, NEW t \in Threads, ReadBye(t)
    PROVE  Inductive'
<1>0. TypeOK /\ LockInv(t) /\ RegistryInv
  BY DEF IInv
<1>1. PICK c \in calls, l \in {"media", "fin"} : Enter(t, "bye", l, c, 0)
  BY DEF ReadBye
<1>2. /\ UNCHANGED dial /\ Unbuilt /\ recvLock' = t
      /\ pc[t] \in {"idle", "wait"} /\ pc[t] \notin HandlerLabels
      /\ pc[t] = "wait" \/ t = Recv
      /\ recvLock \in {t, None}
  BY ReadsLock DEF ReadBye, appVars, registryVars, portVars, lifeVars, setupVars,
     Unbuilt, Locked
<1>3. Others(t) /\ pc'[t] = l /\ routine'[t] = "bye" /\ cur'[t] = c
  BY <1>0, <1>1, <1>2, EnterStarts
<1>4. c \in Calls /\ state[c] # "NONE"
  BY <1>0 DEF RegistryInv, TypeOK
<1>5. pc'[t] \in HandlerLabels \ (AnswerLabels \cup {"release", "remove"})
  BY <1>3 DEF HandlerLabels, CallLabels, SetupLabels, Labels, AnswerLabels
<1>6. \A u \in Threads \ {t} : recvLock # u
  BY <1>2, ConstantsAssumption DEF Threads
<1> QED
  BY <1>2, <1>3, <1>4, <1>5, <1>6, StartKeeps

----------------------------------------------------------------------------
(* Entering and leaving call() *)

(* What every step of call() after the object leaves alone.                *)
LEMMA LeavingPlace ==
    ASSUME IInv, NEW t \in Threads, pc[t] \in {"leave", "replay"}
    PROVE  /\ cur[t] = None /\ routine[t] = "none" /\ ~Answering(t)
           /\ ~InSetup(t) /\ pc[t] \notin HandlerLabels
           /\ dial[t] \in Calls /\ dial[t] # None /\ t # Recv /\ recvLock # t
           /\ dial[t] \in tried
           /\ pc[t] = "replay" => state[dial[t]] # "NONE"
           /\ pc[t] = "leave" /\ state[dial[t]] = "NONE" =>
                  dial[t] \in freed /\ dial[t] \notin tag
           /\ Creating(t) <=> pc[t] = "leave"
<1>1. TypeOK /\ LockInv(t) /\ DialInv(t)
  BY DEF IInv
<1>2. pc[t] \notin HandlerLabels /\ pc[t] \notin SetupLabels /\ pc[t] \in CallLabels
  BY DEF HandlerLabels, CallLabels, SetupLabels
<1>3. cur[t] = None /\ routine[t] = "none" /\ ~Answering(t) /\ ~InSetup(t)
  BY <1>2, OutsideHandlers
<1>4. dial[t] \in Calls /\ dial[t] # None /\ t # Recv /\ recvLock # t
  BY <1>1, <1>2 DEF DialInv, LockInv, TypeOK
<1> QED
  BY <1>1, <1>2, <1>3, <1>4 DEF DialInv, Creating

(* One call less is being created: it failed, or its object is known.      *)
LEMMA OneLess ==
    ASSUME IInv, NEW t \in Threads, Others(t), recvLock' = recvLock,
           pc[t] = "leave", ~(Creating(t))', depth' = depth - 1
    PROVE  DepthInv'
<1>1. DepthInv /\ Creating(t)
  BY LeavingPlace DEF IInv
<1>2. \A u \in Threads \ {t} : (Creating(u))' <=> Creating(u)
  BY DEF Creating, InSetup, Others, Kept
<1>3. Creators' = Creators \ {t} /\ t \in Creators
  BY <1>1, <1>2 DEF Creators
<1> QED
  BY <1>1, <1>3, FS_RemoveElement DEF DepthInv

(* call() returns to its caller.                                           *)
LEMMA IdleKeeps ==
    ASSUME IInv, NEW t \in Threads, pc[t] \in {"leave", "replay"}, Others(t),
           pc'[t] = "idle", dial'[t] = None, cur'[t] = None,
           routine'[t] = "none",
           UNCHANGED <<calls, ended, tag, port, freed, tried, busy, recvLock>>,
           \A c \in Calls : (state'[c] = "NONE") <=> (state[c] = "NONE"),
           depth' = IF pc[t] = "leave" THEN depth - 1 ELSE depth
    PROVE  Inductive'
<1>0. /\ TypeOK /\ DepthInv /\ RegistryInv /\ DialInv(t)
  BY DEF IInv
<1>1. \A u \in Threads \ {t} : FrameInv(u)' /\ LockInv(u)' /\ DialInv(u)'
  BY OthersKeep
<1>2. /\ pc'[t] \notin CallLabels \cup HandlerLabels
      /\ pc'[t] \notin ObjectLabels
  BY DEF ObjectLabels, HandlerLabels, CallLabels, SetupLabels
<1>3. FrameInv(t)' /\ LockInv(t)' /\ DialInv(t)'
  BY <1>2, LeavingPlace DEF FrameInv, LockInv, DialInv, CallLabels
<1>4. ~(Creating(t))' /\ ~(Answering(t))'
  BY <1>2 DEF Creating, Answering, AnswerLabels
<1>5. DepthInv'
  <2>1. CASE pc[t] = "leave"
    BY <1>4, <2>1, OneLess
  <2>2. CASE pc[t] = "replay"
    <3>1. \A u \in Threads \ {t} : (Creating(u))' <=> Creating(u)
      BY DEF Creating, InSetup, Others, Kept
    <3>2. Creators' = Creators
      BY <1>4, <2>2, <3>1, LeavingPlace DEF Creators
    <3> QED
      BY <1>0, <2>2, <3>2 DEF DepthInv
  <2> QED
    BY <2>1, <2>2
<1>6. AnswerInv'
  <2>1. \A u \in Threads \ {t} :
            (Answering(u))' => Answering(u) /\ cur'[u] = cur[u]
    BY DEF Answering, Others, Kept
  <2> QED
    BY <1>4, <2>1, AnswerKept
<1>7. RegistryInv'
  <2>1. FailedCallLeavesNothing'
    <3> SUFFICES ASSUME NEW c \in tried, state'[c] = "NONE", ~(Placing(c))'
                 PROVE  Holds(c)' = None /\ c \notin tag'
      BY DEF FailedCallLeavesNothing
    <3>1. c \in Calls /\ state[c] = "NONE"
      BY <1>0 DEF TypeOK
    <3>2. CASE c = dial[t]
      BY <3>1, <3>2, LeavingPlace DEF Holds
    <3>3. CASE c # dial[t]
      <4>1. ~Placing(c)
        BY <3>3 DEF Placing, Others, Kept
      <4> QED
        BY <1>0, <3>1, <4>1 DEF RegistryInv, FailedCallLeavesNothing, Holds
    <3> QED
      BY <3>2, <3>3
  <2>2. calls \subseteq Calls
    BY <1>0 DEF TypeOK
  <2> QED
    BY <1>0, <2>1, <2>2 DEF RegistryInv, LateAnswerRecognised
<1> QED
  BY <1>1, <1>3, <1>5, <1>6, <1>7 DEF Inductive, AllThreads

(* call() applies the response that was queued for it.                     *)
LEMMA ReplayInductive ==
    ASSUME IInv, NEW t \in Threads, Replay(t)
    PROVE  Inductive'
<1>0. TypeOK /\ LockInv(t)
  BY DEF IInv
<1>1. /\ pc[t] = "replay"
      /\ UNCHANGED <<calls, ended, tag, port, freed, busy, depth>>
  BY DEF Replay, registryVars, portVars
<1>2. CASE /\ Ring(dial[t]) \/ UNCHANGED state
           /\ Done(t, TRUE)
  <2>1. \A c \in Calls : (state'[c] = "NONE") <=> (state[c] = "NONE")
    BY <1>1, <1>2, LeavingPlace, RingKeeps
  <2>2. /\ Others(t) /\ cur'[t] = None /\ routine'[t] = "none" /\ tried' = tried
        /\ pc'[t] = "idle" /\ dial'[t] = None /\ recvLock' = recvLock
    BY <1>0, <1>1, <1>2, DoneFacts, LeavingPlace DEF Others, InTransaction
  <2> QED
    BY <1>1, <2>1, <2>2, IdleKeeps
<1>3. CASE \E r \in {"accepted", "failed"}, l \in {"find", "stale"} :
               Enter(t, r, l, dial[t], pending[dial[t]].seq) /\ Stay
               /\ UNCHANGED state
  <2>1. PICK r \in {"accepted", "failed"}, l \in {"find", "stale"} :
            Enter(t, r, l, dial[t], pending[dial[t]].seq) /\ Stay
            /\ UNCHANGED state
    BY <1>3
  <2>2. Unbuilt /\ UNCHANGED dial /\ recvLock' = recvLock
    BY <1>1, <2>1 DEF Unbuilt, Stay, appVars
  <2>3. Others(t) /\ pc'[t] = l /\ routine'[t] = r /\ cur'[t] = dial[t]
    BY <1>0, <2>1, <2>2, EnterStarts
  <2>4. /\ pc'[t] \notin ObjectLabels
        /\ pc'[t] \in HandlerLabels \ (AnswerLabels \cup {"release", "remove"})
    BY <2>3 DEF ObjectLabels, HandlerLabels, CallLabels, SetupLabels, Labels,
       AnswerLabels
  <2> QED
    BY <1>1, <2>1, <2>2, <2>3, <2>4, LeavingPlace, StartKeeps
<1> QED
  BY <1>2, <1>3 DEF Replay

(* call() leaves the section _outbound_call_creation_depth counts.         *)
LEMMA LeaveCreationInductive ==
    ASSUME IInv, NEW t \in Threads, LeaveCreation(t)
    PROVE  Inductive'
<1>0. TypeOK /\ RegistryInv /\ DialInv(t)
  BY DEF IInv
<1>1. /\ pc[t] = "leave" /\ depth' = depth - 1
      /\ UNCHANGED <<state, busy, calls, ended, tag, port, freed, routine, cur,
                     recvLock, tried>>
  BY DEF LeaveCreation, lifeVars, registryVars, portVars, frameVars
<1>2. CASE state[dial[t]] = "NONE"
  <2>1. pc' = [pc EXCEPT ![t] = "idle"] /\ dial' = [dial EXCEPT ![t] = None]
    BY <1>2 DEF LeaveCreation, Go
  <2>2. Others(t) /\ pc'[t] = "idle" /\ dial'[t] = None
    BY <1>0, <1>1, <2>1 DEF TypeOK, Others, Kept
  <2> QED
    BY <1>1, <2>2, IdleKeeps, LeavingPlace
<1>3. CASE state[dial[t]] # "NONE"
  <2>1. pc' = [pc EXCEPT ![t] = "replay"] /\ dial' = dial
    BY <1>3 DEF LeaveCreation, Go
  <2>2. Others(t) /\ pc'[t] = "replay"
    BY <1>0, <1>1, <2>1 DEF TypeOK, Others, Kept
  <2>3. \A u \in Threads \ {t} : FrameInv(u)' /\ LockInv(u)' /\ DialInv(u)'
    BY <1>1, <2>1, <2>2, OthersKeep
  <2>4. /\ pc'[t] \notin HandlerLabels \cup SetupLabels
        /\ pc'[t] \notin ObjectLabels
    BY <2>2 DEF ObjectLabels, HandlerLabels, CallLabels, SetupLabels
  <2>5. FrameInv(t)' /\ LockInv(t)'
    BY <1>1, <2>2, <2>4, LeavingPlace DEF FrameInv, LockInv
  <2>6. ~InSetup(t)' /\ ~(Answering(t))'
    BY <1>1, <2>2, <2>4, LeavingPlace DEF InSetup, Answering, AnswerLabels
  <2>7. DialInv(t)'
    BY <1>0, <1>1, <1>3, <2>1, <2>2, <2>6, LeavingPlace DEF DialInv
  <2>8. DepthInv'
    BY <1>1, <2>2, <2>6, OneLess DEF Creating
  <2>9. AnswerInv'
    <3>1. \A u \in Threads \ {t} :
              (Answering(u))' => Answering(u) /\ cur'[u] = cur[u]
      BY <2>2 DEF Answering, Others, Kept
    <3> QED
      BY <1>1, <2>6, <3>1, AnswerKept
  <2>10. RegistryInv'
    BY <1>1, <2>1, RegistryKept DEF Placing
  <2> QED
    BY <2>3, <2>5, <2>7, <2>8, <2>9, <2>10 DEF Inductive, AllThreads
<1> QED
  BY <1>2, <1>3

(* _set_call registers the object of the call.                             *)
LEMMA CreateInductive ==
    ASSUME IInv, NEW t \in Threads, Create(t)
    PROVE  Inductive'
<1>0. /\ TypeOK /\ RegistryInv /\ DialInv(t) /\ LockInv(t) /\ DepthInv
  BY DEF IInv
<1>1. /\ pc[t] = "create" /\ pc' = [pc EXCEPT ![t] = "leave"]
      /\ state' = [state EXCEPT ![dial[t]] = "DIALING"]
      /\ calls' = calls \cup {dial[t]}
      /\ UNCHANGED <<busy, ended, tag, port, freed, routine, cur, recvLock,
                     tried, dial, depth>>
  BY DEF Create, Go, setupVars, frameVars, appVars
<1>2. /\ pc[t] \notin HandlerLabels /\ pc[t] \in SetupLabels
      /\ pc[t] \in CallLabels
  BY <1>1 DEF HandlerLabels, CallLabels, SetupLabels
<1>3. /\ cur[t] = None /\ routine[t] = "none" /\ InSetup(t)
  BY <1>2, OutsideHandlers
<1>4. /\ dial[t] \in Calls /\ dial[t] # None /\ t # Recv /\ recvLock # t
      /\ dial[t] \in tried
  BY <1>0, <1>1, <1>2 DEF DialInv, LockInv, TypeOK
<1>5. Others(t) /\ pc'[t] = "leave"
  BY <1>0, <1>1 DEF TypeOK, Others, Kept
<1>6. /\ state'[dial[t]] = "DIALING"
      /\ \A c \in Calls : c # dial[t] => state'[c] = state[c]
  BY <1>0, <1>1, <1>4 DEF TypeOK
<1>7. \A u \in Threads \ {t} : FrameInv(u)' /\ LockInv(u)' /\ DialInv(u)'
  BY <1>1, <1>5, <1>6, OthersKeep
<1>8. /\ pc'[t] \notin HandlerLabels \cup SetupLabels
      /\ pc'[t] \notin ObjectLabels
  BY <1>5 DEF ObjectLabels, HandlerLabels, CallLabels, SetupLabels
<1>9. FrameInv(t)' /\ LockInv(t)'
  BY <1>1, <1>3, <1>4, <1>5, <1>8 DEF FrameInv, LockInv
<1>10. ~InSetup(t)' /\ ~(Answering(t))'
  BY <1>1, <1>3, <1>5, <1>8 DEF InSetup, Answering, AnswerLabels
<1>11. DialInv(t)'
  <2>1. \A u \in Threads : dial[u] = dial[t] => u = t
    BY <1>0, <1>4 DEF DialInv
  <2> QED
    BY <1>1, <1>4, <1>5, <1>6, <1>10, <2>1 DEF DialInv
<1>12. DepthInv'
  <2>1. \A u \in Threads \ {t} : (Creating(u))' <=> Creating(u)
    BY <1>1, <1>5 DEF Creating, InSetup, Others, Kept
  <2>2. Creating(t) /\ (Creating(t))'
    BY <1>1, <1>3, <1>4, <1>5 DEF Creating
  <2>3. Creators' = Creators
    BY <2>1, <2>2 DEF Creators
  <2> QED
    BY <1>0, <1>1, <2>3 DEF DepthInv
<1>13. AnswerInv'
  <2>1. \A u \in Threads \ {t} :
            (Answering(u))' => Answering(u) /\ cur'[u] = cur[u]
    BY <1>5 DEF Answering, Others, Kept
  <2> QED
    BY <1>1, <1>10, <2>1, AnswerKept
<1>14. RegistryInv'
  <2>1. FailedCallLeavesNothing'
    BY <1>0, <1>1, <1>6
    DEF RegistryInv, FailedCallLeavesNothing, Holds, Placing, TypeOK
  <2>2. LateAnswerRecognised'
    BY <1>0, <1>1, <1>6 DEF RegistryInv, LateAnswerRecognised
  <2>3. calls \subseteq Calls
    BY <1>0 DEF TypeOK
  <2> QED
    BY <1>0, <1>1, <1>4, <1>6, <2>1, <2>2, <2>3 DEF RegistryInv
<1> QED
  BY <1>7, <1>9, <1>11, <1>12, <1>13, <1>14 DEF Inductive, AllThreads

(* call() takes a Call-ID nobody has used.                                 *)
LEMMA DialInductive ==
    ASSUME IInv, NEW t \in Threads, NEW c \in Calls, Dial(t, c)
    PROVE  Inductive'
<1>0. /\ TypeOK /\ RegistryInv /\ DialInv(t) /\ LockInv(t) /\ DepthInv
  BY DEF IInv
<1>1. /\ t \in Apps /\ pc[t] = "idle" /\ c \notin tried
      /\ pc' = [pc EXCEPT ![t] = "port"] /\ dial' = [dial EXCEPT ![t] = c]
      /\ tried' = tried \cup {c} /\ depth' = depth + 1
      /\ UNCHANGED <<state, busy, calls, ended, tag, port, freed, routine, cur,
                     recvLock>>
  BY DEF Dial, Go, lifeVars, registryVars, portVars, frameVars
<1>2. /\ pc[t] \notin HandlerLabels /\ pc[t] \notin SetupLabels
  BY <1>1 DEF HandlerLabels, CallLabels, SetupLabels
<1>3. /\ cur[t] = None /\ routine[t] = "none"
      /\ c # None /\ t # Recv /\ recvLock # t /\ dial[t] = None
  BY <1>0, <1>1, <1>2, OutsideHandlers, ConstantsAssumption DEF DialInv, LockInv
<1>4. Others(t) /\ pc'[t] = "port" /\ dial'[t] = c
  BY <1>0, <1>1 DEF TypeOK, Others, Kept
<1>5. \A u \in Threads \ {t} : FrameInv(u)' /\ LockInv(u)' /\ DialInv(u)'
  BY <1>1, <1>4, OthersKeep
<1>6. /\ pc'[t] \notin HandlerLabels /\ pc'[t] \in SetupLabels
      /\ pc'[t] \notin ObjectLabels
  BY <1>4 DEF ObjectLabels, HandlerLabels, CallLabels, SetupLabels
<1>7. FrameInv(t)' /\ LockInv(t)'
  BY <1>1, <1>3, <1>4, <1>6 DEF FrameInv, LockInv
<1>8. InSetup(t)' /\ ~(Answering(t))'
  BY <1>1, <1>3, <1>4, <1>6 DEF InSetup, Answering, AnswerLabels
<1>9. state[c] = "NONE"
  BY <1>0, <1>1 DEF RegistryInv
<1>10. DialInv(t)'
  <2>1. \A u \in Threads \ {t} : dial'[u] # c
    <3> SUFFICES ASSUME NEW u \in Threads \ {t} PROVE dial[u] # c
      BY <1>4 DEF Others, Kept
    <3>1. DialInv(u)
      BY DEF IInv
    <3> QED
      BY <1>1, <1>3, <3>1 DEF DialInv
  <2> QED
    BY <1>1, <1>3, <1>4, <1>8, <1>9, <2>1 DEF DialInv
<1>11. DepthInv'
  <2>1. \A u \in Threads \ {t} : (Creating(u))' <=> Creating(u)
    BY <1>1, <1>4 DEF Creating, InSetup, Others, Kept
  <2>2. ~Creating(t) /\ (Creating(t))'
    BY <1>3, <1>4, <1>8 DEF Creating
  <2>3. Creators' = Creators \cup {t} /\ t \notin Creators
    BY <2>1, <2>2 DEF Creators
  <2> QED
    BY <1>0, <1>1, <2>3, FS_AddElement DEF DepthInv
<1>12. AnswerInv'
  <2>1. \A u \in Threads \ {t} :
            (Answering(u))' => Answering(u) /\ cur'[u] = cur[u]
    BY <1>4 DEF Answering, Others, Kept
  <2> QED
    BY <1>1, <1>8, <2>1, AnswerKept
<1>13. RegistryInv'
  <2>1. FailedCallLeavesNothing'
    <3> SUFFICES ASSUME NEW d \in tried', state[d] = "NONE", ~(Placing(d))'
                 PROVE  Holds(d)' = None /\ d \notin tag'
      BY <1>1 DEF FailedCallLeavesNothing
    <3>1. d # c /\ d \in tried /\ d # None
      BY <1>0, <1>1, <1>4, ConstantsAssumption DEF Placing, TypeOK
    <3>2. ~Placing(d)
      BY <1>3, <1>4, <3>1 DEF Placing, Others, Kept
    <3> QED
      BY <1>0, <1>1, <3>1, <3>2 DEF RegistryInv, FailedCallLeavesNothing, Holds
  <2> QED
    BY <1>0, <1>1, <2>1 DEF RegistryInv, LateAnswerRecognised
<1> QED
  BY <1>5, <1>7, <1>10, <1>11, <1>12, <1>13 DEF Inductive, AllThreads

(* A forgotten object is deleted.                                          *)
LEMMA CollectInductive ==
    ASSUME IInv, NEW c \in Calls, Collect(c)
    PROVE  Inductive'
<1>1. Unbuilt /\ UNCHANGED <<pc, routine, cur, recvLock>>
  BY DEF Collect, Unbuilt, lifeVars, registryVars, setupVars, frameVars
<1> QED
  BY <1>1, StillKeeps

----------------------------------------------------------------------------
(* The invariant *)

(* What applications do, and deletion, keep the types.                     *)
LEMMA AppTypes ==
    ASSUME IInv, NEW t \in Threads, NEW c \in Calls,
           Dial(t, c) \/ Cancel(t, c) \/ Hangup(t, c) \/ Collect(c)
    PROVE  /\ LifeType' /\ PortType' /\ RegistryType' /\ PeerType'
           /\ ThreadType'
<1>0. TypeOK /\ t \in Threads
  BY DEF IInv
<1> USE DEF LifeType, PortType, RegistryType, PeerType, ThreadType, lifeVars,
            mediaVars, portVars, registryVars, setupVars, peerVars, dialogVars,
            frameVars, appVars
<1>1. CASE Dial(t, c)
  <2>1. "port" \in Labels
    BY DEF Labels
  <2> QED
    BY <1>0, <1>1, <2>1, GoFacts DEF Dial, TypeOK
<1>2. CASE Cancel(t, c) \/ Hangup(t, c)
  <2>1. /\ {"cancel", "hangup"} \subseteq Routines /\ "media" \in Labels
        /\ 0 \in 0..(MaxRetries + 1)
    BY ConstantsAssumption DEF Routines, Labels
  <2>2. PICK r \in {"cancel", "hangup"} : Enter(t, r, "media", c, 0)
    BY <1>2 DEF Cancel, Hangup
  <2>3. /\ pc' \in [Threads -> Labels] /\ routine' \in [Threads -> Routines]
        /\ cur' \in [Threads -> Calls \cup {None}]
        /\ seq' \in [Threads -> 0..(MaxRetries + 1)]
    BY <1>0, <2>1, <2>2, EnterFacts
  <2>4. state' = state \/ state' = [state EXCEPT ![c] = "ENDED"]
    BY <1>2 DEF Cancel, Hangup
  <2>5. /\ UNCHANGED <<busy, finalized, mediaVars, portVars, registryVars,
                       setupVars, peerVars, dialogVars, msgs>>
        /\ UNCHANGED <<recvLock, appVars>>
    BY <1>2 DEF Cancel, Hangup, Stay
  <2> QED
    BY <1>0, <2>3, <2>4, <2>5 DEF TypeOK
<1>3. CASE Collect(c)
  BY <1>0, <1>3 DEF Collect, TypeOK
<1> QED
  BY <1>1, <1>2, <1>3

(* Every step that is not a handler's keeps what is inductive.             *)
LEMMA CallStep ==
    ASSUME IInv, NEW t \in Threads, Calling(t) \/ Hearing(t)
    PROVE  Inductive' /\ ChallengesMatchRetries'
<1>1. CASE SetupStep(t)
  BY <1>1, SetupInductive, SetupChallenges
<1>2. CASE Reclaim(t)
  <2>1. UNCHANGED <<sent, answer>>
    BY <1>2 DEF Reclaim, peerVars
  <2> QED
    BY <1>2, <2>1, ReclaimInductive, ChallengesKept
<1>3. CASE Create(t)
  <2>1. UNCHANGED <<sent, answer>>
    BY <1>3 DEF Create, peerVars
  <2> QED
    BY <1>3, <2>1, CreateInductive, ChallengesKept
<1>4. CASE LeaveCreation(t)
  <2>1. UNCHANGED <<sent, answer>>
    BY <1>4 DEF LeaveCreation, peerVars
  <2> QED
    BY <1>4, <2>1, LeaveCreationInductive, ChallengesKept
<1>5. CASE Replay(t)
  <2>1. UNCHANGED <<sent, answer>>
    BY <1>5 DEF Replay, peerVars
  <2> QED
    BY <1>5, <2>1, ReplayInductive, ChallengesKept
<1>6. CASE Read(t)
  <2>1. UNCHANGED sent /\ \E c \in Calls : \E n, k : Arrives(c, n, k)
    BY <1>6 DEF Read
  <2> QED
    BY <1>6, <2>1, ReadInductive, ChallengesKept
<1>7. CASE ReadBye(t)
  <2>1. UNCHANGED <<sent, answer>>
    BY <1>7 DEF ReadBye, peerVars
  <2> QED
    BY <1>7, <2>1, ReadByeInductive, ChallengesKept
<1> QED
  BY <1>1, <1>2, <1>3, <1>4, <1>5, <1>6, <1>7 DEF Calling, Hearing, SetupStep

(* The types follow from their parts, and the depth is a cardinality.      *)
LEMMA InductiveIsInvariant ==
    ASSUME Inductive', ChallengesMatchRetries', LifeType', PortType',
           RegistryType', PeerType', ThreadType'
    PROVE  IInv'
<1>1. DepthInv'
  BY DEF Inductive
<1>2. depth' \in Nat
  BY <1>1, FS_CardinalityType DEF DepthInv
<1>3. TypeOK'
  BY <1>2 DEF TypeOK, LifeType, PortType, RegistryType, PeerType, ThreadType
<1> QED
  BY <1>3 DEF IInv, Inductive, AllThreads

(* IInv holds at the start,                                                *)
LEMMA InitInvariant == Init => IInv
<1> SUFFICES ASSUME Init PROVE IInv
  OBVIOUS
<1>1. TypeOK
  BY ConstantsAssumption
  DEF Init, TypeOK, Responses, Nothing, Labels, Routines, Attempts
<1>2. \A t \in Threads : pc[t] = "idle" /\ cur[t] = None /\ dial[t] = None
                         /\ routine[t] = "none" /\ recvLock # t
  BY ConstantsAssumption DEF Init, Threads
<1>3. \A t \in Threads : FrameInv(t) /\ LockInv(t) /\ DialInv(t)
  BY <1>2
  DEF FrameInv, LockInv, DialInv, ObjectLabels, HandlerLabels, CallLabels,
      SetupLabels
<1>4. DepthInv
  <2>1. Creators = {}
    BY <1>2 DEF Creators, Creating
  <2> QED
    BY <2>1, FS_EmptySet DEF DepthInv, Init
<1>5. AnswerInv
  BY <1>2 DEF AnswerInv, Answering, AnswerLabels
<1>6. RegistryInv
  BY DEF Init, RegistryInv, LateAnswerRecognised, FailedCallLeavesNothing
<1>7. ChallengesMatchRetries
  BY DEF Init, ChallengesMatchRetries
<1> QED
  BY <1>1, <1>3, <1>4, <1>5, <1>6, <1>7 DEF IInv

(* and every step keeps it.                                                *)
LEMMA NextInvariant == IInv /\ [Next]_vars => IInv'
<1> SUFFICES ASSUME IInv, [Next]_vars PROVE IInv'
  OBVIOUS
<1>1. ASSUME NEW t \in Threads, Step(t) \/ Hearing(t)
      PROVE  IInv'
  <2>1. CASE Handling(t) \/ Ending(t)
    BY <2>1, HandlerStep
  <2>2. CASE Calling(t) \/ Hearing(t)
    BY <1>1, <2>2, CallStep, InductiveIsInvariant, LifeTypeStep, PortTypeStep,
       RegistryTypeStep, PeerTypeStep, ThreadTypeStep
  <2> QED
    BY <1>1, <2>1, <2>2 DEF Step
<1>2. ASSUME NEW t \in Threads, NEW c \in Calls,
             Dial(t, c) \/ Cancel(t, c) \/ Hangup(t, c)
      PROVE  IInv'
  <2>1. UNCHANGED <<sent, answer>>
    BY <1>2 DEF Dial, Cancel, Hangup, peerVars
  <2>2. Inductive'
    BY <1>2, DialInductive, AppInductive
  <2> QED
    BY <1>2, <2>1, <2>2, AppTypes, ChallengesKept, InductiveIsInvariant
<1>3. ASSUME NEW c \in Calls, Collect(c)
      PROVE  IInv'
  <2>1. UNCHANGED <<sent, answer>>
    BY <1>3 DEF Collect, peerVars
  <2>2. Recv \in Threads
    BY DEF Threads
  <2> QED
    BY <1>3, <2>1, <2>2, CollectInductive, AppTypes, ChallengesKept,
       InductiveIsInvariant
<1>4. CASE UNCHANGED vars
  <2> USE DEF vars, lifeVars, mediaVars, portVars, registryVars, setupVars,
              peerVars, dialogVars, frameVars, appVars
  <2>1. Unbuilt /\ UNCHANGED <<pc, routine, cur, recvLock>>
    BY <1>4 DEF Unbuilt
  <2>2. Inductive'
    BY <2>1, StillKeeps
  <2>3. UNCHANGED <<sent, answer>>
    BY <1>4
  <2>4. TypeOK'
    <3>1. TypeOK
      BY DEF IInv
    <3> QED
      BY <1>4, <3>1 DEF TypeOK
  <2> QED
    BY <2>2, <2>3, <2>4, ChallengesKept DEF IInv, Inductive, AllThreads
<1> QED
  BY <1>1, <1>2, <1>3, <1>4 DEF Next

(* IInv always holds.                                                      *)
THEOREM Invariance == Spec => []IInv
  BY InitInvariant, NextInvariant, PTL DEF Spec

(* Every variable of an outgoing call has its type, in particular          *)
(* _outbound_call_creation_depth never drops below zero.                   *)
THEOREM TypeCorrect == Spec => []TypeOK
<1>1. IInv => TypeOK
  BY DEF IInv
<1> QED
  BY <1>1, Invariance, PTL

(* Of two 2xx of one call only one sets up media: _answer_in_progress.     *)
THEOREM AnswerExclusion == Spec => []AnswerExclusive
<1>1. IInv => AnswerExclusive
  BY DEF IInv, AnswerInv, AnswerExclusive, Answering, AnswerLabels
<1> QED
  BY <1>1, Invariance, PTL

(* A late 2xx finds its call or the remembered INVITE of it.               *)
THEOREM LateAnswers == Spec => []LateAnswerRecognised
<1>1. IInv => LateAnswerRecognised
  BY DEF IInv, RegistryInv
<1> QED
  BY <1>1, Invariance, PTL

(* call() that fails leaves neither a port nor a dialog tag.               *)
THEOREM FailedCalls == Spec => []FailedCallLeavesNothing
<1>1. IInv => FailedCallLeavesNothing
  BY DEF IInv, RegistryInv
<1> QED
  BY <1>1, Invariance, PTL

(* invite() repeats an INVITE only for a challenge to the one sent last.   *)
THEOREM Challenges == Spec => []ChallengesMatchRetries
<1>1. IInv => ChallengesMatchRetries
  BY DEF IInv
<1> QED
  BY <1>1, Invariance, PTL

(* The receive lock is held by a thread that waits for the response to its *)
(* INVITE or handles a message: call() that returned holds it never.       *)
THEOREM LockReleased ==
    Spec => [](\A t \in Apps : dial[t] = None => recvLock # t)
<1>1. IInv => \A t \in Apps : dial[t] = None => recvLock # t
  BY ConstantsAssumption DEF IInv, LockInv, Threads
<1> QED
  BY <1>1, Invariance, PTL

(* _outbound_call_creation_depth is back at zero whenever nobody is inside *)
(* call(): a response is queued for an object that will be built.          *)
THEOREM DepthReturns ==
    Spec => []((\A t \in Threads : dial[t] = None) => depth = 0)
<1>1. IInv => ((\A t \in Threads : dial[t] = None) => depth = 0)
  <2> SUFFICES ASSUME IInv, \A t \in Threads : dial[t] = None
               PROVE  depth = 0
    OBVIOUS
  <2>1. Creators = {}
    BY DEF Creators, Creating
  <2> QED
    BY <2>1, FS_EmptySet DEF IInv, DepthInv
<1> QED
  BY <1>1, Invariance, PTL

----------------------------------------------------------------------------
(* Ended for good *)

\* The steps that write the state of a call.
Writes(t) == \/ Create(t) \/ Replay(t) \/ Read(t) \/ Commit(t) \/ SetEnded(t)
             \/ \E c \in Calls : Cancel(t, c)

(* None of them revives an ended call,                                     *)
LEMMA WritesEnded ==
    ASSUME IInv, NEW t \in Threads, Writes(t), NEW c \in Calls,
           state[c] = "ENDED"
    PROVE  state'[c] = "ENDED"
<1>0. TypeOK /\ FrameInv(t) /\ DialInv(t)
  BY DEF IInv
<1>1. CASE Create(t)
  <2>1. state[dial[t]] = "NONE" /\ state' = [state EXCEPT ![dial[t]] = "DIALING"]
    BY <1>0, <1>1 DEF Create, DialInv, InSetup, CallLabels, SetupLabels
  <2> QED
    BY <1>0, <2>1 DEF TypeOK
<1>2. CASE Replay(t) \/ Read(t)
  <2>1. UNCHANGED state \/ \E d : Ring(d)
    BY <1>2 DEF Replay, Read
  <2> QED
    BY <1>0, <2>1 DEF Ring, TypeOK
<1>3. CASE Commit(t)
  BY <1>0, <1>3 DEF Commit, TypeOK
<1>4. CASE SetEnded(t)
  BY <1>0, <1>4 DEF SetEnded, TypeOK
<1>5. CASE \E d \in Calls : Cancel(t, d)
  BY <1>0, <1>5 DEF Cancel, TypeOK
<1> QED
  BY <1>1, <1>2, <1>3, <1>4, <1>5 DEF Writes

(* and no other step writes the state.                                     *)
LEMMA OthersWriteNothing ==
    ASSUME NEW t \in Threads, Step(t) \/ Hearing(t), ~Writes(t)
    PROVE  UNCHANGED state
  BY DEF Step, Hearing, Calling, Handling, Ending, Writes, lifeVars, Reclaim,
     RequestPort, PrepareInvite, SendInvite, TimedOut, Abandon, GiveUp,
     LeaveCreation, Progress, Challenged, Final, Returns, ReadBye, Stale, Failed,
     Late, Queue, Enqueue, Find, Cached, Claim, Check, Start, SendAck, Unflag,
     StopMedia, SendBye, Finalize, Remember, Release, Remove, SendBoth

(* An ended call stays ended: neither a 18x nor the answer that was being  *)
(* set up while cancel() ran brings it back.                               *)
THEOREM EndedStays ==
    Spec => [][\A c \in Calls : state[c] = "ENDED" => state'[c] = "ENDED"]_vars
<1>1. IInv /\ [Next]_vars =>
          [\A c \in Calls : state[c] = "ENDED" => state'[c] = "ENDED"]_vars
  <2> SUFFICES ASSUME IInv, Next, NEW c \in Calls, state[c] = "ENDED"
               PROVE  state'[c] = "ENDED"
    OBVIOUS
  <2>1. CASE \E t \in Threads : Writes(t)
    BY <2>1, WritesEnded
  <2>2. CASE \A t \in Threads : ~Writes(t)
    <3>1. ASSUME NEW t \in Threads, Step(t) \/ Hearing(t)
          PROVE  state'[c] = "ENDED"
      BY <2>2, <3>1, OthersWriteNothing
    <3>2. ASSUME NEW t \in Threads, NEW d \in Calls,
                 Dial(t, d) \/ Cancel(t, d) \/ Hangup(t, d)
          PROVE  state'[c] = "ENDED"
      BY <2>2, <3>2 DEF Writes, Dial, Hangup, lifeVars
    <3>3. ASSUME NEW d \in Calls, Collect(d)
          PROVE  state'[c] = "ENDED"
      BY <3>3 DEF Collect, lifeVars
    <3> QED
      BY <3>1, <3>2, <3>3 DEF Next
  <2> QED
    BY <2>1, <2>2
<1> QED
  BY <1>1, Invariance, PTL DEF Spec
----------------------------------------------------------------------------
(* Ports *)

\* Steps that take no port, give none back and finalize no call.
PortsStay == UNCHANGED <<port, freed, pool, finalized, calls, tried>>

(* Such a step keeps PortInv if its thread does not come to a release and  *)
(* neither gets a port inside call() nor loses it.                         *)
LEMMA QuietKeeps ==
    ASSUME IInv, PortInv, NEW t \in Threads, Others(t), PortsStay,
           \A u \in Threads \ {t} : (recvLock' = u) <=> (recvLock = u),
           \A c \in Calls : (state'[c] = "NONE") <=> (state[c] = "NONE"),
           (Releasing(t))' => Releasing(t) /\ cur'[t] = cur[t],
           pc'[t] # "remove",
           dial'[t] # None /\ (InSetup(t))' =>
               /\ dial'[t] = dial[t] /\ InSetup(t)
               /\ (Portless(t))' <=> Portless(t)
    PROVE  PortInv'
<1>1. HeldPortsReserved'
  BY DEF PortInv, HeldPortsReserved, Holds, PortsStay
<1>2. ASSUME NEW c \in Calls PROVE UntriedPort(c)' /\ ObjectPort(c)'
  BY DEF PortInv, UntriedPort, ObjectPort, PortsStay
<1>3. SetupPort(t)'
  BY DEF PortInv, SetupPort, PortsStay
<1>4. ASSUME NEW u \in Threads \ {t} PROVE SetupPort(u)'
  <2>1. SetupPort(u) /\ Kept(u)
    BY DEF PortInv, Others
  <2>2. InSetup(u)' <=> InSetup(u)
    BY <2>1 DEF InSetup, Kept
  <2>3. Portless(u)' <=> Portless(u)
    BY <2>1 DEF Portless, Kept
  <2> QED
    BY <2>1, <2>2, <2>3 DEF SetupPort, Kept, PortsStay
<1>5. ReleaseInv'
  <2>1. \A u \in Threads : (Releasing(u))' => Releasing(u) /\ cur'[u] = cur[u]
    BY DEF Others, Kept, Releasing
  <2>2. \A u \in Threads : pc'[u] = "remove" =>
            pc[u] = "remove" /\ cur'[u] = cur[u]
    BY DEF Others, Kept
  <2>3. ReleaseInv
    BY DEF PortInv
  <2>4. finalized' = finalized /\ freed' = freed
    BY DEF PortsStay
  <2>5. \A u \in Threads : (Releasing(u))' =>
            finalized'[cur'[u]] /\ cur'[u] \notin freed'
    BY <2>1, <2>3, <2>4 DEF ReleaseInv
  <2>6. \A u, w \in Threads :
            (Releasing(u))' /\ (Releasing(w))' /\ cur'[u] = cur'[w] => u = w
    BY <2>1, <2>3 DEF ReleaseInv
  <2>7. \A u \in Threads : pc'[u] = "remove" => cur'[u] \in freed'
    BY <2>2, <2>3, <2>4 DEF ReleaseInv
  <2> QED
    BY <2>5, <2>6, <2>7 DEF ReleaseInv
<1> QED
  BY <1>1, <1>2, <1>3, <1>4, <1>5 DEF PortInv

(* No thread moves.                                                        *)
LEMMA StillPorts ==
    ASSUME IInv, PortInv, UNCHANGED <<pc, routine, cur, dial, recvLock>>,
           PortsStay,
           \A c \in Calls : (state'[c] = "NONE") <=> (state[c] = "NONE")
    PROVE  PortInv'
<1>1. HeldPortsReserved'
  BY DEF PortInv, HeldPortsReserved, Holds, PortsStay
<1>2. ASSUME NEW c \in Calls PROVE UntriedPort(c)' /\ ObjectPort(c)'
  BY DEF PortInv, UntriedPort, ObjectPort, PortsStay
<1>3. ASSUME NEW u \in Threads PROVE SetupPort(u)'
  BY DEF PortInv, SetupPort, PortsStay, InSetup, Portless
<1>4. ReleaseInv'
  BY DEF PortInv, ReleaseInv, Releasing, PortsStay
<1> QED
  BY <1>1, <1>2, <1>3, <1>4 DEF PortInv

(* Who finalizes a call, gives back its port and takes it from the phone.  *)
Finishes(t) == Finalize(t) \/ Release(t) \/ Remove(t)

(* Nothing else in a handler touches ports, or comes to a release.         *)
LEMMA HandlerLeavesPorts ==
    ASSUME IInv, NEW t \in Threads, Handling(t) \/ Ending(t), ~Finishes(t)
    PROVE  /\ UNCHANGED <<finalized, freed, pool, calls>>
           /\ \/ Ends(t)
              \/ (Releasing(t))' => Releasing(t)
           /\ Ends(t) \/ pc'[t] # "remove"
<1> USE DEF lifeVars, portVars, registryVars, Releasing, Ends, Go, Enter,
            TypeOK
<1>0. TypeOK
  BY DEF IInv
<1>1. CASE Stale(t)
  BY <1>0, <1>1 DEF Stale
<1>2. CASE Failed(t)
  BY <1>0, <1>2 DEF Failed
<1>3. CASE Late(t)
  BY <1>0, <1>3 DEF Late, Returned
<1>4. CASE Queue(t)
  BY <1>0, <1>4 DEF Queue, Returned, AckAndReturn
<1>5. CASE Enqueue(t)
  BY <1>0, <1>5 DEF Enqueue, Returned, AckAndReturn
<1>6. CASE Find(t)
  BY <1>0, <1>6 DEF Find, AckAndReturn
<1>7. CASE Cached(t)
  BY <1>0, <1>7 DEF Cached
<1>8. CASE Claim(t)
  BY <1>0, <1>8 DEF Claim, AckAndReturn
<1>9. CASE Check(t)
  BY <1>0, <1>9 DEF Check
<1>10. CASE Start(t)
  BY <1>0, <1>10 DEF Start
<1>11. CASE Commit(t)
  BY <1>0, <1>11 DEF Commit
<1>12. CASE SendAck(t)
  BY <1>0, <1>12 DEF SendAck
<1>13. CASE Unflag(t)
  <2>1. (routine[t] # "raised") \in BOOLEAN
    OBVIOUS
  <2> QED
    BY <1>0, <1>13, <2>1 DEF Unflag
<1>14. CASE StopMedia(t)
  BY <1>0, <1>14 DEF StopMedia
<1>15. CASE SendBye(t)
  BY <1>0, <1>15 DEF SendBye
<1>16. CASE SetEnded(t)
  BY <1>0, <1>16 DEF SetEnded
<1>17. CASE Remember(t)
  BY <1>0, <1>17 DEF Remember
<1>18. CASE SendBoth(t)
  BY <1>0, <1>18 DEF SendBoth
<1> QED
  BY <1>1, <1>2, <1>3, <1>4, <1>5, <1>6, <1>7, <1>8, <1>9, <1>10, <1>11,
     <1>12, <1>13, <1>14, <1>15, <1>16, <1>17, <1>18
  DEF Handling, Ending, Finishes
(* A handler neither brings call() its port nor takes it away.             *)
LEMMA HandlerStaysPlaced ==
    ASSUME IInv, NEW t \in Threads, Handling(t) \/ Ending(t)
    PROVE  /\ Others(t)
           /\ \A u \in Threads \ {t} : (recvLock' = u) <=> (recvLock = u)
           /\ tried' = tried
           /\ dial'[t] # None /\ (InSetup(t))' =>
                  /\ dial'[t] = dial[t] /\ InSetup(t)
                  /\ (Portless(t))' <=> Portless(t)
<1>0. /\ TypeOK /\ FrameInv(t) /\ LockInv(t) /\ DialInv(t)
      /\ pc[t] \in HandlerLabels
  BY HandlerIsHandler DEF IInv
<1>1. CASE GoesOn(t)
  <2>1. /\ pc[t] \notin SetupLabels /\ pc'[t] \notin SetupLabels
        /\ pc[t] # "port" /\ pc'[t] # "port"
    BY <1>0, <1>1 DEF GoesOn, HandlerLabels, CallLabels, SetupLabels
  <2>2. dial' = dial /\ recvLock' = recvLock /\ tried' = tried
    BY <1>1 DEF GoesOn, appVars
  <2>3. InSetup(t)' <=> InSetup(t)
    BY <1>0, <1>1, <2>1, <2>2 DEF GoesOn, InSetup
  <2>4. Portless(t)' <=> Portless(t)
    BY <1>1, <2>1 DEF GoesOn, Portless
  <2> QED
    BY <1>1, <2>2, <2>3, <2>4 DEF GoesOn
<1>2. CASE Ends(t)
  <2>1. /\ Others(t) /\ tried' = tried /\ routine'[t] = "none"
        /\ pc'[t] = IF InTransaction(t) THEN "wait"
                    ELSE IF routine[t] = "reclaim" THEN "port" ELSE "idle"
        /\ dial'[t] = IF InTransaction(t) \/ routine[t] = "reclaim"
                      THEN dial[t] ELSE None
        /\ recvLock' = IF t = Recv THEN None ELSE recvLock
    BY <1>0, <1>2, DoneFacts DEF Ends, Others
  <2>2. pc[t] # "port"
    BY <1>0 DEF HandlerLabels, CallLabels, SetupLabels
  <2>3. \A u \in Threads \ {t} : (recvLock' = u) <=> (recvLock = u)
    BY <1>0, <2>1, ConstantsAssumption DEF LockInv, Threads
  <2>4. CASE InTransaction(t)
    <3>1. recvLock = t /\ routine[t] # "reclaim" /\ pc'[t] = "wait"
      BY <1>0, <2>1, <2>4 DEF InTransaction, LockInv
    <3> QED
      BY <1>0, <2>1, <2>2, <2>3, <2>4, <3>1 DEF InSetup, Portless
  <2>5. CASE ~InTransaction(t) /\ routine[t] = "reclaim"
    BY <1>0, <2>1, <2>3, <2>5 DEF InSetup, Portless
  <2>6. CASE ~InTransaction(t) /\ routine[t] # "reclaim"
    BY <2>1, <2>3, <2>6
  <2> QED
    BY <2>4, <2>5, <2>6
<1> QED
  BY <1>1, <1>2, HandlerControl

(* Most steps of a handler are quiet.                                      *)
LEMMA HandlerPorts ==
    ASSUME IInv, PortInv, NEW t \in Threads, Handling(t) \/ Ending(t),
           ~Finishes(t)
    PROVE  PortInv'
<1>0. TypeOK /\ LockInv(t) /\ pc[t] \in HandlerLabels
  BY HandlerIsHandler DEF IInv
<1>1. PortsStay
  BY HandlerLeavesPorts, HandlerSteady, HandlerStaysPlaced
  DEF PortsStay, Steady
<1>2. pc'[t] # "remove" /\ ((Releasing(t))' => Releasing(t) /\ cur'[t] = cur[t])
  <2>1. CASE Ends(t)
    <3>1. pc'[t] \in {"wait", "port", "idle"}
      BY <1>0, <2>1, DoneFacts DEF Ends
    <3> QED
      BY <3>1 DEF Releasing
  <2>2. CASE ~Ends(t)
    BY <2>2, HandlerControl, HandlerLeavesPorts DEF GoesOn
  <2> QED
    BY <2>1, <2>2
<1> QED
  BY <1>1, <1>2, HandlerSteady, HandlerStaysPlaced, QuietKeeps DEF Steady

(* What call() holds in its setup is not the port of an object.            *)
LEMMA SetupHasNoObject ==
    ASSUME IInv, NEW t \in Threads, pc[t] \in ObjectLabels,
           NEW u \in Threads, dial[u] # None, InSetup(u)
    PROVE  dial[u] # cur[t]
<1>1. DialInv(u) /\ FrameInv(t)
  BY DEF IInv
<1> QED
  BY <1>1 DEF DialInv, FrameInv

(* A handler keeps what is said of the ports inside call().                *)
LEMMA HandlerSetupPorts ==
    ASSUME IInv, PortInv, NEW t \in Threads, Handling(t) \/ Ending(t),
           freed' \subseteq freed \cup {cur[t]}, pc[t] \in ObjectLabels,
           NEW u \in Threads
    PROVE  SetupPort(u)'
<1>0. port' = port /\ Others(t) /\ SetupPort(u)
  BY HandlerSteady, HandlerStaysPlaced DEF Steady, PortInv
<1> SUFFICES ASSUME dial'[u] # None, InSetup(u)'
             PROVE  /\ dial'[u] \notin freed'
                    /\ port'[dial'[u]] = None <=> Portless(u)'
  BY DEF SetupPort
<1>1. dial'[u] = dial[u] /\ InSetup(u) /\ (Portless(u)' <=> Portless(u))
  <2>1. CASE u = t
    BY <2>1, HandlerStaysPlaced
  <2>2. CASE u # t
    <3>1. Kept(u) /\ ((recvLock' = u) <=> (recvLock = u))
      BY <1>0, <2>2, HandlerStaysPlaced DEF Others
    <3> QED
      BY <3>1 DEF Kept, InSetup, Portless
  <2> QED
    BY <2>1, <2>2
<1>2. dial[u] # cur[t]
  BY <1>1, SetupHasNoObject
<1> QED
  BY <1>0, <1>1, <1>2 DEF SetupPort

(* _finalize_ended_call lets one thread through.                           *)
LEMMA FinalizePorts ==
    ASSUME IInv, PortInv, NEW t \in Threads, Finalize(t)
    PROVE  PortInv'
<1>0. /\ TypeOK /\ FrameInv(t) /\ pc[t] = "fin" /\ Ending(t)
      /\ UNCHANGED <<state, port, freed, pool, calls>>
      /\ finalized' = [finalized EXCEPT ![cur[t]] = TRUE]
  BY DEF IInv, Finalize, Ending, portVars, registryVars
<1>1. pc[t] \in ObjectLabels /\ pc[t] \in HandlerLabels
  BY <1>0 DEF ObjectLabels, HandlerLabels, CallLabels, SetupLabels, Labels
<1>2. cur[t] \in Calls /\ state[cur[t]] # "NONE"
  BY <1>0, <1>1 DEF FrameInv
<1>3. \A c \in Calls : finalized[c] => finalized'[c]
  BY <1>0 DEF TypeOK
<1>4. HeldPortsReserved'
  BY <1>0 DEF PortInv, HeldPortsReserved, Holds
<1>5. ASSUME NEW c \in Calls PROVE UntriedPort(c)' /\ ObjectPort(c)'
  <2>1. tried' = tried
    BY <1>0, HandlerStaysPlaced
  <2> QED
    BY <1>0, <1>3, <2>1 DEF PortInv, UntriedPort, ObjectPort
<1>6. \A u \in Threads : SetupPort(u)'
  BY <1>0, <1>1, HandlerSetupPorts
<1>7. ReleaseInv /\ Others(t)
  BY <1>0, HandlerStaysPlaced DEF PortInv
<1>8. CASE finalized[cur[t]]
  <2>1. finalized' = finalized
    BY <1>0, <1>2, <1>8 DEF TypeOK
  <2>2. pc'[t] \notin {"remember", "release", "remove"}
    <3>1. Finalized(t)
      BY <1>8 DEF Finalize
    <3>2. CASE Go(t, "sendboth")
      BY <1>0, <3>2 DEF Go, TypeOK
    <3>3. CASE Returned(t)
      <4>1. Ends(t) /\ LockInv(t)
        BY <3>3, ReturnEnds DEF IInv
      <4> QED
        BY <1>0, <4>1, DoneFacts DEF Ends
    <3> QED
      BY <3>1, <3>2, <3>3 DEF Finalized
  <2>3. \A u \in Threads : pc'[u] \in {"remember", "release", "remove"} =>
            u # t /\ pc'[u] = pc[u] /\ cur'[u] = cur[u]
    BY <1>7, <2>2 DEF Others, Kept
  <2>4. ReleaseInv'
    BY <1>0, <1>7, <2>1, <2>3 DEF ReleaseInv, Releasing
  <2> QED
    BY <1>4, <1>5, <1>6, <2>4 DEF PortInv
<1>9. CASE ~finalized[cur[t]]
  <2>1. pc' = [pc EXCEPT ![t] = "remember"] /\ cur' = cur
    BY <1>9 DEF Finalize, Go, frameVars
  <2>2. cur[t] \notin freed
    BY <1>2, <1>9 DEF PortInv, ObjectPort
  <2>3. finalized'[cur[t]]
    BY <1>0, <1>2 DEF TypeOK
  <2>4. \A u \in Threads \ {t} : pc'[u] = pc[u]
    BY <1>0, <2>1 DEF TypeOK
  <2>5. pc'[t] = "remember"
    BY <1>0, <2>1 DEF TypeOK
  <2>6. \A u \in Threads : Releasing(u) => cur[u] # cur[t] /\ finalized'[cur[u]]
    <3> SUFFICES ASSUME NEW u \in Threads, Releasing(u)
                 PROVE  cur[u] # cur[t] /\ finalized'[cur[u]]
      OBVIOUS
    <3>1. finalized[cur[u]] /\ cur[u] # cur[t]
      BY <1>7, <1>9 DEF ReleaseInv
    <3>2. cur[u] \in Calls
      <4>1. FrameInv(u)
        BY DEF IInv
      <4> QED
        BY <4>1 DEF FrameInv, Releasing, HandlerLabels, CallLabels, SetupLabels,
           Labels
    <3>3. finalized'[cur[u]] = finalized[cur[u]]
      BY <1>0, <3>1, <3>2 DEF TypeOK
    <3> QED
      BY <3>1, <3>3
  <2>7. \A u \in Threads : (Releasing(u))' =>
            finalized'[cur'[u]] /\ cur'[u] \notin freed'
    BY <1>0, <1>7, <2>1, <2>2, <2>3, <2>4, <2>6 DEF ReleaseInv, Releasing
  <2>8. \A u, w \in Threads :
            (Releasing(u))' /\ (Releasing(w))' /\ cur'[u] = cur'[w] => u = w
    BY <1>7, <2>1, <2>4, <2>6 DEF ReleaseInv, Releasing
  <2>9. \A u \in Threads : pc'[u] = "remove" => cur'[u] \in freed'
    BY <1>0, <1>7, <2>1, <2>4, <2>5 DEF ReleaseInv
  <2>10. ReleaseInv'
    BY <2>7, <2>8, <2>9 DEF ReleaseInv
  <2> QED
    BY <1>4, <1>5, <1>6, <2>10 DEF PortInv
<1> QED
  BY <1>8, <1>9
(* release_ports gives back the port of a call once.                       *)
LEMMA ReleasePorts ==
    ASSUME IInv, PortInv, NEW t \in Threads, Release(t)
    PROVE  PortInv'
<1>0. /\ TypeOK /\ FrameInv(t) /\ pc[t] = "release" /\ Ending(t)
      /\ UNCHANGED <<state, port, finalized, calls, cur>>
      /\ pool' = pool \ {port[cur[t]]} /\ freed' = freed \cup {cur[t]}
      /\ pc' = [pc EXCEPT ![t] = "remove"]
  BY DEF IInv, Release, Ending, lifeVars, registryVars, frameVars, Go
<1>1. pc[t] \in ObjectLabels /\ pc[t] \in HandlerLabels
  BY <1>0 DEF ObjectLabels, HandlerLabels, CallLabels, SetupLabels, Labels
<1>2. cur[t] \in Calls /\ state[cur[t]] # "NONE"
  BY <1>0, <1>1 DEF FrameInv
<1>3. Releasing(t) /\ ReleaseInv /\ RegistryInv
  BY <1>0 DEF Releasing, PortInv, IInv
<1>4. cur[t] \notin freed /\ finalized[cur[t]] /\ port[cur[t]] # None
  BY <1>2, <1>3 DEF ReleaseInv, PortInv, ObjectPort
<1>5. HeldPortsReserved'
  <2>1. Holds(cur[t]) = port[cur[t]]
    BY <1>4 DEF Holds
  <2>2. \A c \in Calls : Holds(c)' = IF c = cur[t] THEN None ELSE Holds(c)
    BY <1>0 DEF Holds
  <2>3. HeldPortsReserved
    BY DEF PortInv
  <2>4. pool' = {Holds(c)' : c \in Calls} \ {None}
    BY <1>0, <1>2, <1>4, <2>1, <2>2, <2>3 DEF HeldPortsReserved
  <2> QED
    BY <2>2, <2>3, <2>4 DEF HeldPortsReserved
<1>6. ASSUME NEW c \in Calls PROVE UntriedPort(c)' /\ ObjectPort(c)'
  <2>1. tried' = tried /\ cur[t] \in tried
    BY <1>0, <1>2, <1>3, HandlerStaysPlaced DEF RegistryInv
  <2> QED
    BY <1>0, <1>4, <2>1 DEF PortInv, UntriedPort, ObjectPort
<1>7. \A u \in Threads : SetupPort(u)'
  BY <1>0, <1>1, HandlerSetupPorts
<1>8. ReleaseInv'
  <2>1. pc'[t] = "remove" /\ \A u \in Threads \ {t} : pc'[u] = pc[u]
    BY <1>0 DEF TypeOK
  <2>2. \A u \in Threads : (Releasing(u))' =>
            Releasing(u) /\ cur[u] # cur[t]
    BY <1>3, <2>1 DEF ReleaseInv, Releasing
  <2>3. \A u \in Threads : (Releasing(u))' =>
            finalized'[cur'[u]] /\ cur'[u] \notin freed'
    BY <1>0, <1>3, <2>2 DEF ReleaseInv
  <2>4. \A u, w \in Threads :
            (Releasing(u))' /\ (Releasing(w))' /\ cur'[u] = cur'[w] => u = w
    BY <1>0, <1>3, <2>2 DEF ReleaseInv
  <2>5. \A u \in Threads : pc'[u] = "remove" => cur'[u] \in freed'
    BY <1>0, <1>3, <2>1 DEF ReleaseInv
  <2> QED
    BY <2>3, <2>4, <2>5 DEF ReleaseInv
<1> QED
  BY <1>5, <1>6, <1>7, <1>8 DEF PortInv

(* _remove_call comes after it.                                            *)
LEMMA RemovePorts ==
    ASSUME IInv, PortInv, NEW t \in Threads, Remove(t)
    PROVE  PortInv'
<1>0. /\ TypeOK /\ FrameInv(t) /\ pc[t] = "remove" /\ Ending(t)
      /\ UNCHANGED <<state, port, freed, pool, finalized>>
      /\ calls' = calls \ {cur[t]} /\ Finalized(t)
  BY DEF IInv, Remove, Ending, lifeVars, portVars
<1>1. pc[t] \in ObjectLabels /\ pc[t] \in HandlerLabels
  BY <1>0 DEF ObjectLabels, HandlerLabels, CallLabels, SetupLabels, Labels
<1>2. ReleaseInv /\ Others(t) /\ tried' = tried
  BY <1>0, HandlerStaysPlaced DEF PortInv
<1>3. cur[t] \in freed
  BY <1>0, <1>2 DEF ReleaseInv
<1>4. HeldPortsReserved'
  BY <1>0 DEF PortInv, HeldPortsReserved, Holds
<1>5. ASSUME NEW c \in Calls PROVE UntriedPort(c)' /\ ObjectPort(c)'
  BY <1>0, <1>2, <1>3 DEF PortInv, UntriedPort, ObjectPort
<1>6. \A u \in Threads : SetupPort(u)'
  BY <1>0, <1>1, HandlerSetupPorts
<1>7. pc'[t] \notin {"remember", "release", "remove"}
  <2>1. CASE Go(t, "sendboth")
    BY <1>0, <2>1 DEF Go, TypeOK
  <2>2. CASE Returned(t)
    <3>1. Ends(t) /\ LockInv(t)
      BY <2>2, ReturnEnds DEF IInv
    <3> QED
      BY <1>0, <3>1, DoneFacts DEF Ends
  <2> QED
    BY <1>0, <2>1, <2>2 DEF Finalized
<1>8. \A u \in Threads : pc'[u] \in {"remember", "release", "remove"} =>
          u # t /\ pc'[u] = pc[u] /\ cur'[u] = cur[u]
  BY <1>2, <1>7 DEF Others, Kept
<1>9. ReleaseInv'
  BY <1>0, <1>2, <1>8 DEF ReleaseInv, Releasing
<1> QED
  BY <1>4, <1>5, <1>6, <1>9 DEF PortInv

(* The steps of handlers, together.                                        *)
LEMMA HandlerKeepsPorts ==
    ASSUME IInv, PortInv, NEW t \in Threads, Handling(t) \/ Ending(t)
    PROVE  PortInv'
  BY HandlerPorts, FinalizePorts, ReleasePorts, RemovePorts DEF Finishes

(* Steps of call() outside handlers that take no port nor give one back.   *)
LEMMA SetupPorts ==
    ASSUME IInv, PortInv, NEW t \in Threads, SetupStep(t), ~RequestPort(t),
           ~GiveUp(t)
    PROVE  PortInv'
<1>0. /\ TypeOK /\ pc[t] \in SetupLabels /\ pc[t] \notin HandlerLabels
      /\ Others(t) /\ dial' = dial /\ tried' = tried /\ routine' = routine
      /\ state' = state /\ calls' = calls
      /\ \A u \in Threads \ {t} : (recvLock' = u) <=> (recvLock = u)
  BY SetupPlace, SetupMoves DEF HandlerLabels, CallLabels
<1>1. routine[t] = "none" /\ InSetup(t)
  BY <1>0, OutsideHandlers
<1>2. /\ UNCHANGED <<port, freed, pool, finalized>>
      /\ pc[t] # "port" /\ pc'[t] # "port"
      /\ pc'[t] \notin {"remember", "release", "remove"}
  BY <1>0
  DEF SetupStep, PrepareInvite, SendInvite, TimedOut, Abandon, Progress,
      Challenged, Final, Returns, Awaits, Go, TypeOK, lifeVars, portVars
<1>3. (Portless(t))' <=> Portless(t)
  BY <1>0, <1>1, <1>2 DEF Portless
<1> QED
  BY <1>0, <1>1, <1>2, <1>3, QuietKeeps DEF PortsStay, Releasing

(* request_port takes a port nobody holds.                                 *)
LEMMA RequestPorts ==
    ASSUME IInv, PortInv, NEW t \in Threads, RequestPort(t)
    PROVE  PortInv'
<1>0. /\ TypeOK /\ DialInv(t) /\ pc[t] = "port" /\ dial[t] \in Calls
      /\ pc[t] \in SetupLabels /\ pc[t] \notin HandlerLabels
      /\ UNCHANGED <<state, freed, finalized, calls, tried, dial, routine, cur,
                     recvLock>>
      /\ pc' = [pc EXCEPT ![t] = "invite"]
  <2>1. SetupStep(t)
    BY DEF SetupStep
  <2> QED
    BY <2>1, SetupPlace
    DEF RequestPort, lifeVars, registryVars, frameVars, appVars, Go,
        HandlerLabels, CallLabels
<1>1. PICK p \in Ports \ pool :
          port' = [port EXCEPT ![dial[t]] = p] /\ pool' = pool \cup {p}
  BY DEF RequestPort
<1>2. /\ dial[t] # None /\ InSetup(t) /\ routine[t] = "none" /\ cur[t] = None
      /\ p # None /\ dial[t] \in tried /\ state[dial[t]] = "NONE"
      /\ \A u \in Threads : dial[u] = dial[t] => u = t
  BY <1>0, OutsideHandlers, ConstantsAssumption DEF DialInv
<1>3. /\ dial[t] \notin freed /\ port[dial[t]] = None
      /\ HeldPortsReserved /\ ReleaseInv
  BY <1>0, <1>2 DEF PortInv, SetupPort, Portless
<1>4. port'[dial[t]] = p /\ \A c \in Calls \ {dial[t]} : port'[c] = port[c]
  BY <1>0, <1>1 DEF TypeOK
<1>5. HeldPortsReserved'
  <2>1. \A c \in Calls : Holds(c)' = IF c = dial[t] THEN p ELSE Holds(c)
    BY <1>0, <1>3, <1>4 DEF Holds
  <2>2. Holds(dial[t]) = None
    BY <1>3 DEF Holds
  <2>3. \A c \in Calls : Holds(c) # p
    BY <1>2, <1>3 DEF HeldPortsReserved
  <2>4. pool' = {Holds(c)' : c \in Calls} \ {None}
    BY <1>0, <1>1, <1>2, <1>3, <2>1, <2>2 DEF HeldPortsReserved
  <2> QED
    BY <1>3, <2>1, <2>3, <2>4 DEF HeldPortsReserved
<1>6. ASSUME NEW c \in Calls PROVE UntriedPort(c)' /\ ObjectPort(c)'
  BY <1>0, <1>2, <1>4 DEF PortInv, UntriedPort, ObjectPort
<1>7. pc'[t] = "invite" /\ \A u \in Threads \ {t} : pc'[u] = pc[u]
  BY <1>0 DEF TypeOK
<1>8. ASSUME NEW u \in Threads PROVE SetupPort(u)'
  <2>1. CASE u = t
    BY <1>0, <1>2, <1>3, <1>4, <1>7, <2>1 DEF SetupPort, Portless
  <2>2. CASE u # t
    <3>1. pc'[u] = pc[u] /\ (dial[u] # None => dial[u] \in Calls \ {dial[t]})
      BY <1>0, <1>2, <1>7, <2>2 DEF TypeOK
    <3>2. InSetup(u)' <=> InSetup(u)
      BY <1>0, <3>1 DEF InSetup
    <3>3. Portless(u)' <=> Portless(u)
      BY <1>0, <3>1 DEF Portless
    <3> QED
      BY <1>0, <1>4, <3>1, <3>2, <3>3 DEF PortInv, SetupPort
  <2> QED
    BY <2>1, <2>2
<1>9. ReleaseInv'
  BY <1>0, <1>3, <1>7 DEF ReleaseInv, Releasing
<1> QED
  BY <1>5, <1>6, <1>8, <1>9 DEF PortInv

(* call() gives the port of a call that failed back.                       *)
LEMMA GiveUpPorts ==
    ASSUME IInv, PortInv, NEW t \in Threads, GiveUp(t)
    PROVE  PortInv'
<1>0. /\ TypeOK /\ DialInv(t) /\ RegistryInv /\ pc[t] = "giveup"
      /\ dial[t] \in Calls
      /\ pc[t] \in SetupLabels /\ pc[t] \notin HandlerLabels
      /\ UNCHANGED <<state, port, finalized, calls, tried, dial, routine, cur,
                     recvLock>>
      /\ pool' = pool \ {port[dial[t]]} /\ freed' = freed \cup {dial[t]}
      /\ pc' = [pc EXCEPT ![t] = "leave"]
  <2>1. SetupStep(t) /\ RegistryInv
    BY DEF SetupStep, IInv
  <2> QED
    BY <2>1, SetupPlace
    DEF GiveUp, lifeVars, registryVars, frameVars, appVars, Go, HandlerLabels,
        CallLabels
<1>2. /\ dial[t] # None /\ InSetup(t) /\ routine[t] = "none" /\ cur[t] = None
      /\ dial[t] \in tried /\ state[dial[t]] = "NONE"
      /\ \A u \in Threads : dial[u] = dial[t] => u = t
  BY <1>0, OutsideHandlers, ConstantsAssumption DEF DialInv
<1>3. /\ dial[t] \notin freed /\ port[dial[t]] # None
      /\ HeldPortsReserved /\ ReleaseInv
  BY <1>0, <1>2 DEF PortInv, SetupPort, Portless
<1>5. HeldPortsReserved'
  <2>1. \A c \in Calls : Holds(c)' = IF c = dial[t] THEN None ELSE Holds(c)
    BY <1>0 DEF Holds
  <2>2. Holds(dial[t]) = port[dial[t]]
    BY <1>3 DEF Holds
  <2>3. pool' = {Holds(c)' : c \in Calls} \ {None}
    BY <1>0, <1>3, <2>1, <2>2 DEF HeldPortsReserved
  <2> QED
    BY <1>3, <2>1, <2>3 DEF HeldPortsReserved
<1>6. ASSUME NEW c \in Calls PROVE UntriedPort(c)' /\ ObjectPort(c)'
  BY <1>0, <1>2 DEF PortInv, UntriedPort, ObjectPort
<1>7. pc'[t] = "leave" /\ \A u \in Threads \ {t} : pc'[u] = pc[u]
  BY <1>0 DEF TypeOK
<1>8. ASSUME NEW u \in Threads PROVE SetupPort(u)'
  <2>1. CASE u = t
    <3>1. ~InSetup(u)'
      BY <1>7, <2>1 DEF InSetup, HandlerLabels, CallLabels, SetupLabels
    <3> QED
      BY <3>1 DEF SetupPort
  <2>2. CASE u # t
    <3>1. pc'[u] = pc[u] /\ (dial[u] # None => dial[u] # dial[t])
      BY <1>2, <1>7, <2>2
    <3>2. InSetup(u)' <=> InSetup(u)
      BY <1>0, <3>1 DEF InSetup
    <3>3. Portless(u)' <=> Portless(u)
      BY <1>0, <3>1 DEF Portless
    <3> QED
      BY <1>0, <3>1, <3>2, <3>3 DEF PortInv, SetupPort
  <2> QED
    BY <2>1, <2>2
<1>9. ReleaseInv'
  <2>1. \A u \in Threads : Releasing(u) => cur[u] # dial[t]
    <3> SUFFICES ASSUME NEW u \in Threads, Releasing(u)
                 PROVE  cur[u] # dial[t]
      OBVIOUS
    <3>1. pc[u] \in ObjectLabels
      BY DEF Releasing, ObjectLabels, HandlerLabels, CallLabels, SetupLabels,
         Labels
    <3> QED
      BY <1>2, <3>1, SetupHasNoObject
  <2> QED
    BY <1>0, <1>3, <1>7, <2>1 DEF ReleaseInv, Releasing
<1> QED
  BY <1>5, <1>6, <1>8, <1>9 DEF PortInv
(* An object takes over the port of its call().                            *)
LEMMA CreatePorts ==
    ASSUME IInv, PortInv, NEW t \in Threads, Create(t)
    PROVE  PortInv'
<1>0. /\ TypeOK /\ DialInv(t) /\ pc[t] = "create"
      /\ UNCHANGED <<port, freed, pool, finalized, tried, dial, routine, cur,
                     recvLock>>
      /\ state' = [state EXCEPT ![dial[t]] = "DIALING"]
      /\ calls' = calls \cup {dial[t]}
      /\ pc' = [pc EXCEPT ![t] = "leave"]
  BY DEF IInv, Create, frameVars, appVars, Go
<1>1. pc[t] \in SetupLabels /\ pc[t] \in CallLabels /\ pc[t] \notin HandlerLabels
  BY <1>0 DEF HandlerLabels, CallLabels, SetupLabels
<1>2. /\ dial[t] # None /\ dial[t] \in Calls /\ InSetup(t) /\ routine[t] = "none"
      /\ \A u \in Threads : dial[u] = dial[t] => u = t
  BY <1>0, <1>1, OutsideHandlers DEF DialInv, TypeOK
<1>3. dial[t] \notin freed /\ port[dial[t]] # None /\ ReleaseInv
  BY <1>0, <1>2 DEF PortInv, SetupPort, Portless
<1>4. HeldPortsReserved'
  BY <1>0 DEF PortInv, HeldPortsReserved, Holds
<1>5. ASSUME NEW c \in Calls PROVE UntriedPort(c)' /\ ObjectPort(c)'
  <2>1. c # dial[t] => state'[c] = state[c]
    BY <1>0 DEF TypeOK
  <2> QED
    BY <1>0, <1>3, <2>1 DEF PortInv, UntriedPort, ObjectPort
<1>6. pc'[t] = "leave" /\ \A u \in Threads \ {t} : pc'[u] = pc[u]
  BY <1>0 DEF TypeOK
<1>7. ASSUME NEW u \in Threads PROVE SetupPort(u)'
  <2>1. CASE u = t
    <3>1. ~InSetup(u)'
      BY <1>6, <2>1 DEF InSetup, HandlerLabels, CallLabels, SetupLabels
    <3> QED
      BY <3>1 DEF SetupPort
  <2>2. CASE u # t
    <3>1. pc'[u] = pc[u]
      BY <1>6, <2>2
    <3>2. (InSetup(u)' <=> InSetup(u)) /\ (Portless(u)' <=> Portless(u))
      BY <1>0, <3>1 DEF InSetup, Portless
    <3> QED
      BY <1>0, <3>1, <3>2 DEF PortInv, SetupPort
  <2> QED
    BY <2>1, <2>2
<1>8. ReleaseInv'
  BY <1>0, <1>3, <1>6 DEF ReleaseInv, Releasing
<1> QED
  BY <1>4, <1>5, <1>7, <1>8 DEF PortInv

(* A new call() has no port yet.                                           *)
LEMMA DialPorts ==
    ASSUME IInv, PortInv, NEW t \in Threads, NEW c \in Calls, Dial(t, c)
    PROVE  PortInv'
<1>0. /\ TypeOK /\ RegistryInv /\ DialInv(t) /\ c \notin tried
      /\ pc[t] = "idle" /\ pc' = [pc EXCEPT ![t] = "port"]
      /\ dial' = [dial EXCEPT ![t] = c] /\ tried' = tried \cup {c}
      /\ UNCHANGED <<state, finalized, port, freed, pool, calls, routine, cur,
                     recvLock>>
  BY DEF IInv, Dial, Go, lifeVars, portVars, registryVars, frameVars
<1>1. port[c] = None /\ c \notin freed /\ state[c] = "NONE" /\ ReleaseInv
  BY <1>0 DEF PortInv, UntriedPort, RegistryInv
<1>2. HeldPortsReserved'
  BY <1>0 DEF PortInv, HeldPortsReserved, Holds
<1>3. ASSUME NEW d \in Calls PROVE UntriedPort(d)' /\ ObjectPort(d)'
  BY <1>0 DEF PortInv, UntriedPort, ObjectPort
<1>4. /\ pc'[t] = "port" /\ dial'[t] = c
      /\ \A u \in Threads \ {t} : pc'[u] = pc[u] /\ dial'[u] = dial[u]
  BY <1>0 DEF TypeOK
<1>5. ASSUME NEW u \in Threads PROVE SetupPort(u)'
  <2>1. CASE u = t
    BY <1>0, <1>1, <1>4, <2>1 DEF SetupPort, Portless
  <2>2. CASE u # t
    <3>1. pc'[u] = pc[u] /\ dial'[u] = dial[u]
      BY <1>4, <2>2
    <3>2. (InSetup(u)' <=> InSetup(u)) /\ (Portless(u)' <=> Portless(u))
      BY <1>0, <3>1 DEF InSetup, Portless
    <3> QED
      BY <1>0, <3>1, <3>2 DEF PortInv, SetupPort
  <2> QED
    BY <2>1, <2>2
<1>6. ReleaseInv'
  BY <1>0, <1>1, <1>4 DEF ReleaseInv, Releasing
<1> QED
  BY <1>2, <1>3, <1>5, <1>6 DEF PortInv

(* A thread that enters a handler comes to none of its releases.           *)
LEMMA StartPorts ==
    ASSUME IInv, PortInv, NEW t \in Threads, pc[t] \notin HandlerLabels,
           Others(t), Unbuilt, UNCHANGED <<pool, finalized>>,
           pc'[t] \in HandlerLabels \ {"remember", "release", "remove"},
           routine'[t] = "reclaim" => pc[t] = "port",
           routine'[t] # "reclaim" => pc[t] \in {"idle", "wait", "replay"},
           \A u \in Threads \ {t} : (recvLock' = u) <=> (recvLock = u),
           (recvLock' = t) <=> (pc[t] = "wait" \/ t = Recv)
    PROVE  PortInv'
<1>0. /\ TypeOK /\ DialInv(t) /\ LockInv(t) /\ routine[t] = "none"
      /\ (InSetup(t) <=> pc[t] \in SetupLabels)
  BY OutsideHandlers DEF IInv
<1>1. /\ PortsStay /\ dial' = dial
      /\ \A c \in Calls : (state'[c] = "NONE") <=> (state[c] = "NONE")
  BY DEF Unbuilt, PortsStay
<1>2. pc'[t] \notin SetupLabels /\ pc'[t] # "port"
  BY DEF HandlerLabels, CallLabels, SetupLabels
<1>3. dial[t] # None /\ (InSetup(t))' =>
          InSetup(t) /\ ((Portless(t))' <=> Portless(t))
  BY <1>0, <1>2 DEF InSetup, Portless, DialInv, SetupLabels
<1> QED
  BY <1>1, <1>3, QuietKeeps DEF Releasing

(* The starts of handlers, one by one:                                     *)
LEMMA ReclaimPorts ==
    ASSUME IInv, PortInv, NEW t \in Threads, Reclaim(t)
    PROVE  PortInv'
<1>0. TypeOK /\ LockInv(t) /\ DialInv(t) /\ pc[t] = "port" /\ UNCHANGED dial
  BY DEF IInv, Reclaim, Stay, appVars
<1>1. PICK d \in calls : Enter(t, "reclaim", "fin", d, 0)
  BY DEF Reclaim
<1>2. Others(t) /\ pc'[t] = "fin" /\ routine'[t] = "reclaim"
  BY <1>0, <1>1, EnterStarts
<1>3. Unbuilt /\ UNCHANGED <<pool, finalized, recvLock>>
  BY DEF Reclaim, Stay, appVars, Unbuilt, lifeVars, registryVars, portVars,
         setupVars
<1>4. /\ pc[t] \notin HandlerLabels
      /\ pc'[t] \in HandlerLabels \ {"remember", "release", "remove"}
  BY <1>0, <1>2 DEF HandlerLabels, CallLabels, SetupLabels, Labels
<1>5. recvLock # t /\ t # Recv
  BY <1>0, <1>4 DEF LockInv, DialInv, CallLabels, SetupLabels
<1> QED
  BY <1>0, <1>2, <1>3, <1>4, <1>5, StartPorts

LEMMA AppPorts ==
    ASSUME IInv, PortInv, NEW t \in Threads, NEW c \in Calls,
           Cancel(t, c) \/ Hangup(t, c)
    PROVE  PortInv'
<1>0. /\ TypeOK /\ LockInv(t) /\ pc[t] = "idle" /\ UNCHANGED dial /\ t # Recv
      /\ state[c] # "NONE"
  BY ConstantsAssumption DEF IInv, Cancel, Hangup, Stay, appVars
<1>1. PICK r \in {"cancel", "hangup"} : Enter(t, r, "media", c, 0)
  BY DEF Cancel, Hangup
<1>2. Others(t) /\ pc'[t] = "media" /\ routine'[t] = r
  BY <1>0, <1>1, EnterStarts
<1>3. \A d \in Calls : (state'[d] = "NONE") <=> (state[d] = "NONE")
  BY <1>0 DEF Cancel, Hangup, lifeVars, TypeOK
<1>4. Unbuilt /\ UNCHANGED <<pool, finalized, recvLock>>
  BY <1>3 DEF Cancel, Hangup, Stay, appVars, Unbuilt, lifeVars, registryVars,
     portVars, setupVars
<1>5. /\ pc[t] \notin HandlerLabels
      /\ pc'[t] \in HandlerLabels \ {"remember", "release", "remove"}
  BY <1>0, <1>2 DEF HandlerLabels, CallLabels, SetupLabels, Labels
<1>6. recvLock # t
  BY <1>0, <1>5 DEF LockInv
<1> QED
  BY <1>0, <1>2, <1>4, <1>5, <1>6, StartPorts

LEMMA ReadPorts ==
    ASSUME IInv, PortInv, NEW t \in Threads, Read(t)
    PROVE  PortInv'
<1>0. TypeOK
  BY DEF IInv
<1>1. PICK c \in Calls \ {dial[t]}, n \in Attempts, k \in Kinds :
          CASE k = "ringing" ->
                   /\ Ring(c)
                   /\ UNCHANGED <<recvLock, pc, frameVars>>
            [] k = "ok" ->
                   /\ Enter(t, "accepted", "find", c, n)
                   /\ Locked(t) /\ UNCHANGED state
            [] OTHER ->
                   /\ Enter(t, "failed", "stale", c, n)
                   /\ Locked(t) /\ UNCHANGED state
  BY DEF Read
<1>2. /\ UNCHANGED <<calls, ended, tag, port, freed, pool, finalized, tried,
                     dial, depth, busy>>
      /\ pc[t] \in {"idle", "wait"} /\ pc[t] \notin HandlerLabels
      /\ pc[t] = "wait" \/ t = Recv
      /\ recvLock \in {t, None}
  BY ReadsLock DEF Read, appVars, registryVars, portVars
<1>3. CASE k = "ringing"
  <2>1. Ring(c) /\ UNCHANGED <<pc, routine, cur, recvLock>>
    BY <1>1, <1>3 DEF frameVars
  <2> QED
    BY <1>2, <2>1, RingKeeps, StillPorts DEF PortsStay
<1>4. CASE k # "ringing"
  <2>1. PICK r \in {"accepted", "failed"}, l \in {"find", "stale"} :
            Enter(t, r, l, c, n) /\ Locked(t) /\ UNCHANGED state
    BY <1>1, <1>4
  <2>2. Others(t) /\ pc'[t] = l /\ routine'[t] = r
    BY <1>0, <1>2, <2>1, EnterStarts
  <2>3. Unbuilt
    BY <1>2, <2>1 DEF Unbuilt
  <2>4. pc'[t] \in HandlerLabels \ {"remember", "release", "remove"}
    BY <2>2 DEF HandlerLabels, CallLabels, SetupLabels, Labels
  <2>5. recvLock' = t /\ \A u \in Threads \ {t} : recvLock # u
    BY <1>2, <2>1, ConstantsAssumption DEF Locked, Threads
  <2> QED
    BY <1>2, <2>1, <2>2, <2>3, <2>4, <2>5, StartPorts
<1> QED
  BY <1>3, <1>4

LEMMA ReadByePorts ==
    ASSUME IInv, PortInv, NEW t \in Threads, ReadBye(t)
    PROVE  PortInv'
<1>0. TypeOK
  BY DEF IInv
<1>1. PICK c \in calls, l \in {"media", "fin"} : Enter(t, "bye", l, c, 0)
  BY DEF ReadBye
<1>2. /\ UNCHANGED <<dial, pool, finalized>> /\ Unbuilt /\ recvLock' = t
      /\ pc[t] \in {"idle", "wait"} /\ pc[t] \notin HandlerLabels
      /\ pc[t] = "wait" \/ t = Recv
      /\ recvLock \in {t, None}
  BY ReadsLock DEF ReadBye, appVars, registryVars, portVars, lifeVars, setupVars,
     Unbuilt, Locked
<1>3. Others(t) /\ pc'[t] = l /\ routine'[t] = "bye"
  BY <1>0, <1>1, <1>2, EnterStarts
<1>4. pc'[t] \in HandlerLabels \ {"remember", "release", "remove"}
  BY <1>3 DEF HandlerLabels, CallLabels, SetupLabels, Labels
<1>5. \A u \in Threads \ {t} : recvLock # u
  BY <1>2, ConstantsAssumption DEF Threads
<1> QED
  BY <1>2, <1>3, <1>4, <1>5, StartPorts

(* and call(), once it knows whether there is an object.                   *)
LEMMA ReplayPorts ==
    ASSUME IInv, PortInv, NEW t \in Threads, Replay(t)
    PROVE  PortInv'
<1>0. TypeOK /\ LockInv(t)
  BY DEF IInv
<1>1. /\ pc[t] = "replay"
      /\ UNCHANGED <<calls, ended, tag, port, freed, pool, finalized, busy,
                     depth>>
  BY DEF Replay, registryVars, portVars
<1>2. CASE /\ Ring(dial[t]) \/ UNCHANGED state
           /\ Done(t, TRUE)
  <2>1. \A c \in Calls : (state'[c] = "NONE") <=> (state[c] = "NONE")
    BY <1>1, <1>2, LeavingPlace, RingKeeps
  <2>2. /\ Others(t) /\ tried' = tried
        /\ pc'[t] = "idle" /\ dial'[t] = None /\ recvLock' = recvLock
    BY <1>0, <1>1, <1>2, DoneFacts, LeavingPlace DEF Others, InTransaction
  <2> QED
    BY <1>1, <2>1, <2>2, QuietKeeps DEF PortsStay, Releasing
<1>3. CASE \E r \in {"accepted", "failed"}, l \in {"find", "stale"} :
               Enter(t, r, l, dial[t], pending[dial[t]].seq) /\ Stay
               /\ UNCHANGED state
  <2>1. PICK r \in {"accepted", "failed"}, l \in {"find", "stale"} :
            Enter(t, r, l, dial[t], pending[dial[t]].seq) /\ Stay
            /\ UNCHANGED state
    BY <1>3
  <2>2. Unbuilt /\ UNCHANGED dial /\ recvLock' = recvLock
    BY <1>1, <2>1 DEF Unbuilt, Stay, appVars
  <2>3. Others(t) /\ pc'[t] = l /\ routine'[t] = r
    BY <1>0, <2>1, <2>2, EnterStarts
  <2>4. pc'[t] \in HandlerLabels \ {"remember", "release", "remove"}
    BY <2>3 DEF HandlerLabels, CallLabels, SetupLabels, Labels
  <2> QED
    BY <1>1, <2>1, <2>2, <2>3, <2>4, LeavingPlace, StartPorts
<1> QED
  BY <1>2, <1>3 DEF Replay

LEMMA LeaveCreationPorts ==
    ASSUME IInv, PortInv, NEW t \in Threads, LeaveCreation(t)
    PROVE  PortInv'
<1>0. TypeOK
  BY DEF IInv
<1>1. /\ pc[t] = "leave" /\ PortsStay
      /\ UNCHANGED <<state, routine, cur, recvLock>>
  BY DEF LeaveCreation, lifeVars, registryVars, portVars, frameVars, PortsStay
<1>2. \/ pc' = [pc EXCEPT ![t] = "idle"] /\ dial' = [dial EXCEPT ![t] = None]
      \/ pc' = [pc EXCEPT ![t] = "replay"] /\ dial' = dial
  BY DEF LeaveCreation, Go
<1>3. Others(t) /\ pc'[t] \in {"idle", "replay"} /\ recvLock' # t
      /\ routine'[t] = "none"
  BY <1>0, <1>1, <1>2, LeavingPlace DEF TypeOK, Others, Kept
<1>4. ~(InSetup(t))'
  BY <1>3 DEF InSetup, HandlerLabels, CallLabels, SetupLabels
<1> QED
  BY <1>1, <1>3, <1>4, QuietKeeps DEF Releasing
(* PortInv holds at the start,                                             *)
LEMMA PortsInit == Init => PortInv
<1> SUFFICES ASSUME Init PROVE PortInv
  OBVIOUS
<1>1. \A t \in Threads : pc[t] = "idle" /\ dial[t] = None
  BY DEF Init
<1>2. HeldPortsReserved
  <2>1. \A c \in Calls : Holds(c) = None
    BY DEF Init, Holds
  <2> QED
    BY <2>1 DEF Init, HeldPortsReserved
<1>3. \A c \in Calls : UntriedPort(c) /\ ObjectPort(c)
  BY DEF Init, UntriedPort, ObjectPort
<1>4. \A t \in Threads : SetupPort(t)
  BY <1>1 DEF SetupPort
<1>5. ReleaseInv
  BY <1>1 DEF ReleaseInv, Releasing
<1> QED
  BY <1>2, <1>3, <1>4, <1>5 DEF PortInv

(* and every step keeps it, as long as there is nothing to collect.        *)
LEMMA PortsNext == IInv /\ PortInv /\ NoneRefilled /\ [Next]_vars => PortInv'
<1> SUFFICES ASSUME IInv, PortInv, NoneRefilled, [Next]_vars PROVE PortInv'
  OBVIOUS
<1>1. ASSUME NEW t \in Threads, Step(t) \/ Hearing(t)
      PROVE  PortInv'
  BY <1>1, HandlerKeepsPorts, SetupPorts, RequestPorts, GiveUpPorts,
     ReclaimPorts, CreatePorts, LeaveCreationPorts, ReplayPorts, ReadPorts,
     ReadByePorts
  DEF Step, Calling, Hearing, SetupStep
<1>2. ASSUME NEW t \in Threads, NEW c \in Calls,
             Dial(t, c) \/ Cancel(t, c) \/ Hangup(t, c)
      PROVE  PortInv'
  BY <1>2, DialPorts, AppPorts
<1>3. ASSUME NEW c \in Calls, Collect(c) PROVE PortInv'
  <2>1. c \in freed /\ assigned[c]
    BY <1>3 DEF Collect, PortInv, ObjectPort
  <2> QED
    BY <2>1 DEF NoneRefilled
<1>4. CASE UNCHANGED vars
  <2>1. UNCHANGED <<pc, routine, cur, dial, recvLock, state>> /\ PortsStay
    BY <1>4 DEF vars, lifeVars, portVars, registryVars, frameVars, appVars,
       PortsStay
  <2> QED
    BY <2>1, StillPorts
<1> QED
  BY <1>1, <1>2, <1>3, <1>4 DEF Next

(* The phone's list of reserved ports holds exactly the ports of calls that *)
(* have not given theirs back, and no port serves two of them, as long as   *)
(* no 2xx refills assignedPorts of a finalized call: request_port,          *)
(* release_ports and the except clause of call() are sound, and             *)
(* create_rtp_clients after cancel() is the only way to lose a port.        *)
THEOREM PortsAreHeld == Spec /\ []NoneRefilled => []HeldPortsReserved
<1>1. Init => PortInv
  BY PortsInit
<1>2. IInv /\ PortInv /\ NoneRefilled /\ [Next]_vars => PortInv'
  BY PortsNext
<1>3. PortInv => HeldPortsReserved
  BY DEF PortInv
<1> QED
  BY <1>1, <1>2, <1>3, Invariance, PTL DEF Spec

----------------------------------------------------------------------------
(* Calls that are not answered *)

\* Where a thread does not come to without a 2xx.
MediaLabels == {"find", "cached", "claim", "check", "start"}
Quiet(t) == routine[t] # "accepted" /\ pc[t] \notin MediaLabels

(* The thread of a step takes up no 2xx, the others stay.                  *)
LEMMA QuietStays ==
    ASSUME NoMediaInv, NEW t \in Threads, Others(t), Quiet(t)'
    PROVE  \A u \in Threads : Quiet(u)'
  BY DEF NoMediaInv, Others, Kept, Quiet, MediaLabels

(* Handlers of anything but a 2xx go on without one,                       *)
LEMMA HandlerQuiet ==
    ASSUME IInv, NoMediaInv, NEW t \in Threads, Handling(t) \/ Ending(t)
    PROVE  /\ \A u \in Threads : Quiet(u)'
           /\ \A c \in Calls : pending'[c].kind # "ok"
           /\ assigned' = assigned
                 \/ assigned' = [assigned EXCEPT ![cur[t]] = FALSE]
           /\ freed' = freed \/ Release(t)
<1>0. /\ TypeOK /\ LockInv(t) /\ Others(t) /\ Quiet(t)
  BY HandlerStaysPlaced DEF IInv, NoMediaInv, Quiet, MediaLabels
<1>1. Quiet(t)'
  <2>1. CASE Ends(t)
    BY <1>0, <2>1, DoneFacts DEF Ends, Quiet, MediaLabels
  <2>2. CASE ~Ends(t) /\ SendAck(t)
    BY <1>0, <2>2 DEF SendAck, Go, TypeOK, Quiet, MediaLabels
  <2>3. CASE ~Ends(t) /\ ~SendAck(t)
    <3>1. \E l \in {"failed", "late", "media", "queue", "enqueue", "commit",
                    "ack", "sendbye", "ended", "fin", "remember", "release",
                    "remove", "sendboth", "unflag"} : Go(t, l)
      <4>1. CASE Handling(t)
        BY <1>0, <2>3, <4>1, ReturnEnds
        DEF Handling, Stale, Failed, Late, Queue, Enqueue, Find, Cached, Claim,
            Check, Start, Commit, Unflag, Ends, Quiet, MediaLabels, Enter
      <4>2. CASE Ending(t)
        BY <2>3, <4>2, ReturnEnds
        DEF Ending, StopMedia, SendBye, SetEnded, Finalize, Finalized, Remember,
            Release, Remove, SendBoth, Ends
      <4> QED
        BY <4>1, <4>2
    <3>2. routine' = routine \/ routine' = [routine EXCEPT ![t] = "unusable"]
      <4>1. CASE Handling(t)
        BY <1>0, <2>3, <4>1, ReturnEnds
        DEF Handling, Stale, Failed, Late, Queue, Enqueue, Find, Cached, Claim,
            Check, Start, Commit, Unflag, Ends, Quiet, MediaLabels, Enter,
            frameVars
      <4>2. CASE Ending(t)
        BY <2>3, <4>2, ReturnEnds
        DEF Ending, StopMedia, SendBye, SetEnded, Finalize, Finalized, Remember,
            Release, Remove, SendBoth, Ends, frameVars
      <4> QED
        BY <4>1, <4>2
    <3> QED
      BY <1>0, <3>1, <3>2 DEF Go, TypeOK, Quiet, MediaLabels
  <2> QED
    BY <2>1, <2>2, <2>3
<1>2. \A u \in Threads : Quiet(u)'
  BY <1>0, <1>1, QuietStays
<1>3. CASE Enqueue(t)
  <2>1. \/ pending' = pending
        \/ pending' = [pending EXCEPT ![cur[t]] = [kind |-> "reject",
                                                   seq |-> seq[t]]]
    BY <1>0, <1>3 DEF Enqueue, Quiet
  <2>2. pending \in [Calls -> Responses]
    BY <1>0 DEF TypeOK
  <2>3. \A c \in Calls : pending'[c].kind # "ok"
    BY <2>1, <2>2 DEF NoMediaInv
  <2>4. UNCHANGED <<assigned, freed>>
    BY <1>3 DEF Enqueue, portVars
  <2> QED
    BY <1>2, <2>3, <2>4
<1>4. CASE Release(t)
  BY <1>2, <1>4 DEF Release, NoMediaInv, setupVars
<1>5. CASE ~Enqueue(t) /\ ~Release(t)
  <2>1. UNCHANGED <<pending, assigned, freed>>
    BY <1>0, <1>5
    DEF Handling, Ending, Stale, Failed, Late, Queue, Find, Cached, Claim, Check,
        Start, Commit, SendAck, Unflag, StopMedia, SendBye, SetEnded, Finalize,
        Remember, Remove, SendBoth, Quiet, MediaLabels, setupVars, portVars
  <2> QED
    BY <1>2, <2>1 DEF NoMediaInv
<1> QED
  BY <1>3, <1>4, <1>5
(* so NoMediaInv holds after them,                                         *)
LEMMA HandlerNoMedia ==
    ASSUME IInv, PortInv, NoMediaInv, NEW t \in Threads,
           Handling(t) \/ Ending(t)
    PROVE  NoMediaInv'
<1>0. TypeOK /\ FrameInv(t)
  BY DEF IInv
<1>1. \A c \in Calls : (state'[c] = "NONE") <=> (state[c] = "NONE")
  BY HandlerSteady DEF Steady
<1>2. CASE Release(t)
  <2>1. /\ assigned' = [assigned EXCEPT ![cur[t]] = FALSE]
        /\ freed' = freed \cup {cur[t]} /\ cur[t] \in Calls
    BY <1>0, <1>2 DEF Release, FrameInv, HandlerLabels, CallLabels, SetupLabels,
       Labels
  <2>2. \A c \in Calls : assigned'[c] => assigned[c] /\ c # cur[t]
    BY <1>0, <2>1 DEF TypeOK
  <2> QED
    BY <1>1, <2>1, <2>2, HandlerQuiet DEF NoMediaInv, Quiet, MediaLabels
<1>3. CASE ~Release(t)
  <2>1. freed' = freed
    BY <1>3, HandlerQuiet
  <2>2. \A c \in Calls : assigned'[c] => assigned[c]
    BY <1>0, HandlerQuiet DEF TypeOK
  <2> QED
    BY <1>1, <2>1, <2>2, HandlerQuiet DEF NoMediaInv, Quiet, MediaLabels
<1> QED
  BY <1>2, <1>3

(* after the steps of call() itself,                                       *)
LEMMA SetupNoMedia ==
    ASSUME IInv, PortInv, NoMediaInv, "ok" \notin Kinds, NEW t \in Threads,
           SetupStep(t)
    PROVE  NoMediaInv'
<1>0. /\ TypeOK /\ DialInv(t) /\ dial[t] \in Calls /\ Others(t)
      /\ pc[t] \in SetupLabels /\ state' = state
      /\ routine' = routine /\ pc'[t] \in SetupLabels \cup {"leave"}
  BY SetupPlace, SetupMoves
<1>1. \A u \in Threads : Quiet(u)'
  <2>1. Quiet(t)'
    BY <1>0 DEF NoMediaInv, Quiet, MediaLabels, SetupLabels
  <2> QED
    BY <1>0, <2>1, QuietStays
<1>2. assigned' = assigned
  BY DEF SetupStep, RequestPort, PrepareInvite, SendInvite, TimedOut, Abandon,
         GiveUp, Progress, Challenged, Final, Returns, portVars
<1>3. freed' = freed \/ (freed' = freed \cup {dial[t]} /\ state[dial[t]] = "NONE")
  <2>1. CASE GiveUp(t)
    <3>1. InSetup(t) /\ dial[t] # None
      BY <1>0, ConstantsAssumption DEF InSetup
    <3> QED
      BY <1>0, <2>1, <3>1 DEF GiveUp, DialInv
  <2>2. CASE ~GiveUp(t)
    BY <2>2
    DEF SetupStep, RequestPort, PrepareInvite, SendInvite, TimedOut, Abandon,
        Progress, Challenged, Final, Returns, portVars
  <2> QED
    BY <2>1, <2>2
<1>4. \A c \in Calls : pending'[c].kind # "ok"
  <2>1. CASE Progress(t) \/ Final(t)
    <3>1. PICK k \in {"ringing", "reject"} : Returns(t, k)
      BY <2>1 DEF Progress, Final, Arrives
    <3>2. pending' = [pending EXCEPT ![dial[t]] = [kind |-> k,
                                                   seq |-> sent[dial[t]]]]
      BY <3>1 DEF Returns
    <3> QED
      BY <1>0, <3>2 DEF NoMediaInv, TypeOK
  <2>2. CASE Abandon(t)
    <3>1. pending' = [pending EXCEPT ![dial[t]] = Nothing]
      BY <2>2 DEF Abandon
    <3> QED
      BY <1>0, <3>1 DEF NoMediaInv, TypeOK, Nothing
  <2>3. CASE ~Progress(t) /\ ~Final(t) /\ ~Abandon(t)
    <3>1. pending' = pending
      BY <2>3
      DEF SetupStep, RequestPort, PrepareInvite, SendInvite, TimedOut, GiveUp,
          Challenged, setupVars
    <3> QED
      BY <3>1 DEF NoMediaInv
  <2> QED
    BY <2>1, <2>2, <2>3
<1>5. \A c \in Calls : assigned'[c] => c \notin freed' /\ state'[c] # "NONE"
  BY <1>0, <1>2, <1>3 DEF NoMediaInv
<1> QED
  BY <1>1, <1>4, <1>5 DEF NoMediaInv, Quiet, MediaLabels

(* and after every other step.                                             *)
LEMMA OtherNoMedia ==
    ASSUME IInv, PortInv, NoMediaInv, "ok" \notin Kinds, NEW t \in Threads,
           \/ Reclaim(t) \/ Create(t) \/ LeaveCreation(t) \/ Replay(t)
           \/ Read(t) \/ ReadBye(t)
           \/ \E c \in Calls : Dial(t, c) \/ Cancel(t, c) \/ Hangup(t, c)
    PROVE  NoMediaInv'
<1>0. TypeOK /\ LockInv(t) /\ DialInv(t) /\ Quiet(t)
  BY DEF IInv, NoMediaInv, Quiet, MediaLabels
<1>1. freed' = freed
  BY DEF Reclaim, Create, LeaveCreation, Replay, Read, ReadBye, Dial, Cancel,
         Hangup, portVars
<1>2. \A u \in Threads : Quiet(u)'
  <2>1. ASSUME NEW r \in {"reclaim", "bye", "failed", "cancel", "hangup"},
               NEW l \in {"fin", "media", "stale"}, NEW c, NEW n,
               Enter(t, r, l, c, n)
        PROVE  \A u \in Threads : Quiet(u)'
    BY <1>0, <2>1 DEF Enter, Go, TypeOK, NoMediaInv, Quiet, MediaLabels
  <2>2. CASE Reclaim(t) \/ ReadBye(t)
             \/ \E c \in Calls : Cancel(t, c) \/ Hangup(t, c)
    BY <2>1, <2>2 DEF Reclaim, ReadBye, Cancel, Hangup
  <2>3. CASE Replay(t)
    <3>1. CASE Done(t, TRUE)
      <4>1. Others(t) /\ pc'[t] \in {"wait", "port", "idle"}
            /\ routine'[t] = "none"
        BY <1>0, <3>1, DoneFacts DEF Others
      <4>2. Quiet(t)'
        BY <4>1 DEF Quiet, MediaLabels
      <4> QED
        BY <4>1, <4>2, QuietStays
    <3>2. dial[t] \in Calls
      BY <2>3, LeavingPlace DEF Replay
    <3>3. pending[dial[t]].kind # "ok"
      BY <3>2 DEF NoMediaInv
    <3> QED
      BY <2>1, <2>3, <3>1, <3>3 DEF Replay
  <2>4. CASE Read(t)
    <3>1. UNCHANGED <<pc, routine>>
          \/ \E c, n : Enter(t, "failed", "stale", c, n)
      BY <2>4 DEF Read, frameVars
    <3>2. CASE UNCHANGED <<pc, routine>>
      BY <3>2 DEF NoMediaInv, Quiet, MediaLabels
    <3> QED
      BY <2>1, <3>1, <3>2
  <2>5. CASE Create(t) \/ LeaveCreation(t) \/ \E c \in Calls : Dial(t, c)
    <3>1. PICK l \in {"leave", "idle", "replay", "port"} :
              Go(t, l) /\ routine' = routine
      BY <2>5 DEF Create, LeaveCreation, Dial, frameVars
    <3> QED
      BY <1>0, <3>1 DEF Go, TypeOK, NoMediaInv, Quiet, MediaLabels
  <2> QED
    BY <2>2, <2>3, <2>4, <2>5
<1>3. \A c \in Calls : pending'[c].kind # "ok"
  <2>1. pending' = pending \/ pending' = [pending EXCEPT ![dial[t]] = Nothing]
    BY DEF Reclaim, Create, LeaveCreation, Replay, Read, ReadBye, Dial, Cancel,
           Hangup, setupVars
  <2>2. pending \in [Calls -> Responses] /\ Nothing.kind # "ok"
    BY <1>0 DEF TypeOK, Nothing
  <2>3. \A c \in Calls : pending'[c] \in {pending[c], Nothing}
    BY <2>1, <2>2
  <2> QED
    BY <2>2, <2>3 DEF NoMediaInv
<1>4. \A c \in Calls : assigned'[c] => c \notin freed' /\ state'[c] # "NONE"
  <2>1. CASE Create(t)
    <3>1. /\ pc[t] \in SetupLabels /\ pc[t] \in CallLabels
          /\ state' = [state EXCEPT ![dial[t]] = "DIALING"]
          /\ assigned' = [assigned EXCEPT ![dial[t]] = TRUE]
      BY <2>1 DEF Create, SetupLabels, CallLabels
    <3>2. dial[t] # None /\ dial[t] \in Calls /\ dial[t] \notin freed
      BY <1>0, <3>1 DEF DialInv, InSetup, PortInv, SetupPort, TypeOK
    <3>3. ASSUME NEW c \in Calls, c # dial[t]
          PROVE  state'[c] = state[c] /\ assigned'[c] = assigned[c]
      BY <1>0, <3>1, <3>3 DEF TypeOK
    <3>4. state'[dial[t]] = "DIALING"
      BY <1>0, <3>1, <3>2 DEF TypeOK
    <3> QED
      BY <1>1, <3>2, <3>3, <3>4 DEF NoMediaInv
  <2>2. CASE ~Create(t)
    <3>1. assigned' = assigned
      BY <2>2 DEF Reclaim, LeaveCreation, Replay, Read, ReadBye, Dial, Cancel,
         Hangup, portVars
    <3>2. \A c \in Calls : state'[c] = "NONE" => state[c] = "NONE"
      <4>1. CASE UNCHANGED state \/ \E c \in Calls : Ring(c)
        BY <4>1, RingKeeps
      <4>2. CASE \E c \in Calls : state' = [state EXCEPT ![c] = "ENDED"]
        BY <1>0, <4>2 DEF TypeOK
      <4>3. CASE Replay(t)
        <5>1. dial[t] \in Calls
          BY <4>3, LeavingPlace DEF Replay
        <5> QED
          BY <4>1, <4>3, <5>1 DEF Replay
      <4> QED
        BY <2>2, <4>1, <4>2, <4>3
        DEF Reclaim, LeaveCreation, Read, ReadBye, Dial, Cancel, Hangup,
            lifeVars
    <3> QED
      BY <1>1, <3>1, <3>2 DEF NoMediaInv
  <2> QED
    BY <2>1, <2>2
<1> QED
  BY <1>2, <1>3, <1>4 DEF NoMediaInv, Quiet, MediaLabels

(* Then assignedPorts of a released call is never filled again,            *)
LEMMA NoMediaNext ==
    "ok" \notin Kinds /\ IInv /\ PortInv /\ NoMediaInv /\ [Next]_vars
        => NoMediaInv'
<1> SUFFICES ASSUME "ok" \notin Kinds, IInv, PortInv, NoMediaInv, [Next]_vars
             PROVE  NoMediaInv'
  OBVIOUS
<1>1. ASSUME NEW t \in Threads, Step(t) \/ Hearing(t)
      PROVE  NoMediaInv'
  BY <1>1, HandlerNoMedia, SetupNoMedia, OtherNoMedia
  DEF Step, Calling, Hearing, SetupStep
<1>2. ASSUME NEW t \in Threads, NEW c \in Calls,
             Dial(t, c) \/ Cancel(t, c) \/ Hangup(t, c)
      PROVE  NoMediaInv'
  BY <1>2, OtherNoMedia
<1>3. ASSUME NEW c \in Calls, Collect(c) PROVE NoMediaInv'
  BY <1>3 DEF Collect, PortInv, ObjectPort, NoMediaInv
<1>4. CASE UNCHANGED vars
  BY <1>4 DEF vars, lifeVars, portVars, setupVars, frameVars, NoMediaInv
<1> QED
  BY <1>1, <1>2, <1>3, <1>4 DEF Next

LEMMA NeverRefilled ==
    ASSUME "ok" \notin Kinds
    PROVE  Spec => []NoneRefilled
<1>1. Init => NoMediaInv
  BY DEF Init, NoMediaInv, Nothing
<1>2. IInv /\ NoMediaInv => NoneRefilled
  BY DEF NoMediaInv, NoneRefilled, IInv, TypeOK
<1>3. IInv /\ PortInv /\ NoMediaInv /\ [Next]_vars => PortInv' /\ NoMediaInv'
  BY <1>2, PortsNext, NoMediaNext
<1> QED
  BY <1>1, <1>2, <1>3, PortsInit, Invariance, PTL DEF Spec

(* and a phone whose calls are never answered loses no port, whatever else *)
(* goes wrong: failures, challenges, timeouts, cancel(), call() that fails *)
(* or that reclaims the port of an ended call.                             *)
THEOREM UnansweredPortsAreHeld ==
    ASSUME "ok" \notin Kinds
    PROVE  Spec => []HeldPortsReserved
  BY NeverRefilled, PortsAreHeld, PTL

----------------------------------------------------------------------------
(* The refinement of CallLifecycle *)

PhaseOf(c) == IF state[c] = "DIALING" THEN "RINGING" ELSE state[c]
Held(c) == IF state[c] = "NONE" THEN None ELSE Holds(c)

(* What neither moves a call to another phase nor moves its port stutters. *)
LEMMA Stutters ==
    ASSUME \A c \in Calls : PhaseOf(c)' = PhaseOf(c) /\ Held(c)' = Held(c)
    PROVE  UNCHANGED Lifecycle!vars
  BY DEF Lifecycle!vars, PhaseOf, Held

(* So does a step that leaves the states alone and moves the port of a     *)
(* call() without an object at most.                                       *)
LEMMA SameStates ==
    ASSUME UNCHANGED state,
           \A c \in Calls : state[c] # "NONE" =>
               port'[c] = port[c] /\ (c \in freed' <=> c \in freed)
    PROVE  UNCHANGED Lifecycle!vars
  BY Stutters DEF PhaseOf, Held, Holds

(* Create builds the call, with a port nobody else holds.                  *)
LEMMA CreateBuilds ==
    ASSUME IInv, PortInv, NEW t \in Threads, Create(t)
    PROVE  Lifecycle!Next
<1>0. /\ TypeOK /\ DialInv(t) /\ pc[t] = "create"
      /\ state' = [state EXCEPT ![dial[t]] = "DIALING"]
      /\ UNCHANGED <<port, freed>>
  BY DEF IInv, Create
<1>1. pc[t] \in SetupLabels /\ pc[t] \in CallLabels /\ pc[t] \notin HandlerLabels
  BY <1>0 DEF HandlerLabels, CallLabels, SetupLabels
<1>2. dial[t] # None /\ dial[t] \in Calls /\ InSetup(t) /\ routine[t] = "none"
  BY <1>0, <1>1, OutsideHandlers DEF DialInv, TypeOK
<1>3. PICK c \in Calls : c = dial[t]
  BY <1>2
<1>4. /\ state[c] = "NONE" /\ c \notin freed
      /\ port[c] # None /\ port[c] \in Ports
  BY <1>0, <1>2, <1>3 DEF DialInv, PortInv, SetupPort, Portless, TypeOK
<1>5. PICK p \in Ports : p = port[c]
  BY <1>4
<1>6. Holds(c) = p /\ p # None
  BY <1>4, <1>5 DEF Holds
<1>7. \A d \in Calls : state'[d] = IF d = c THEN "DIALING" ELSE state[d]
  BY <1>0, <1>3 DEF TypeOK
<1>8. \A d \in Calls : Holds(d)' = Holds(d)
  BY <1>0 DEF Holds
<1>9. \A d \in Calls : Held(d) # p
  BY <1>4, <1>6 DEF PortInv, HeldPortsReserved, Held
<1>10. \A d \in Calls :
          /\ PhaseOf(d)' = IF d = c THEN "RINGING" ELSE PhaseOf(d)
          /\ Held(d)' = IF d = c THEN p ELSE Held(d)
  BY <1>6, <1>7, <1>8 DEF PhaseOf, Held
<1>11. PhaseOf(c) = "NONE"
  BY <1>4 DEF PhaseOf
<1>12. Lifecycle!Build(c, p)
  BY <1>9, <1>10, <1>11 DEF Lifecycle!Build, PhaseOf, Held
<1> QED
  BY <1>12 DEF Lifecycle!Next

(* Release gives the port back, once.                                      *)
LEMMA ReleaseReleases ==
    ASSUME IInv, PortInv, NEW t \in Threads, Release(t)
    PROVE  Lifecycle!Next
<1>0. /\ TypeOK /\ FrameInv(t) /\ pc[t] = "release"
      /\ UNCHANGED <<state, port>> /\ freed' = freed \cup {cur[t]}
  BY DEF IInv, Release, lifeVars
<1>1. cur[t] \in Calls /\ state[cur[t]] # "NONE"
  BY <1>0 DEF FrameInv, ObjectLabels, HandlerLabels, CallLabels, SetupLabels,
     Labels
<1>2. PICK c \in Calls : c = cur[t]
  BY <1>1
<1>3. c \notin freed /\ port[c] # None
  BY <1>0, <1>1, <1>2 DEF PortInv, ReleaseInv, Releasing, ObjectPort
<1>4. Held(c) # None
  BY <1>1, <1>2, <1>3 DEF Held, Holds
<1>5. \A d \in Calls : /\ PhaseOf(d)' = PhaseOf(d)
                       /\ Held(d)' = IF d = c THEN None ELSE Held(d)
  BY <1>0, <1>2 DEF PhaseOf, Held, Holds
<1>6. Lifecycle!Release(c)
  BY <1>4, <1>5 DEF Lifecycle!Release, PhaseOf, Held
<1> QED
  BY <1>6 DEF Lifecycle!Next

(* The call that a thread commits is accepted, unless it has ended.        *)
LEMMA CommitAccepts ==
    ASSUME IInv, NEW t \in Threads, Commit(t)
    PROVE  Lifecycle!Next \/ UNCHANGED Lifecycle!vars
<1>0. /\ TypeOK /\ FrameInv(t) /\ pc[t] = "commit"
      /\ \/ UNCHANGED state
         \/ /\ state[cur[t]] # "ENDED"
            /\ state' = [state EXCEPT ![cur[t]] = "ANSWERED"]
      /\ UNCHANGED <<port, freed>>
  BY DEF IInv, Commit, portVars
<1>1. cur[t] \in Calls /\ state[cur[t]] # "NONE"
  BY <1>0 DEF FrameInv, ObjectLabels, HandlerLabels, CallLabels, SetupLabels,
     Labels
<1>2. PICK c \in Calls : c = cur[t]
  BY <1>1
<1>3. CASE UNCHANGED state
  BY <1>0, <1>3, SameStates
<1>4. CASE state[c] # "ENDED" /\ state' = [state EXCEPT ![c] = "ANSWERED"]
  <2>1. PhaseOf(c) \in {"RINGING", "ANSWERED"}
    BY <1>0, <1>1, <1>2, <1>4 DEF PhaseOf, TypeOK
  <2>2. \A d \in Calls : state'[d] = IF d = c THEN "ANSWERED" ELSE state[d]
    BY <1>0, <1>4 DEF TypeOK
  <2>3. \A d \in Calls :
            /\ PhaseOf(d)' = IF d = c THEN "ANSWERED" ELSE PhaseOf(d)
            /\ Held(d)' = Held(d)
    BY <1>0, <1>1, <1>2, <2>2 DEF PhaseOf, Held, Holds
  <2>4. CASE PhaseOf(c) = "RINGING"
    <3>1. Lifecycle!Accept(c)
      BY <2>3, <2>4 DEF Lifecycle!Accept, PhaseOf, Held
    <3> QED
      BY <3>1 DEF Lifecycle!Next
  <2>5. CASE PhaseOf(c) = "ANSWERED"
    BY <2>3, <2>5, Stutters
  <2> QED
    BY <2>1, <2>4, <2>5
<1> QED
  BY <1>0, <1>2, <1>3, <1>4

(* A call that is marked as ended ends, unless it has ended before.        *)
LEMMA MarkingEnds ==
    ASSUME IInv, NEW c \in Calls, state[c] # "NONE",
           state' = [state EXCEPT ![c] = "ENDED"], UNCHANGED <<port, freed>>
    PROVE  Lifecycle!Next \/ UNCHANGED Lifecycle!vars
<1>0. TypeOK
  BY DEF IInv
<1>1. PhaseOf(c) \in {"RINGING", "ANSWERED", "ENDED"}
  BY <1>0 DEF PhaseOf, TypeOK
<1>2. \A d \in Calls : state'[d] = IF d = c THEN "ENDED" ELSE state[d]
  BY <1>0 DEF TypeOK
<1>3. \A d \in Calls : /\ PhaseOf(d)' = IF d = c THEN "ENDED" ELSE PhaseOf(d)
                       /\ Held(d)' = Held(d)
  BY <1>2 DEF PhaseOf, Held, Holds
<1>4. CASE PhaseOf(c) \in {"RINGING", "ANSWERED"}
  <2>1. Lifecycle!End(c)
    BY <1>3, <1>4 DEF Lifecycle!End, PhaseOf, Held
  <2> QED
    BY <2>1 DEF Lifecycle!Next
<1>5. CASE PhaseOf(c) = "ENDED"
  BY <1>3, <1>5, Stutters
<1> QED
  BY <1>1, <1>4, <1>5

(* A 18x changes no phase: the phase of an outgoing call is RINGING from   *)
(* its first INVITE on.                                                    *)
LEMMA RingStutters ==
    ASSUME IInv, NEW c \in Calls, Ring(c), UNCHANGED <<port, freed>>
    PROVE  UNCHANGED Lifecycle!vars
<1>0. TypeOK
  BY DEF IInv
<1>1. \A d \in Calls : state'[d] = state[d]
                       \/ (state[d] = "DIALING" /\ state'[d] = "RINGING")
  BY <1>0 DEF Ring, TypeOK
<1> QED
  BY <1>1, Stutters DEF PhaseOf, Held, Holds

(* Every other step of a thread stutters.                                  *)
LEMMA QuietStutters ==
    ASSUME IInv, NEW t \in Threads, Step(t) \/ Hearing(t), ~Writes(t),
           ~Release(t)
    PROVE  UNCHANGED Lifecycle!vars
<1>1. UNCHANGED state
  BY OthersWriteNothing
<1>2. CASE Handling(t) \/ Ending(t)
  <2>1. port' = port
    BY <1>2, HandlerSteady DEF Steady
  <2>2. freed' = freed
    BY <1>2, HandlerLeavesPorts DEF Finishes, Finalize, Remove, portVars
  <2> QED
    BY <1>1, <2>1, <2>2, SameStates
<1>3. CASE SetupStep(t)
  <2>1. /\ DialInv(t) /\ pc[t] \in SetupLabels /\ dial[t] \in Calls
        /\ \A c \in Calls : c # dial[t] => port'[c] = port[c]
    BY <1>3, SetupPlace, SetupMoves
  <2>2. state[dial[t]] = "NONE"
    BY <2>1, ConstantsAssumption DEF DialInv, InSetup
  <2>3. freed' = freed \/ freed' = freed \cup {dial[t]}
    BY <1>3
    DEF SetupStep, RequestPort, PrepareInvite, SendInvite, TimedOut, Abandon,
        GiveUp, Progress, Challenged, Final, Returns, portVars
  <2> QED
    BY <1>1, <2>1, <2>2, <2>3, SameStates
<1>4. CASE Reclaim(t) \/ LeaveCreation(t) \/ ReadBye(t)
  <2>1. UNCHANGED <<port, freed>>
    BY <1>4 DEF Reclaim, LeaveCreation, ReadBye, portVars
  <2> QED
    BY <1>1, <2>1, SameStates
<1> QED
  BY <1>2, <1>3, <1>4 DEF Step, Calling, Hearing, SetupStep, Writes

(* Every step is one of CallLifecycle, or a stutter.                       *)
LEMMA LifecycleStep ==
    IInv /\ PortInv /\ NoneRefilled /\ [Next]_vars
        => [Lifecycle!Next]_Lifecycle!vars
<1> SUFFICES ASSUME IInv, PortInv, NoneRefilled, [Next]_vars
             PROVE  Lifecycle!Next \/ UNCHANGED Lifecycle!vars
  OBVIOUS
<1>1. ASSUME NEW t \in Threads, NEW c \in Calls, Cancel(t, c)
      PROVE  Lifecycle!Next \/ UNCHANGED Lifecycle!vars
  BY <1>1, MarkingEnds DEF Cancel, portVars
<1>2. ASSUME NEW t \in Threads, Step(t) \/ Hearing(t)
      PROVE  Lifecycle!Next \/ UNCHANGED Lifecycle!vars
  <2>1. CASE Create(t) \/ Release(t) \/ Commit(t)
    BY <2>1, CreateBuilds, ReleaseReleases, CommitAccepts
  <2>2. CASE SetEnded(t)
    <3>1. FrameInv(t)
      BY DEF IInv
    <3>2. cur[t] \in Calls /\ state[cur[t]] # "NONE"
      BY <2>2, <3>1 DEF SetEnded, FrameInv, ObjectLabels, HandlerLabels,
         CallLabels, SetupLabels, Labels
    <3> QED
      BY <2>2, <3>2, MarkingEnds DEF SetEnded, portVars
  <2>3. CASE Replay(t)
    <3>1. dial[t] \in Calls /\ UNCHANGED <<port, freed>>
      BY <2>3, LeavingPlace DEF Replay, portVars
    <3>2. Ring(dial[t]) \/ UNCHANGED state
      BY <2>3 DEF Replay
    <3> QED
      BY <3>1, <3>2, RingStutters, SameStates
  <2>4. CASE Read(t)
    <3>1. UNCHANGED <<port, freed>>
      BY <2>4 DEF Read, portVars
    <3>2. UNCHANGED state \/ \E c \in Calls : Ring(c)
      BY <2>4 DEF Read
    <3> QED
      BY <3>1, <3>2, RingStutters, SameStates
  <2>5. CASE \E c \in Calls : Cancel(t, c)
    BY <1>1, <2>5
  <2>6. CASE ~Writes(t) /\ ~Release(t)
    BY <1>2, <2>6, QuietStutters
  <2> QED
    BY <2>1, <2>2, <2>3, <2>4, <2>5, <2>6 DEF Writes
<1>3. ASSUME NEW t \in Threads, NEW c \in Calls, Dial(t, c) \/ Hangup(t, c)
      PROVE  UNCHANGED Lifecycle!vars
  BY <1>3, SameStates DEF Dial, Hangup, lifeVars, portVars
<1>4. ASSUME NEW c \in Calls, Collect(c) PROVE UNCHANGED Lifecycle!vars
  BY <1>4, SameStates DEF Collect, lifeVars
<1>5. CASE UNCHANGED vars
  BY <1>5, SameStates DEF vars, lifeVars, portVars
<1> QED
  BY <1>1, <1>2, <1>3, <1>4, <1>5 DEF Next

(* The phases and ports of outgoing calls are those of CallLifecycle, under *)
(* the same condition: a call is built once with a port of its own, moves   *)
(* forward and gives its port back once.                                    *)
THEOREM Refinement == Spec /\ []NoneRefilled => ImplementsLifecycle
<1>1. Init => Lifecycle!Init
  BY DEF Init, Lifecycle!Init
<1>2. IInv /\ PortInv /\ NoneRefilled /\ [Next]_vars => PortInv'
  BY PortsNext
<1> QED
  BY <1>1, <1>2, PortsInit, LifecycleStep, Invariance, PTL
  DEF Spec, ImplementsLifecycle, Lifecycle!Spec
=============================================================================
