------------------------- MODULE InboundCallProofs -------------------------
(***************************************************************************)
(* Proofs about InboundCall, for every number of threads, calls, INVITEs   *)
(* and ports, and for every set of faults.                                 *)
(*                                                                         *)
(* IInv is shown inductive conjunct by conjunct: one lemma per conjunct,   *)
(* with one step per action under it.  The invariants follow from IInv,    *)
(* and the refinement of CallLifecycle from IInv and LifecycleStep.        *)
(*                                                                         *)
(* The second half is about the registry and the response cache: the tag   *)
(* of a Call-ID is that of its registered call, and the INVITE of a call   *)
(* that has ended is answered from the cache once nobody works on the      *)
(* call.  RegistryInv is inductive on top of IInv.                         *)
(***************************************************************************)
EXTENDS InboundCall, TLAPS

----------------------------------------------------------------------------
(* Control flow and the pool *)

(* Putting a value of its type into a function keeps the function's type.  *)
LEMMA PutType ==
    ASSUME NEW S, NEW T, NEW f \in [S -> T], NEW x, NEW v \in T
    PROVE  [f EXCEPT ![x] = v] \in [S -> T]
OBVIOUS

(* The control flow of a routine only leads to labels of the model.        *)
LEMMA AfterType ==
    ASSUME NEW r \in Routines, NEW l \in Labels, NEW k \in Codes,
           NEW stop \in BOOLEAN
    PROVE  After(r, l, k, stop) \in Labels
BY DEF After, Tail, Reject, Labels, Routines

(* Starting a routine gives the thread a well-typed frame.                 *)
LEMMA EnterType ==
    ASSUME FrameType, NEW t \in Threads, NEW r \in Routines,
           NEW c \in Calls \cup {None}, NEW l \in Labels, NEW k \in Codes,
           Enter(t, r, c, l, k)
    PROVE  FrameType'
<1>1. pc' \in [Threads -> Labels]
  BY DEF Enter, Go, FrameType
<1>2. routine' \in [Threads -> Routines]
  BY DEF Enter, FrameType
<1>3. cur' \in [Threads -> Calls \cup {None}]
  BY DEF Enter, FrameType
<1>4. code' \in [Threads -> Codes]
  BY DEF Enter, FrameType
<1> QED BY <1>1, <1>2, <1>3, <1>4 DEF FrameType

(* So does moving on within a routine,                                     *)
LEMMA GoType ==
    ASSUME FrameType, NEW t \in Threads, NEW l \in Labels, Go(t, l),
           UNCHANGED frameVars
    PROVE  FrameType'
<1>1. pc' \in [Threads -> Labels]
  BY DEF Go, FrameType
<1> QED BY <1>1 DEF FrameType, frameVars

(* reaching a label that may end the routine,                              *)
LEMMA ReachType ==
    ASSUME FrameType, NEW t \in Threads, NEW l \in Labels, Reach(t, l)
    PROVE  FrameType'
<1>1. "none" \in Routines /\ 0 \in Codes
  BY DEF Routines, Codes
<1> QED BY <1>1, EnterType, GoType DEF Reach

(* and the step that follows in the text of a routine.                     *)
LEMMA AdvanceType ==
    ASSUME TypeOK, NEW t \in Threads, Advance(t)
    PROVE  FrameType'
<1>1. After(routine[t], pc[t], code[t], stopping[t]) \in Labels
  <2>1. routine[t] \in Routines /\ pc[t] \in Labels /\ code[t] \in Codes /\ stopping[t] \in BOOLEAN
    BY DEF TypeOK, FrameType, LoopType
  <2> QED BY <2>1, AfterType
<1> QED BY <1>1, ReachType DEF TypeOK, Advance

(* A port taken from the free ones keeps the books of the pool:            *)
(* request_ports hands out a port nobody holds to a call that holds none.  *)
LEMMA TakePort ==
    ASSUME TypeOK, HeldPortsReserved, building \in Calls, ~assigned[building],
           NEW p \in Ports, p \notin pool, Take(p)
    PROVE  HeldPortsReserved'
<1>1. Holding' = Holding \cup {building} /\ building \notin Holding
  BY DEF Take, Holding, TypeOK, CallType
<1>2. \A c \in Holding : inPort'[c] = inPort[c] /\ inPort[c] \in pool
  BY DEF Take, Holding, TypeOK, CallType, HeldPortsReserved
<1>3. inPort'[building] = p /\ pool' = pool \cup {p}
  BY DEF Take, TypeOK, CallType
<1>4. \A q : q \in pool' <=> \E c \in Holding' : q = inPort'[c]
  <2>1. \A q : q \in pool <=> \E c \in Holding : q = inPort[c]
    BY DEF HeldPortsReserved
  <2> QED BY <1>1, <1>2, <1>3, <2>1
<1>5. pool' = {inPort'[c] : c \in Holding'}
  BY <1>4
<1>6. \A c, d \in Holding' : inPort'[c] = inPort'[d] => c = d
  BY <1>1, <1>2, <1>3 DEF HeldPortsReserved
<1> QED
  BY <1>5, <1>6 DEF HeldPortsReserved

(* What Send adds to the responses of a call: the 200 of an accepted call, *)
(* or something else for a call that cannot be accepted any more.          *)
LEMMA SendDecision ==
    ASSUME IInv, NEW t \in Threads, Send(t), NEW c \in Calls, NEW k \in sent'[c]
    PROVE  \/ k \in sent[c]
           \/ k = 200 /\ initial[c] = 200
           \/ k # 200 /\ Unanswerable(c)
<1>1. CASE sent' = sent
  BY <1>1
<1>2. CASE /\ routine[t] \notin {"reply", "replay"}
           /\ code[t] >= 200
           /\ sent' = [sent EXCEPT ![Requested(t)] = @ \cup {code[t]}]
  <2>1. sent \in [Calls -> SUBSET Codes]
    BY DEF IInv, TypeOK, CallType
  <2>2. CASE c # Requested(t)
    BY <1>2, <2>1, <2>2
  <2>3. CASE c = Requested(t)
    <3>1. k \in sent[c] \/ k = code[t]
      BY <1>2, <2>1, <2>3
    <3>2. routine[t] \in SendRoutines
      BY DEF Send, IInv, FrameInv
    <3>3. /\ routine[t] = "answer" =>
               code[t] = 0 \/ (code[t] = 200 /\ initial[cur[t]] = 200)
          /\ routine[t] \in {"deny", "cancelled", "undispatched"} =>
               code[t] # 200 /\ Unanswerable(cur[t])
          /\ routine[t] \in {"lost", "refuse"} =>
               code[t] # 200 /\ Unanswerable(building)
          /\ routine[t] = "ringing" => code[t] = 180
      BY DEF IInv, DecisionInv, DecidingInv
    <3>4. \/ code[t] = 200 /\ initial[c] = 200
          \/ code[t] # 200 /\ Unanswerable(c)
      BY <1>2, <2>3, <3>2, <3>3 DEF SendRoutines, Requested
    <3> QED
      BY <3>1, <3>4
  <2> QED
    BY <2>2, <2>3
<1> QED
  BY <1>1, <1>2 DEF Send

(* Steps that neither raise nor lower the flag of a call.                  *)
LEMMA AnswerKept ==
    ASSUME IInv, UNCHANGED answering,
           \A c \in Calls : handed[c] => handed'[c],
           \A t \in Threads : routine'[t] \in {"answer", "abort"} =>
               routine[t] \in {"answer", "abort"} /\ cur'[t] = cur[t]
    PROVE  AnswerInv'
<1>1. AnswerInv
  BY DEF IInv
<1>2. \A t \in Threads : routine[t] \in {"answer", "abort"} => cur[t] \in Calls
  BY DEF IInv, FrameInv, CallRoutines
<1>3. AnswerExclusive'
  BY <1>1 DEF AnswerInv, AnswerExclusive, AnswersCall
<1> QED
  BY <1>1, <1>2, <1>3 DEF AnswerInv

----------------------------------------------------------------------------
(* Every step keeps every conjunct of IInv *)

(* What the steps of the end of a call write keeps the type of the calls,  *)
LEMMA EndingTypes ==
    ASSUME CallType, NEW t \in Threads,
           StopMedia(t) \/ SetEnded(t) \/ Finalize(t) \/ Release(t)
    PROVE  CallType'
<1>1. CASE SetEnded(t)
  <2>1. state' \in [Calls -> States]
    <3>1. state \in [Calls -> States] /\ "ENDED" \in States
      BY DEF CallType, States
    <3> QED
      BY <1>1, <3>1, PutType DEF SetEnded
  <2>2. UNCHANGED <<answering, initial, finalized, mediaVars, frontVars>>
    BY <1>1 DEF SetEnded
  <2> QED
    BY <2>1, <2>2 DEF CallType, mediaVars, frontVars
<1>2. CASE Finalize(t)
  <2>1. finalized' \in [Calls -> BOOLEAN]
    BY <1>2, PutType DEF Finalize, CallType
  <2>2. UNCHANGED <<state, answering, initial, mediaVars, frontVars>>
    BY <1>2 DEF Finalize
  <2> QED
    BY <2>1, <2>2 DEF CallType, mediaVars, frontVars
<1>3. CASE Release(t)
  <2>1. assigned' \in [Calls -> BOOLEAN]
    BY <1>3, PutType DEF Release, CallType
  <2>2. cb' \in [Calls -> {"none", "started", "running", "done", "reaped"}]
    BY <1>3 DEF Release, CleanupDead, CallType
  <2>3. UNCHANGED <<lifeVars, inv, inPort, running, handed, sent>>
    BY <1>3 DEF Release
  <2> QED
    BY <2>1, <2>2, <2>3 DEF CallType, lifeVars
<1>4. CASE StopMedia(t)
  <2>1. running' \in [Calls -> BOOLEAN]
    BY <1>4, PutType DEF StopMedia, CallType
  <2>2. UNCHANGED <<lifeVars, inv, inPort, assigned, frontVars>>
    BY <1>4 DEF StopMedia
  <2> QED
    BY <2>1, <2>2 DEF CallType, lifeVars, frontVars
<1> QED
  BY <1>1, <1>2, <1>3, <1>4

(* and so does what _finish_rtp_setup writes with the port it took.        *)
LEMMA TakeTypes ==
    ASSUME CallType, NEW p \in Ports, Take(p)
    PROVE  CallType'
<1>1. inPort' \in [Calls -> Ports \cup {None}]
  BY PutType DEF Take, CallType
<1>2. assigned' \in [Calls -> BOOLEAN]
  BY PutType DEF Take, CallType
<1>3. state' \in [Calls -> States]
  <2>1. state \in [Calls -> States] /\ "RINGING" \in States
    BY DEF CallType, States
  <2> QED
    BY <2>1, PutType DEF Take
<1>4. UNCHANGED <<answering, initial, finalized, inv, running, frontVars>>
  BY DEF Take
<1> QED
  BY <1>1, <1>2, <1>3, <1>4 DEF CallType, frontVars

(* Steps keep the variables of the calls well-typed.                       *)
LEMMA CallTypeStep ==
    ASSUME IInv, [Next]_vars
    PROVE  CallType'
<1> USE ConstantsAssumption
       DEF IInv, TypeOK, CallType, PhoneType, FrameType, LoopType, States,
       Codes, Threads,
          lifeVars, mediaVars, frontVars, registryVars, poolVars, frameVars,
          loopVars, recvVars
<1>1. ASSUME NEW t \in Threads, StopMedia(t) PROVE CallType'
  BY <1>1, EndingTypes
<1>2. ASSUME NEW t \in Threads, SetEnded(t) PROVE CallType'
  BY <1>2, EndingTypes
<1>3. ASSUME NEW t \in Threads, Finalize(t) PROVE CallType'
  BY <1>3, EndingTypes
<1>4. ASSUME NEW t \in Threads, Release(t) PROVE CallType'
  BY <1>4, EndingTypes
<1>5. ASSUME NEW t \in Threads, Remove(t) PROVE CallType'
  BY <1>5 DEF Remove
<1>6. ASSUME NEW t \in Threads, Remember(t) PROVE CallType'
  BY <1>6 DEF Remember, Key
<1>7. ASSUME NEW t \in Threads, Send(t) PROVE CallType'
  <2>1. sent' \in [Calls -> SUBSET Codes]
    BY <1>7 DEF Send, Requested, Enter, Go
  <2> QED
    BY <1>7, <2>1 DEF Send, Requested, Enter, Go
<1>8. ASSUME NEW t \in Threads, SendBye(t) PROVE CallType'
  BY <1>8 DEF SendBye
<1>9. ASSUME NEW t \in Apps, Prepare(t) PROVE CallType'
  <2>1. CASE UNCHANGED running
    BY <1>9, <2>1 DEF Prepare
  <2>2. CASE running' = [running EXCEPT ![cur[t]] = TRUE]
    <3>1. running' \in [Calls -> BOOLEAN]
      <4>1. running \in [Calls -> BOOLEAN]
        OBVIOUS
      <4> HIDE DEF IInv, TypeOK, CallType
      <4> QED
        BY <2>2, <4>1, PutType
    <3> QED
      BY <1>9, <3>1 DEF Prepare
  <2> QED
    BY <1>9, <2>1, <2>2 DEF Prepare
<1>10. ASSUME NEW t \in Apps, Commit(t) PROVE CallType'
  BY <1>10 DEF Commit, Abort
<1>11. ASSUME NEW t \in Apps, Check(t) PROVE CallType'
  BY <1>11 DEF Check
<1>12. ASSUME NEW t \in Apps, Keep(t) PROVE CallType'
  BY <1>12 DEF Keep
<1>13. ASSUME NEW t \in Apps, Unflag(t) PROVE CallType'
  <2>1. answering' \in [Calls -> BOOLEAN]
    BY <1>13, PutType DEF Unflag
  <2> QED
    BY <1>13, <2>1 DEF Unflag
<1>14. ASSUME NEW t \in Apps, StopNext(t) PROVE CallType'
  BY <1>14 DEF StopNext
<1>15. ASSUME NEW t \in Apps, StopRead2(t) PROVE CallType'
  BY <1>15 DEF StopRead2
<1>16. ASSUME NEW t \in Apps, StopRead3(t) PROVE CallType'
  BY <1>16 DEF StopRead3
<1>17. ASSUME NEW t \in Apps, StopHangup(t) PROVE CallType'
  BY <1>17 DEF StopHangup, HangupGuarded, Invalid
<1>18. ASSUME NEW t \in Apps, StopDeny(t) PROVE CallType'
  BY <1>18 DEF StopDeny, Decline, Invalid
<1>19. ASSUME NEW t \in Apps, StopForce(t) PROVE CallType'
  <2>1. running' \in [Calls -> BOOLEAN]
    BY <1>19, PutType DEF StopForce
  <2> QED
    BY <1>19, <2>1 DEF StopForce
<1>20. ASSUME NEW t \in Apps, StopReturn(t) PROVE CallType'
  BY <1>20 DEF StopReturn
<1>21. ASSUME Lookup PROVE CallType'
  BY <1>21 DEF Lookup, Unhandled
<1>22. ASSUME Retrans PROVE CallType'
  BY <1>22 DEF Retrans, Unhandled
<1>23. ASSUME Ring PROVE CallType'
  <2>1. inv' \in [Calls -> Invites \cup {None}]
    BY <1>23 DEF Ring
  <2> QED
    BY <1>23, <2>1 DEF Ring
<1>24. ASSUME Allocate PROVE CallType'
  <2>1. ASSUME NEW p \in FreePorts, Take(p) PROVE CallType'
    <3>1. CallType /\ p \in Ports
      BY DEF FreePorts
    <3> HIDE DEF IInv, TypeOK, CallType
    <3> QED
      BY <2>1, <3>1, TakeTypes
  <2>2. CASE Reclaim
    BY <2>2 DEF Reclaim
  <2> QED
    BY <1>24, <2>1, <2>2 DEF Allocate
<1>25. ASSUME ReclaimNext PROVE CallType'
  BY <1>25 DEF ReclaimNext
<1>26. ASSUME Reallocate PROVE CallType'
  <2>1. ASSUME NEW p \in FreePorts, Take(p) PROVE CallType'
    <3>1. CallType /\ p \in Ports
      BY DEF FreePorts
    <3> HIDE DEF IInv, TypeOK, CallType
    <3> QED
      BY <2>1, <3>1, TakeTypes
  <2>2. CASE Refuse
    <3>1. cb' \in [Calls -> {"none", "started", "running", "done", "reaped"}]
      BY <2>2 DEF Refuse, CleanupDead
    <3>2. state' \in [Calls -> States]
      BY <2>2, PutType DEF Refuse
    <3>3. finalized' \in [Calls -> BOOLEAN]
      BY <2>2, PutType DEF Refuse
    <3> QED
      BY <2>2, <3>1, <3>2, <3>3 DEF Refuse
  <2> QED
    BY <1>26, <2>1, <2>2 DEF Reallocate
<1>27. ASSUME Register PROVE CallType'
  BY <1>27 DEF Register
<1>28. ASSUME Dispatch PROVE CallType'
  BY <1>28 DEF Dispatch
<1>29. ASSUME Undispatch PROVE CallType'
  BY <1>29 DEF Undispatch, Unhandled
<1>30. ASSUME Discard PROVE CallType'
  BY <1>30 DEF Discard
<1>31. ASSUME Fail PROVE CallType'
  <2>1. sent' \in [Calls -> SUBSET Codes]
    BY <1>31 DEF Fail, Built
  <2> QED
    BY <1>31, <2>1 DEF Fail, Built
<1>32. ASSUME Cancel PROVE CallType'
  BY <1>32 DEF Cancel
<1>33. ASSUME Bye PROVE CallType'
  BY <1>33 DEF Bye, Unhandled
<1>34. ASSUME NEW t \in Apps, Stop(t) PROVE CallType'
  BY <1>34 DEF Stop, Idle, RegisteredCalls
<1>35. ASSUME NEW t \in Apps, NEW c \in Calls, Answer(t, c) PROVE CallType'
  BY <1>35 DEF Answer, Idle
<1>36. ASSUME NEW t \in Apps, NEW c \in Calls, Deny(t, c) PROVE CallType'
  BY <1>36 DEF Deny, Decline, Idle
<1>37. ASSUME NEW t \in Apps, NEW c \in Calls, Hangup(t, c) PROVE CallType'
  BY <1>37 DEF Hangup, HangupGuarded, Idle
<1>38. ASSUME NEW i \in Invites, RecvInvite(i) PROVE CallType'
  BY <1>38 DEF RecvInvite, Idle, Receive, Unhandled
<1>39. ASSUME NEW i \in Invites, RecvCancel(i) PROVE CallType'
  BY <1>39 DEF RecvCancel, Idle, Receive, Unhandled
<1>40. ASSUME NEW i \in Invites, NEW c \in Calls, RecvBye(i, c) PROVE CallType'
  BY <1>40 DEF RecvBye, Idle, Receive, Unhandled
<1>41. ASSUME NEW c \in Calls, CallbackRuns(c) PROVE CallType'
  <2>1. PICK v \in {"running", "done"} : cb' = [cb EXCEPT ![c] = v]
    BY <1>41 DEF CallbackRuns
  <2>2. cb' \in [Calls -> {"none", "started", "running", "done", "reaped"}]
    BY <2>1
  <2>3. handed' \in [Calls -> BOOLEAN]
    <3>1. handed \in [Calls -> BOOLEAN]
      OBVIOUS
    <3>2. handed' = handed \/ handed' = [handed EXCEPT ![c] = TRUE]
      BY <1>41 DEF CallbackRuns
    <3> HIDE DEF IInv, TypeOK, CallType
    <3> QED
      BY <3>1, <3>2
  <2> QED
    BY <1>41, <2>2, <2>3 DEF CallbackRuns
<1>42. ASSUME NEW c \in Calls, CallbackReturns(c) PROVE CallType'
  BY <1>42 DEF CallbackReturns
<1>43. CASE UNCHANGED vars
  BY <1>43 DEF vars
<1> HIDE DEF IInv, CallType
<1> QED
  BY <1>1, <1>2, <1>3, <1>4, <1>5, <1>6, <1>7, <1>8, <1>9, <1>10, <1>11,
     <1>12, <1>13, <1>14, <1>15, <1>16, <1>17, <1>18, <1>19, <1>20,
     <1>21, <1>22, <1>23, <1>24, <1>25, <1>26, <1>27, <1>28, <1>29,
     <1>30, <1>31, <1>32, <1>33, <1>34, <1>35, <1>36, <1>37, <1>38,
     <1>39, <1>40, <1>41, <1>42, <1>43
  DEF Next, Step, Ending, AppStep, RecvStep, Request, Message, Threads

(* Steps keep the variables of the phone well-typed.                       *)
LEMMA PhoneTypeStep ==
    ASSUME IInv, [Next]_vars
    PROVE  PhoneType'
<1> USE ConstantsAssumption
       DEF IInv, TypeOK, CallType, PhoneType, FrameType, LoopType, Codes,
       Threads, Enter, Go,
          lifeVars, mediaVars, frontVars, registryVars, poolVars, frameVars,
          loopVars, recvVars
<1>1. ASSUME NEW t \in Threads, StopMedia(t) PROVE PhoneType'
  BY <1>1 DEF StopMedia
<1>2. ASSUME NEW t \in Threads, SetEnded(t) PROVE PhoneType'
  BY <1>2 DEF SetEnded
<1>3. ASSUME NEW t \in Threads, Finalize(t) PROVE PhoneType'
  BY <1>3 DEF Finalize, Reach
<1>4. ASSUME NEW t \in Threads, Release(t) PROVE PhoneType'
  BY <1>4 DEF Release, CleanupDead, DeadInvites
<1>5. ASSUME NEW t \in Threads, Remove(t) PROVE PhoneType'
  <2>1. calls' \in [Invites -> Calls \cup {None}]
    BY <1>5, PutType DEF Remove
  <2>2. tag' \in [Invites -> Calls \cup {None}]
    BY <1>5, PutType DEF Remove
  <2>3. UNCHANGED <<cache, poolVars>>
    BY <1>5 DEF Remove
  <2>4. PhoneType
    OBVIOUS
  <2> HIDE DEF IInv, TypeOK
  <2> QED
    BY <2>1, <2>2, <2>3, <2>4
<1>6. ASSUME NEW t \in Threads, Remember(t) PROVE PhoneType'
  <2>1. cache \in [Invites -> Codes] /\ code[t] \in Codes
    OBVIOUS
  <2>2. cache' = [cache EXCEPT ![Key(t)] = code[t]]
    BY <1>6 DEF Remember
  <2>3. cache' \in [Invites -> Codes]
    <3> HIDE DEF IInv, TypeOK, PhoneType, FrameType, Codes
    <3> QED
      BY <2>1, <2>2
  <2> QED
    BY <1>6, <2>3 DEF Remember
<1>7. ASSUME NEW t \in Threads, Send(t) PROVE PhoneType'
  BY <1>7 DEF Send, Requested, Enter, Go
<1>8. ASSUME NEW t \in Threads, SendBye(t) PROVE PhoneType'
  BY <1>8 DEF SendBye
<1>9. ASSUME NEW t \in Apps, Prepare(t) PROVE PhoneType'
  BY <1>9 DEF Prepare, Abort, PortBusy
<1>10. ASSUME NEW t \in Apps, Commit(t) PROVE PhoneType'
  BY <1>10 DEF Commit, Abort
<1>11. ASSUME NEW t \in Apps, Check(t) PROVE PhoneType'
  BY <1>11 DEF Check
<1>12. ASSUME NEW t \in Apps, Keep(t) PROVE PhoneType'
  <2>1. cache \in [Invites -> Codes] /\ 500 \in Codes
    OBVIOUS
  <2>2. cache' = [cache EXCEPT ![inv[cur[t]]] = 500]
    BY <1>12 DEF Keep
  <2>3. cache' \in [Invites -> Codes]
    <3> HIDE DEF IInv, TypeOK, PhoneType, FrameType, Codes
    <3> QED
      BY <2>1, <2>2
  <2> QED
    BY <1>12, <2>3 DEF Keep
<1>13. ASSUME NEW t \in Apps, Unflag(t) PROVE PhoneType'
  BY <1>13 DEF Unflag
<1>14. ASSUME NEW t \in Apps, StopNext(t) PROVE PhoneType'
  BY <1>14 DEF StopNext
<1>15. ASSUME NEW t \in Apps, StopRead2(t) PROVE PhoneType'
  BY <1>15 DEF StopRead2
<1>16. ASSUME NEW t \in Apps, StopRead3(t) PROVE PhoneType'
  BY <1>16 DEF StopRead3
<1>17. ASSUME NEW t \in Apps, StopHangup(t) PROVE PhoneType'
  BY <1>17 DEF StopHangup, HangupGuarded, Invalid
<1>18. ASSUME NEW t \in Apps, StopDeny(t) PROVE PhoneType'
  BY <1>18 DEF StopDeny, Decline, Invalid
<1>19. ASSUME NEW t \in Apps, StopForce(t) PROVE PhoneType'
  BY <1>19 DEF StopForce
<1>20. ASSUME NEW t \in Apps, StopReturn(t) PROVE PhoneType'
  BY <1>20 DEF StopReturn
<1>21. ASSUME Lookup PROVE PhoneType'
  BY <1>21 DEF Lookup, Unhandled
<1>22. ASSUME Retrans PROVE PhoneType'
  BY <1>22 DEF Retrans, Unhandled
<1>23. ASSUME Ring PROVE PhoneType'
  <2>1. PICK c \in Calls : /\ tag' = [tag EXCEPT ![req] = c]
                           /\ sessions' = sessions \cup {c}
    <3> HIDE DEF IInv, TypeOK, PhoneType, FrameType
    <3> QED
      BY <1>23 DEF Ring
  <2>2. tag \in [Invites -> Calls \cup {None}]
    OBVIOUS
  <2>3. tag' \in [Invites -> Calls \cup {None}]
    <3> HIDE DEF IInv, TypeOK, PhoneType, FrameType
    <3> QED
      BY <2>1, <2>2
  <2> QED
    BY <1>23, <2>1, <2>3 DEF Ring
<1>24. ASSUME Allocate PROVE PhoneType'
  BY <1>24 DEF Allocate, Take, FreePorts, Reclaim, RegisteredCalls
<1>25. ASSUME ReclaimNext PROVE PhoneType'
  BY <1>25 DEF ReclaimNext
<1>26. ASSUME Reallocate PROVE PhoneType'
  BY <1>26 DEF Reallocate, Take, FreePorts, Refuse, CleanupDead, DeadInvites
<1>27. ASSUME Register PROVE PhoneType'
  <2>1. building \in Calls \cup {None}
    BY DEF LoopType
  <2>2. calls' \in [Invites -> Calls \cup {None}]
    BY <1>27, <2>1, PutType DEF Register
  <2> QED
    BY <1>27, <2>2 DEF Register
<1>28. ASSUME Dispatch PROVE PhoneType'
  BY <1>28 DEF Dispatch
<1>29. ASSUME Undispatch PROVE PhoneType'
  BY <1>29 DEF Undispatch, Unhandled
<1>30. ASSUME Discard PROVE PhoneType'
  <2>1. tag' \in [Invites -> Calls \cup {None}]
    BY <1>30, PutType DEF Discard
  <2>2. sessions' \subseteq sessions /\ UNCHANGED <<calls, cache, pool>>
    BY <1>30 DEF Discard
  <2>3. PhoneType
    OBVIOUS
  <2> HIDE DEF IInv, TypeOK
  <2> QED
    BY <2>1, <2>2, <2>3
<1>31. ASSUME Fail PROVE PhoneType'
  BY <1>31 DEF Fail, Built
<1>32. ASSUME Cancel PROVE PhoneType'
  BY <1>32 DEF Cancel
<1>33. ASSUME Bye PROVE PhoneType'
  BY <1>33 DEF Bye, Unhandled
<1>34. ASSUME NEW t \in Apps, Stop(t) PROVE PhoneType'
  BY <1>34 DEF Stop, Idle, RegisteredCalls
<1>35. ASSUME NEW t \in Apps, NEW c \in Calls, Answer(t, c) PROVE PhoneType'
  BY <1>35 DEF Answer, Idle
<1>36. ASSUME NEW t \in Apps, NEW c \in Calls, Deny(t, c) PROVE PhoneType'
  BY <1>36 DEF Deny, Decline, Idle
<1>37. ASSUME NEW t \in Apps, NEW c \in Calls, Hangup(t, c) PROVE PhoneType'
  BY <1>37 DEF Hangup, HangupGuarded, Idle
<1>38. ASSUME NEW i \in Invites, RecvInvite(i) PROVE PhoneType'
  BY <1>38 DEF RecvInvite, Idle, Receive, Unhandled
<1>39. ASSUME NEW i \in Invites, RecvCancel(i) PROVE PhoneType'
  BY <1>39 DEF RecvCancel, Idle, Receive, Unhandled
<1>40. ASSUME NEW i \in Invites, NEW c \in Calls, RecvBye(i, c)
       PROVE PhoneType'
  BY <1>40 DEF RecvBye, Idle, Receive, Unhandled
<1>41. ASSUME NEW c \in Calls, CallbackRuns(c) PROVE PhoneType'
  BY <1>41 DEF CallbackRuns
<1>42. ASSUME NEW c \in Calls, CallbackReturns(c) PROVE PhoneType'
  BY <1>42 DEF CallbackReturns
<1>43. CASE UNCHANGED vars
  BY <1>43 DEF vars
<1> HIDE DEF IInv, PhoneType
<1> QED
  BY <1>1, <1>2, <1>3, <1>4, <1>5, <1>6, <1>7, <1>8, <1>9, <1>10, <1>11,
     <1>12, <1>13, <1>14, <1>15, <1>16, <1>17, <1>18, <1>19, <1>20,
     <1>21, <1>22, <1>23, <1>24, <1>25, <1>26, <1>27, <1>28, <1>29,
     <1>30, <1>31, <1>32, <1>33, <1>34, <1>35, <1>36, <1>37, <1>38,
     <1>39, <1>40, <1>41, <1>42, <1>43
  DEF Next, Step, Ending, AppStep, RecvStep, Request, Message, Threads

(* Steps keep the frames of the threads well-typed.                        *)
LEMMA FrameTypeStep ==
    ASSUME IInv, [Next]_vars
    PROVE  FrameType'
<1> USE ConstantsAssumption
       DEF IInv, TypeOK, CallType, PhoneType, FrameType, LoopType,
          FrameInv, BuildInv, Published, Constructing, Threads, States,
          Labels, Routines, Codes,
          Enter, Go,
          lifeVars, mediaVars, frontVars, registryVars, poolVars, frameVars,
          loopVars, recvVars
<1>1. ASSUME NEW t \in Threads, StopMedia(t) PROVE FrameType'
  BY <1>1, AdvanceType DEF StopMedia
<1>2. ASSUME NEW t \in Threads, SetEnded(t) PROVE FrameType'
  BY <1>2, AdvanceType DEF SetEnded
<1>3. ASSUME NEW t \in Threads, Finalize(t) PROVE FrameType'
  <2>1. CASE Advance(t)
    BY <2>1, AdvanceType
  <2>2. CASE Reach(t, Tail(routine[t], code[t], stopping[t]))
    <3>1. Tail(routine[t], code[t], stopping[t]) \in Labels
      BY DEF Tail
    <3> HIDE DEF Labels
    <3> QED
      BY <2>2, <3>1, ReachType
  <2> QED
    BY <1>3, <2>1, <2>2 DEF Finalize
<1>4. ASSUME NEW t \in Threads, Release(t) PROVE FrameType'
  BY <1>4, AdvanceType DEF Release
<1>5. ASSUME NEW t \in Threads, Remove(t) PROVE FrameType'
  BY <1>5, AdvanceType DEF Remove
<1>6. ASSUME NEW t \in Threads, Remember(t) PROVE FrameType'
  BY <1>6, AdvanceType DEF Remember
<1>7. ASSUME NEW t \in Threads, Send(t) PROVE FrameType'
  <2>1. CASE Advance(t)
    BY <2>1, AdvanceType
  <2>2. CASE Enter(t, "abort", cur[t], "check", 0)
    BY <2>2
  <2>3. CASE Enter(t, "deny", cur[t], "media", 0)
    BY <2>3
  <2>4. CASE Enter(t, "none", None, "discard", 0)
    BY <2>4
  <2>5. CASE Enter(t, "reply", cur[t], "fail", 0)
    BY <2>5
  <2> QED
    BY <1>7, <2>1, <2>2, <2>3, <2>4, <2>5 DEF Send
<1>8. ASSUME NEW t \in Threads, SendBye(t) PROVE FrameType'
  BY <1>8, AdvanceType DEF SendBye
<1>9. ASSUME NEW t \in Apps, Prepare(t) PROVE FrameType'
  BY <1>9 DEF Prepare, Abort, PortBusy
<1>10. ASSUME NEW t \in Apps, Commit(t) PROVE FrameType'
  <2>1. CASE Enter(t, "answer", cur[t], "send", 200)
    BY <2>1
  <2>2. CASE Abort(t)
    BY <2>2 DEF Abort
  <2> QED
    BY <1>10, <2>1, <2>2 DEF Commit
<1>11. ASSUME NEW t \in Apps, Check(t) PROVE FrameType'
  BY <1>11 DEF Check
<1>12. ASSUME NEW t \in Apps, Keep(t) PROVE FrameType'
  BY <1>12 DEF Keep
<1>13. ASSUME NEW t \in Apps, Unflag(t) PROVE FrameType'
  BY <1>13 DEF Unflag
<1>14. ASSUME NEW t \in Apps, StopNext(t) PROVE FrameType'
  BY <1>14, SMTT(60) DEF StopNext
<1>15. ASSUME NEW t \in Apps, StopRead2(t) PROVE FrameType'
  BY <1>15 DEF StopRead2
<1>16. ASSUME NEW t \in Apps, StopRead3(t) PROVE FrameType'
  BY <1>16 DEF StopRead3
<1>17. ASSUME NEW t \in Apps, StopHangup(t) PROVE FrameType'
  <2>1. CASE HangupGuarded(t, cur[t])
    BY <2>1 DEF HangupGuarded
  <2>2. CASE Invalid(t)
    BY <2>2 DEF Invalid
  <2> QED
    BY <1>17, <2>1, <2>2 DEF StopHangup
<1>18. ASSUME NEW t \in Apps, StopDeny(t) PROVE FrameType'
  <2>1. CASE Decline(t, cur[t])
    BY <2>1 DEF Decline
  <2>2. CASE Invalid(t)
    BY <2>2 DEF Invalid
  <2> QED
    BY <1>18, <2>1, <2>2 DEF StopDeny
<1>19. ASSUME NEW t \in Apps, StopForce(t) PROVE FrameType'
  BY <1>19 DEF StopForce
<1>20. ASSUME NEW t \in Apps, StopReturn(t) PROVE FrameType'
  BY <1>20 DEF StopReturn
<1>21. ASSUME Lookup PROVE FrameType'
  BY <1>21 DEF Lookup, Unhandled
<1>22. ASSUME Retrans PROVE FrameType'
  BY <1>22 DEF Retrans, Unhandled
<1>23. ASSUME Ring PROVE FrameType'
  BY <1>23 DEF Ring
<1>24. ASSUME Allocate PROVE FrameType'
  BY <1>24 DEF Allocate, Take, FreePorts, Reclaim, RegisteredCalls
<1>25. ASSUME ReclaimNext PROVE FrameType'
  BY <1>25 DEF ReclaimNext
<1>26. ASSUME Reallocate PROVE FrameType'
  BY <1>26 DEF Reallocate, Take, FreePorts, Refuse, CleanupDead, DeadInvites
<1>27. ASSUME Register PROVE FrameType'
  BY <1>27 DEF Register
<1>28. ASSUME Dispatch PROVE FrameType'
  BY <1>28 DEF Dispatch
<1>29. ASSUME Undispatch PROVE FrameType'
  BY <1>29 DEF Undispatch, Unhandled
<1>30. ASSUME Discard PROVE FrameType'
  BY <1>30 DEF Discard
<1>31. ASSUME Fail PROVE FrameType'
  BY <1>31 DEF Fail, Built
<1>32. ASSUME Cancel PROVE FrameType'
  BY <1>32 DEF Cancel
<1>33. ASSUME Bye PROVE FrameType'
  BY <1>33 DEF Bye, Unhandled
<1>34. ASSUME NEW t \in Apps, Stop(t) PROVE FrameType'
  BY <1>34 DEF Stop, Idle, RegisteredCalls
<1>35. ASSUME NEW t \in Apps, NEW c \in Calls, Answer(t, c) PROVE FrameType'
  BY <1>35 DEF Answer, Idle
<1>36. ASSUME NEW t \in Apps, NEW c \in Calls, Deny(t, c) PROVE FrameType'
  BY <1>36 DEF Deny, Decline, Idle
<1>37. ASSUME NEW t \in Apps, NEW c \in Calls, Hangup(t, c) PROVE FrameType'
  BY <1>37 DEF Hangup, HangupGuarded, Idle
<1>38. ASSUME NEW i \in Invites, RecvInvite(i) PROVE FrameType'
  BY <1>38 DEF RecvInvite, Idle, Receive, Unhandled
<1>39. ASSUME NEW i \in Invites, RecvCancel(i) PROVE FrameType'
  BY <1>39 DEF RecvCancel, Idle, Receive, Unhandled
<1>40. ASSUME NEW i \in Invites, NEW c \in Calls, RecvBye(i, c)
       PROVE FrameType'
  BY <1>40 DEF RecvBye, Idle, Receive, Unhandled
<1>41. ASSUME NEW c \in Calls, CallbackRuns(c) PROVE FrameType'
  BY <1>41 DEF CallbackRuns
<1>42. ASSUME NEW c \in Calls, CallbackReturns(c) PROVE FrameType'
  BY <1>42 DEF CallbackReturns
<1>43. CASE UNCHANGED vars
  BY <1>43 DEF vars
<1> HIDE DEF IInv, FrameType
<1> QED
  BY <1>1, <1>2, <1>3, <1>4, <1>5, <1>6, <1>7, <1>8, <1>9, <1>10, <1>11,
     <1>12, <1>13, <1>14, <1>15, <1>16, <1>17, <1>18, <1>19, <1>20,
     <1>21, <1>22, <1>23, <1>24, <1>25, <1>26, <1>27, <1>28, <1>29,
     <1>30, <1>31, <1>32, <1>33, <1>34, <1>35, <1>36, <1>37, <1>38,
     <1>39, <1>40, <1>41, <1>42, <1>43
  DEF Next, Step, Ending, AppStep, RecvStep, Request, Message, Threads

(* Steps keep the loops of stop() and of the receive thread well-typed.    *)
LEMMA LoopTypeStep ==
    ASSUME IInv, [Next]_vars
    PROVE  LoopType'
<1> USE ConstantsAssumption
       DEF IInv, TypeOK, CallType, PhoneType, FrameType, LoopType, Threads,
          lifeVars, mediaVars, frontVars, registryVars, poolVars, frameVars,
          loopVars, recvVars
<1>1. ASSUME NEW t \in Threads, StopMedia(t) PROVE LoopType'
  BY <1>1 DEF StopMedia
<1>2. ASSUME NEW t \in Threads, SetEnded(t) PROVE LoopType'
  BY <1>2 DEF SetEnded
<1>3. ASSUME NEW t \in Threads, Finalize(t) PROVE LoopType'
  BY <1>3 DEF Finalize, Reach
<1>4. ASSUME NEW t \in Threads, Release(t) PROVE LoopType'
  BY <1>4 DEF Release, CleanupDead, DeadInvites
<1>5. ASSUME NEW t \in Threads, Remove(t) PROVE LoopType'
  BY <1>5 DEF Remove
<1>6. ASSUME NEW t \in Threads, Remember(t) PROVE LoopType'
  BY <1>6 DEF Remember, Key
<1>7. ASSUME NEW t \in Threads, Send(t) PROVE LoopType'
  BY <1>7 DEF Send, Requested, Enter, Go
<1>8. ASSUME NEW t \in Threads, SendBye(t) PROVE LoopType'
  BY <1>8 DEF SendBye
<1>9. ASSUME NEW t \in Apps, Prepare(t) PROVE LoopType'
  BY <1>9 DEF Prepare, Abort, PortBusy
<1>10. ASSUME NEW t \in Apps, Commit(t) PROVE LoopType'
  BY <1>10 DEF Commit, Abort
<1>11. ASSUME NEW t \in Apps, Check(t) PROVE LoopType'
  BY <1>11 DEF Check
<1>12. ASSUME NEW t \in Apps, Keep(t) PROVE LoopType'
  BY <1>12 DEF Keep
<1>13. ASSUME NEW t \in Apps, Unflag(t) PROVE LoopType'
  BY <1>13 DEF Unflag
<1>14. ASSUME NEW t \in Apps, StopNext(t) PROVE LoopType'
  BY <1>14 DEF StopNext
<1>15. ASSUME NEW t \in Apps, StopRead2(t) PROVE LoopType'
  BY <1>15 DEF StopRead2
<1>16. ASSUME NEW t \in Apps, StopRead3(t) PROVE LoopType'
  BY <1>16 DEF StopRead3
<1>17. ASSUME NEW t \in Apps, StopHangup(t) PROVE LoopType'
  BY <1>17 DEF StopHangup, HangupGuarded, Invalid
<1>18. ASSUME NEW t \in Apps, StopDeny(t) PROVE LoopType'
  BY <1>18 DEF StopDeny, Decline, Invalid
<1>19. ASSUME NEW t \in Apps, StopForce(t) PROVE LoopType'
  BY <1>19 DEF StopForce
<1>20. ASSUME NEW t \in Apps, StopReturn(t) PROVE LoopType'
  BY <1>20 DEF StopReturn
<1>21. ASSUME Lookup PROVE LoopType'
  BY <1>21 DEF Lookup, Unhandled
<1>22. ASSUME Retrans PROVE LoopType'
  BY <1>22 DEF Retrans, Unhandled
<1>23. ASSUME Ring PROVE LoopType'
  BY <1>23 DEF Ring
<1>24. ASSUME Allocate PROVE LoopType'
  BY <1>24 DEF Allocate, Take, FreePorts, Reclaim, RegisteredCalls
<1>25. ASSUME ReclaimNext PROVE LoopType'
  BY <1>25 DEF ReclaimNext
<1>26. ASSUME Reallocate PROVE LoopType'
  BY <1>26 DEF Reallocate, Take, FreePorts, Refuse, CleanupDead, DeadInvites
<1>27. ASSUME Register PROVE LoopType'
  BY <1>27 DEF Register
<1>28. ASSUME Dispatch PROVE LoopType'
  BY <1>28 DEF Dispatch
<1>29. ASSUME Undispatch PROVE LoopType'
  BY <1>29 DEF Undispatch, Unhandled
<1>30. ASSUME Discard PROVE LoopType'
  BY <1>30 DEF Discard
<1>31. ASSUME Fail PROVE LoopType'
  BY <1>31 DEF Fail, Built
<1>32. ASSUME Cancel PROVE LoopType'
  BY <1>32 DEF Cancel
<1>33. ASSUME Bye PROVE LoopType'
  BY <1>33 DEF Bye, Unhandled
<1>34. ASSUME NEW t \in Apps, Stop(t) PROVE LoopType'
  BY <1>34 DEF Stop, Idle, RegisteredCalls
<1>35. ASSUME NEW t \in Apps, NEW c \in Calls, Answer(t, c) PROVE LoopType'
  BY <1>35 DEF Answer, Idle
<1>36. ASSUME NEW t \in Apps, NEW c \in Calls, Deny(t, c) PROVE LoopType'
  BY <1>36 DEF Deny, Decline, Idle
<1>37. ASSUME NEW t \in Apps, NEW c \in Calls, Hangup(t, c) PROVE LoopType'
  BY <1>37 DEF Hangup, HangupGuarded, Idle
<1>38. ASSUME NEW i \in Invites, RecvInvite(i) PROVE LoopType'
  BY <1>38 DEF RecvInvite, Idle, Receive, Unhandled
<1>39. ASSUME NEW i \in Invites, RecvCancel(i) PROVE LoopType'
  BY <1>39 DEF RecvCancel, Idle, Receive, Unhandled
<1>40. ASSUME NEW i \in Invites, NEW c \in Calls, RecvBye(i, c) PROVE LoopType'
  BY <1>40 DEF RecvBye, Idle, Receive, Unhandled
<1>41. ASSUME NEW c \in Calls, CallbackRuns(c) PROVE LoopType'
  BY <1>41 DEF CallbackRuns
<1>42. ASSUME NEW c \in Calls, CallbackReturns(c) PROVE LoopType'
  BY <1>42 DEF CallbackReturns
<1>43. CASE UNCHANGED vars
  BY <1>43 DEF vars
<1> HIDE DEF IInv, LoopType
<1> QED
  BY <1>1, <1>2, <1>3, <1>4, <1>5, <1>6, <1>7, <1>8, <1>9, <1>10, <1>11,
     <1>12, <1>13, <1>14, <1>15, <1>16, <1>17, <1>18, <1>19, <1>20,
     <1>21, <1>22, <1>23, <1>24, <1>25, <1>26, <1>27, <1>28, <1>29,
     <1>30, <1>31, <1>32, <1>33, <1>34, <1>35, <1>36, <1>37, <1>38,
     <1>39, <1>40, <1>41, <1>42, <1>43
  DEF Next, Step, Ending, AppStep, RecvStep, Request, Message, Threads

(* A thread is only at labels its routine has, and works on a call         *)
(* whenever the routine is about one.                                      *)
LEMMA FrameInvStep ==
    ASSUME IInv, [Next]_vars
    PROVE  FrameInv'
<1> USE ConstantsAssumption
       DEF IInv, TypeOK, CallType, PhoneType, FrameType, LoopType, FrameInv,
          AnswerLabels, CallLabels, CallRoutines, SendRoutines, Threads,
          Advance, Reach, Enter, Go, After, Tail, Reject,
          lifeVars, mediaVars, frontVars, registryVars, poolVars, frameVars,
          loopVars, recvVars
<1>1. ASSUME NEW t \in Threads, StopMedia(t) PROVE FrameInv'
  BY <1>1 DEF StopMedia
<1>2. ASSUME NEW t \in Threads, SetEnded(t) PROVE FrameInv'
  BY <1>2 DEF SetEnded
<1>3. ASSUME NEW t \in Threads, Finalize(t) PROVE FrameInv'
  BY <1>3 DEF Finalize, Reach
<1>4. ASSUME NEW t \in Threads, Release(t) PROVE FrameInv'
  BY <1>4 DEF Release, CleanupDead, DeadInvites
<1>5. ASSUME NEW t \in Threads, Remove(t) PROVE FrameInv'
  BY <1>5 DEF Remove
<1>6. ASSUME NEW t \in Threads, Remember(t) PROVE FrameInv'
  BY <1>6, SMTT(60) DEF Remember, Key
<1>7. ASSUME NEW t \in Threads, Send(t) PROVE FrameInv'
  BY <1>7, SMTT(60) DEF Send, Requested, Enter, Go
<1>8. ASSUME NEW t \in Threads, SendBye(t) PROVE FrameInv'
  BY <1>8 DEF SendBye
<1>9. ASSUME NEW t \in Apps, Prepare(t) PROVE FrameInv'
  BY <1>9 DEF Prepare, Abort, PortBusy
<1>10. ASSUME NEW t \in Apps, Commit(t) PROVE FrameInv'
  BY <1>10 DEF Commit, Abort
<1>11. ASSUME NEW t \in Apps, Check(t) PROVE FrameInv'
  BY <1>11 DEF Check
<1>12. ASSUME NEW t \in Apps, Keep(t) PROVE FrameInv'
  BY <1>12 DEF Keep
<1>13. ASSUME NEW t \in Apps, Unflag(t) PROVE FrameInv'
  BY <1>13 DEF Unflag
<1>14. ASSUME NEW t \in Apps, StopNext(t) PROVE FrameInv'
  BY <1>14 DEF StopNext
<1>15. ASSUME NEW t \in Apps, StopRead2(t) PROVE FrameInv'
  BY <1>15 DEF StopRead2
<1>16. ASSUME NEW t \in Apps, StopRead3(t) PROVE FrameInv'
  BY <1>16 DEF StopRead3
<1>17. ASSUME NEW t \in Apps, StopHangup(t) PROVE FrameInv'
  BY <1>17, SMTT(60) DEF StopHangup, HangupGuarded, Invalid
<1>18. ASSUME NEW t \in Apps, StopDeny(t) PROVE FrameInv'
  BY <1>18 DEF StopDeny, Decline, Invalid
<1>19. ASSUME NEW t \in Apps, StopForce(t) PROVE FrameInv'
  BY <1>19 DEF StopForce
<1>20. ASSUME NEW t \in Apps, StopReturn(t) PROVE FrameInv'
  BY <1>20 DEF StopReturn
<1>21. ASSUME Lookup PROVE FrameInv'
  BY <1>21 DEF Lookup, Unhandled
<1>22. ASSUME Retrans PROVE FrameInv'
  BY <1>22 DEF Retrans, Unhandled
<1>23. ASSUME Ring PROVE FrameInv'
  BY <1>23 DEF Ring
<1>24. ASSUME Allocate PROVE FrameInv'
  BY <1>24 DEF Allocate, Take, FreePorts, Reclaim, RegisteredCalls
<1>25. ASSUME ReclaimNext PROVE FrameInv'
  BY <1>25 DEF ReclaimNext
<1>26. ASSUME Reallocate PROVE FrameInv'
  BY <1>26 DEF Reallocate, Take, FreePorts, Refuse, CleanupDead, DeadInvites
<1>27. ASSUME Register PROVE FrameInv'
  BY <1>27 DEF Register
<1>28. ASSUME Dispatch PROVE FrameInv'
  BY <1>28 DEF Dispatch
<1>29. ASSUME Undispatch PROVE FrameInv'
  <2>1. building \in Calls
    BY <1>29 DEF Undispatch, BuildInv, Published
  <2> QED
    BY <1>29, <2>1 DEF Undispatch, Unhandled
<1>30. ASSUME Discard PROVE FrameInv'
  BY <1>30 DEF Discard
<1>31. ASSUME Fail PROVE FrameInv'
  BY <1>31 DEF Fail, Built
<1>32. ASSUME Cancel PROVE FrameInv'
  BY <1>32 DEF Cancel
<1>33. ASSUME Bye PROVE FrameInv'
  BY <1>33 DEF Bye, Unhandled
<1>34. ASSUME NEW t \in Apps, Stop(t) PROVE FrameInv'
  BY <1>34 DEF Stop, Idle, RegisteredCalls
<1>35. ASSUME NEW t \in Apps, NEW c \in Calls, Answer(t, c) PROVE FrameInv'
  BY <1>35 DEF Answer, Idle
<1>36. ASSUME NEW t \in Apps, NEW c \in Calls, Deny(t, c) PROVE FrameInv'
  BY <1>36 DEF Deny, Decline, Idle
<1>37. ASSUME NEW t \in Apps, NEW c \in Calls, Hangup(t, c) PROVE FrameInv'
  BY <1>37 DEF Hangup, HangupGuarded, Idle
<1>38. ASSUME NEW i \in Invites, RecvInvite(i) PROVE FrameInv'
  BY <1>38 DEF RecvInvite, Idle, Receive, Unhandled
<1>39. ASSUME NEW i \in Invites, RecvCancel(i) PROVE FrameInv'
  BY <1>39 DEF RecvCancel, Idle, Receive, Unhandled
<1>40. ASSUME NEW i \in Invites, NEW c \in Calls, RecvBye(i, c) PROVE FrameInv'
  BY <1>40 DEF RecvBye, Idle, Receive, Unhandled
<1>41. ASSUME NEW c \in Calls, CallbackRuns(c) PROVE FrameInv'
  BY <1>41 DEF CallbackRuns
<1>42. ASSUME NEW c \in Calls, CallbackReturns(c) PROVE FrameInv'
  BY <1>42 DEF CallbackReturns
<1>43. CASE UNCHANGED vars
  BY <1>43 DEF vars
<1> HIDE DEF IInv, FrameInv
<1> QED
  BY <1>1, <1>2, <1>3, <1>4, <1>5, <1>6, <1>7, <1>8, <1>9, <1>10, <1>11,
     <1>12, <1>13, <1>14, <1>15, <1>16, <1>17, <1>18, <1>19, <1>20,
     <1>21, <1>22, <1>23, <1>24, <1>25, <1>26, <1>27, <1>28, <1>29,
     <1>30, <1>31, <1>32, <1>33, <1>34, <1>35, <1>36, <1>37, <1>38,
     <1>39, <1>40, <1>41, <1>42, <1>43
  DEF Next, Step, Ending, AppStep, RecvStep, Request, Message, Threads

(* Whatever a thread, the registry or the callback queue refers to was     *)
(* built.                                                                  *)
LEMMA BuiltInvStep ==
    ASSUME IInv, [Next]_vars
    PROVE  BuiltInv'
<1> USE ConstantsAssumption
       DEF IInv, TypeOK, CallType, PhoneType, FrameType, LoopType,
          FrameInv, BuiltInv, BuildInv, Published, Constructing,
          AnswerLabels, CallLabels, CallRoutines, SendRoutines, Threads,
          Advance, Reach, Enter, Go, After, Tail, Reject,
          lifeVars, mediaVars, frontVars, registryVars, poolVars, frameVars,
          loopVars, recvVars
<1>1. ASSUME NEW t \in Threads, StopMedia(t) PROVE BuiltInv'
  BY <1>1 DEF StopMedia
<1>2. ASSUME NEW t \in Threads, SetEnded(t) PROVE BuiltInv'
  BY <1>2 DEF SetEnded
<1>3. ASSUME NEW t \in Threads, Finalize(t) PROVE BuiltInv'
  BY <1>3 DEF Finalize, Reach
<1>4. ASSUME NEW t \in Threads, Release(t) PROVE BuiltInv'
  BY <1>4 DEF Release, CleanupDead, DeadInvites
<1>5. ASSUME NEW t \in Threads, Remove(t) PROVE BuiltInv'
  <2>1. \A i \in Invites : calls'[i] \in {calls[i], None}
    BY <1>5 DEF Remove
  <2>2. UNCHANGED <<todo, state, handed, cb, assigned>>
    <3> HIDE DEF IInv, TypeOK, FrameInv, BuiltInv, BuildInv, Advance
    <3> QED
      BY <1>5 DEF Remove
  <2>3. \A u \in Threads : cur'[u] \in {cur[u], None}
    <3>1. Advance(t) /\ cur \in [Threads -> Calls \cup {None}]
      BY <1>5 DEF Remove
    <3> HIDE DEF IInv, TypeOK, FrameInv, BuiltInv, BuildInv, After, Advance
    <3> QED
      BY <3>1 DEF Advance
  <2>4. BuiltInv
    OBVIOUS
  <2> HIDE DEF IInv, TypeOK, FrameInv, BuildInv
  <2> QED
    BY <2>1, <2>2, <2>3, <2>4
<1>6. ASSUME NEW t \in Threads, Remember(t) PROVE BuiltInv'
  BY <1>6, SMTT(60) DEF Remember, Key
<1>7. ASSUME NEW t \in Threads, Send(t) PROVE BuiltInv'
  BY <1>7, SMTT(60) DEF Send, Requested, Enter, Go
<1>8. ASSUME NEW t \in Threads, SendBye(t) PROVE BuiltInv'
  BY <1>8 DEF SendBye
<1>9. ASSUME NEW t \in Apps, Prepare(t) PROVE BuiltInv'
  BY <1>9 DEF Prepare, Abort, PortBusy
<1>10. ASSUME NEW t \in Apps, Commit(t) PROVE BuiltInv'
  BY <1>10 DEF Commit, Abort
<1>11. ASSUME NEW t \in Apps, Check(t) PROVE BuiltInv'
  BY <1>11 DEF Check
<1>12. ASSUME NEW t \in Apps, Keep(t) PROVE BuiltInv'
  BY <1>12 DEF Keep
<1>13. ASSUME NEW t \in Apps, Unflag(t) PROVE BuiltInv'
  BY <1>13 DEF Unflag
<1>14. ASSUME NEW t \in Apps, StopNext(t) PROVE BuiltInv'
  BY <1>14, SMTT(60) DEF StopNext
<1>15. ASSUME NEW t \in Apps, StopRead2(t) PROVE BuiltInv'
  BY <1>15 DEF StopRead2
<1>16. ASSUME NEW t \in Apps, StopRead3(t) PROVE BuiltInv'
  BY <1>16 DEF StopRead3
<1>17. ASSUME NEW t \in Apps, StopHangup(t) PROVE BuiltInv'
  BY <1>17 DEF StopHangup, HangupGuarded, Invalid
<1>18. ASSUME NEW t \in Apps, StopDeny(t) PROVE BuiltInv'
  BY <1>18 DEF StopDeny, Decline, Invalid
<1>19. ASSUME NEW t \in Apps, StopForce(t) PROVE BuiltInv'
  BY <1>19 DEF StopForce
<1>20. ASSUME NEW t \in Apps, StopReturn(t) PROVE BuiltInv'
  BY <1>20 DEF StopReturn
<1>21. ASSUME Lookup PROVE BuiltInv'
  BY <1>21 DEF Lookup, Unhandled
<1>22. ASSUME Retrans PROVE BuiltInv'
  BY <1>22 DEF Retrans, Unhandled
<1>23. ASSUME Ring PROVE BuiltInv'
  BY <1>23 DEF Ring
<1>24. ASSUME Allocate PROVE BuiltInv'
  BY <1>24 DEF Allocate, Take, FreePorts, Reclaim, RegisteredCalls
<1>25. ASSUME ReclaimNext PROVE BuiltInv'
  BY <1>25 DEF ReclaimNext
<1>26. ASSUME Reallocate PROVE BuiltInv'
  <2>1. ASSUME NEW p \in FreePorts, Take(p) PROVE BuiltInv'
    BY <1>26, <2>1 DEF Reallocate, Take, FreePorts
  <2>2. ASSUME Refuse PROVE BuiltInv'
    BY <1>26, <2>2 DEF Reallocate, Refuse, CleanupDead, DeadInvites
  <2> QED
    BY <1>26, <2>1, <2>2 DEF Reallocate
<1>27. ASSUME Register PROVE BuiltInv'
  BY <1>27 DEF Register
<1>28. ASSUME Dispatch PROVE BuiltInv'
  BY <1>28 DEF Dispatch
<1>29. ASSUME Undispatch PROVE BuiltInv'
  BY <1>29 DEF Undispatch, Unhandled
<1>30. ASSUME Discard PROVE BuiltInv'
  BY <1>30 DEF Discard
<1>31. ASSUME Fail PROVE BuiltInv'
  BY <1>31 DEF Fail, Built
<1>32. ASSUME Cancel PROVE BuiltInv'
  BY <1>32 DEF Cancel
<1>33. ASSUME Bye PROVE BuiltInv'
  BY <1>33 DEF Bye, Unhandled
<1>34. ASSUME NEW t \in Apps, Stop(t) PROVE BuiltInv'
  BY <1>34 DEF Stop, Idle, RegisteredCalls
<1>35. ASSUME NEW t \in Apps, NEW c \in Calls, Answer(t, c) PROVE BuiltInv'
  BY <1>35 DEF Answer, Idle
<1>36. ASSUME NEW t \in Apps, NEW c \in Calls, Deny(t, c) PROVE BuiltInv'
  BY <1>36 DEF Deny, Decline, Idle
<1>37. ASSUME NEW t \in Apps, NEW c \in Calls, Hangup(t, c) PROVE BuiltInv'
  BY <1>37 DEF Hangup, HangupGuarded, Idle
<1>38. ASSUME NEW i \in Invites, RecvInvite(i) PROVE BuiltInv'
  BY <1>38 DEF RecvInvite, Idle, Receive, Unhandled
<1>39. ASSUME NEW i \in Invites, RecvCancel(i) PROVE BuiltInv'
  BY <1>39 DEF RecvCancel, Idle, Receive, Unhandled
<1>40. ASSUME NEW i \in Invites, NEW c \in Calls, RecvBye(i, c) PROVE BuiltInv'
  BY <1>40 DEF RecvBye, Idle, Receive, Unhandled
<1>41. ASSUME NEW c \in Calls, CallbackRuns(c) PROVE BuiltInv'
  BY <1>41 DEF CallbackRuns
<1>42. ASSUME NEW c \in Calls, CallbackReturns(c) PROVE BuiltInv'
  BY <1>42 DEF CallbackReturns
<1>43. CASE UNCHANGED vars
  BY <1>43 DEF vars
<1> HIDE DEF IInv, BuiltInv
<1> QED
  BY <1>1, <1>2, <1>3, <1>4, <1>5, <1>6, <1>7, <1>8, <1>9, <1>10, <1>11,
     <1>12, <1>13, <1>14, <1>15, <1>16, <1>17, <1>18, <1>19, <1>20,
     <1>21, <1>22, <1>23, <1>24, <1>25, <1>26, <1>27, <1>28, <1>29,
     <1>30, <1>31, <1>32, <1>33, <1>34, <1>35, <1>36, <1>37, <1>38,
     <1>39, <1>40, <1>41, <1>42, <1>43
  DEF Next, Step, Ending, AppStep, RecvStep, Request, Message, Threads

(* The object the receive thread constructs is not built before            *)
(* request_ports returns, and not called back before it is dispatched.     *)
LEMMA BuildInvStep ==
    ASSUME IInv, [Next]_vars
    PROVE  BuildInv'
<1> USE ConstantsAssumption
       DEF IInv, TypeOK, CallType, PhoneType, FrameType, LoopType,
          FrameInv, BuiltInv, BuildInv, Published, Constructing,
          AnswerLabels, CallLabels, CallRoutines, SendRoutines, Threads,
          Advance, Reach, Enter, Go, After, Tail, Reject,
          lifeVars, mediaVars, frontVars, registryVars, poolVars, frameVars,
          loopVars, recvVars
<1>1. ASSUME NEW t \in Threads, StopMedia(t) PROVE BuildInv'
  BY <1>1 DEF StopMedia
<1>2. ASSUME NEW t \in Threads, SetEnded(t) PROVE BuildInv'
  BY <1>2 DEF SetEnded
<1>3. ASSUME NEW t \in Threads, Finalize(t) PROVE BuildInv'
  BY <1>3 DEF Finalize, Reach
<1>4. ASSUME NEW t \in Threads, Release(t) PROVE BuildInv'
  BY <1>4 DEF Release, CleanupDead, DeadInvites
<1>5. ASSUME NEW t \in Threads, Remove(t) PROVE BuildInv'
  BY <1>5 DEF Remove
<1>6. ASSUME NEW t \in Threads, Remember(t) PROVE BuildInv'
  BY <1>6 DEF Remember, Key
<1>7. ASSUME NEW t \in Threads, Send(t) PROVE BuildInv'
  BY <1>7, SMTT(60) DEF Send, Requested, Enter, Go
<1>8. ASSUME NEW t \in Threads, SendBye(t) PROVE BuildInv'
  BY <1>8 DEF SendBye
<1>9. ASSUME NEW t \in Apps, Prepare(t) PROVE BuildInv'
  BY <1>9 DEF Prepare, Abort, PortBusy
<1>10. ASSUME NEW t \in Apps, Commit(t) PROVE BuildInv'
  BY <1>10 DEF Commit, Abort
<1>11. ASSUME NEW t \in Apps, Check(t) PROVE BuildInv'
  BY <1>11 DEF Check
<1>12. ASSUME NEW t \in Apps, Keep(t) PROVE BuildInv'
  BY <1>12 DEF Keep
<1>13. ASSUME NEW t \in Apps, Unflag(t) PROVE BuildInv'
  BY <1>13 DEF Unflag
<1>14. ASSUME NEW t \in Apps, StopNext(t) PROVE BuildInv'
  BY <1>14 DEF StopNext
<1>15. ASSUME NEW t \in Apps, StopRead2(t) PROVE BuildInv'
  BY <1>15 DEF StopRead2
<1>16. ASSUME NEW t \in Apps, StopRead3(t) PROVE BuildInv'
  BY <1>16 DEF StopRead3
<1>17. ASSUME NEW t \in Apps, StopHangup(t) PROVE BuildInv'
  BY <1>17 DEF StopHangup, HangupGuarded, Invalid
<1>18. ASSUME NEW t \in Apps, StopDeny(t) PROVE BuildInv'
  BY <1>18 DEF StopDeny, Decline, Invalid
<1>19. ASSUME NEW t \in Apps, StopForce(t) PROVE BuildInv'
  BY <1>19 DEF StopForce
<1>20. ASSUME NEW t \in Apps, StopReturn(t) PROVE BuildInv'
  BY <1>20 DEF StopReturn
<1>21. ASSUME Lookup PROVE BuildInv'
  BY <1>21 DEF Lookup, Unhandled
<1>22. ASSUME Retrans PROVE BuildInv'
  BY <1>22 DEF Retrans, Unhandled
<1>23. ASSUME Ring PROVE BuildInv'
  BY <1>23 DEF Ring
<1>24. ASSUME Allocate PROVE BuildInv'
  BY <1>24 DEF Allocate, Take, FreePorts, Reclaim, RegisteredCalls
<1>25. ASSUME ReclaimNext PROVE BuildInv'
  BY <1>25 DEF ReclaimNext
<1>26. ASSUME Reallocate PROVE BuildInv'
  BY <1>26 DEF Reallocate, Take, FreePorts, Refuse, CleanupDead, DeadInvites
<1>27. ASSUME Register PROVE BuildInv'
  BY <1>27 DEF Register
<1>28. ASSUME Dispatch PROVE BuildInv'
  BY <1>28 DEF Dispatch
<1>29. ASSUME Undispatch PROVE BuildInv'
  BY <1>29 DEF Undispatch, Unhandled
<1>30. ASSUME Discard PROVE BuildInv'
  BY <1>30 DEF Discard
<1>31. ASSUME Fail PROVE BuildInv'
  BY <1>31 DEF Fail, Built
<1>32. ASSUME Cancel PROVE BuildInv'
  BY <1>32 DEF Cancel
<1>33. ASSUME Bye PROVE BuildInv'
  BY <1>33 DEF Bye, Unhandled
<1>34. ASSUME NEW t \in Apps, Stop(t) PROVE BuildInv'
  BY <1>34 DEF Stop, Idle, RegisteredCalls
<1>35. ASSUME NEW t \in Apps, NEW c \in Calls, Answer(t, c) PROVE BuildInv'
  BY <1>35 DEF Answer, Idle
<1>36. ASSUME NEW t \in Apps, NEW c \in Calls, Deny(t, c) PROVE BuildInv'
  BY <1>36 DEF Deny, Decline, Idle
<1>37. ASSUME NEW t \in Apps, NEW c \in Calls, Hangup(t, c) PROVE BuildInv'
  BY <1>37 DEF Hangup, HangupGuarded, Idle
<1>38. ASSUME NEW i \in Invites, RecvInvite(i) PROVE BuildInv'
  BY <1>38 DEF RecvInvite, Idle, Receive, Unhandled
<1>39. ASSUME NEW i \in Invites, RecvCancel(i) PROVE BuildInv'
  BY <1>39 DEF RecvCancel, Idle, Receive, Unhandled
<1>40. ASSUME NEW i \in Invites, NEW c \in Calls, RecvBye(i, c) PROVE BuildInv'
  BY <1>40 DEF RecvBye, Idle, Receive, Unhandled
<1>41. ASSUME NEW c \in Calls, CallbackRuns(c) PROVE BuildInv'
  BY <1>41 DEF CallbackRuns
<1>42. ASSUME NEW c \in Calls, CallbackReturns(c) PROVE BuildInv'
  BY <1>42 DEF CallbackReturns
<1>43. CASE UNCHANGED vars
  BY <1>43 DEF vars
<1> HIDE DEF IInv, BuildInv
<1> QED
  BY <1>1, <1>2, <1>3, <1>4, <1>5, <1>6, <1>7, <1>8, <1>9, <1>10, <1>11,
     <1>12, <1>13, <1>14, <1>15, <1>16, <1>17, <1>18, <1>19, <1>20,
     <1>21, <1>22, <1>23, <1>24, <1>25, <1>26, <1>27, <1>28, <1>29,
     <1>30, <1>31, <1>32, <1>33, <1>34, <1>35, <1>36, <1>37, <1>38,
     <1>39, <1>40, <1>41, <1>42, <1>43
  DEF Next, Step, Ending, AppStep, RecvStep, Request, Message, Threads

(* Reserving, releasing and reclaiming ports keep the pool equal to what   *)
(* the calls hold.                                                         *)
LEMMA HeldPortsReservedStep ==
    ASSUME IInv, [Next]_vars
    PROVE  HeldPortsReserved'
<1> USE ConstantsAssumption
       DEF IInv, TypeOK, CallType, PhoneType, FrameType, LoopType,
          FrameInv, BuiltInv, BuildInv, Constructing, Holding,
          HeldPortsReserved, AnswerLabels, CallLabels, CallRoutines,
          SendRoutines, Enter, Go,
          lifeVars, mediaVars, frontVars, registryVars, poolVars, frameVars,
          loopVars, recvVars
<1>1. ASSUME NEW t \in Threads, StopMedia(t) PROVE HeldPortsReserved'
  BY <1>1 DEF StopMedia
<1>2. ASSUME NEW t \in Threads, SetEnded(t) PROVE HeldPortsReserved'
  BY <1>2 DEF SetEnded
<1>3. ASSUME NEW t \in Threads, Finalize(t) PROVE HeldPortsReserved'
  BY <1>3 DEF Finalize, Reach
<1>4. ASSUME NEW t \in Threads, Release(t) PROVE HeldPortsReserved'
  BY <1>4 DEF Release, CleanupDead, DeadInvites
<1>5. ASSUME NEW t \in Threads, Remove(t) PROVE HeldPortsReserved'
  BY <1>5 DEF Remove
<1>6. ASSUME NEW t \in Threads, Remember(t) PROVE HeldPortsReserved'
  BY <1>6 DEF Remember, Key
<1>7. ASSUME NEW t \in Threads, Send(t) PROVE HeldPortsReserved'
  BY <1>7 DEF Send, Requested, Enter, Go
<1>8. ASSUME NEW t \in Threads, SendBye(t) PROVE HeldPortsReserved'
  BY <1>8 DEF SendBye
<1>9. ASSUME NEW t \in Apps, Prepare(t) PROVE HeldPortsReserved'
  BY <1>9 DEF Prepare, Abort, PortBusy
<1>10. ASSUME NEW t \in Apps, Commit(t) PROVE HeldPortsReserved'
  BY <1>10 DEF Commit, Abort
<1>11. ASSUME NEW t \in Apps, Check(t) PROVE HeldPortsReserved'
  BY <1>11 DEF Check
<1>12. ASSUME NEW t \in Apps, Keep(t) PROVE HeldPortsReserved'
  BY <1>12 DEF Keep
<1>13. ASSUME NEW t \in Apps, Unflag(t) PROVE HeldPortsReserved'
  BY <1>13 DEF Unflag
<1>14. ASSUME NEW t \in Apps, StopNext(t) PROVE HeldPortsReserved'
  BY <1>14 DEF StopNext
<1>15. ASSUME NEW t \in Apps, StopRead2(t) PROVE HeldPortsReserved'
  BY <1>15 DEF StopRead2
<1>16. ASSUME NEW t \in Apps, StopRead3(t) PROVE HeldPortsReserved'
  BY <1>16 DEF StopRead3
<1>17. ASSUME NEW t \in Apps, StopHangup(t) PROVE HeldPortsReserved'
  BY <1>17 DEF StopHangup, HangupGuarded, Invalid
<1>18. ASSUME NEW t \in Apps, StopDeny(t) PROVE HeldPortsReserved'
  BY <1>18 DEF StopDeny, Decline, Invalid
<1>19. ASSUME NEW t \in Apps, StopForce(t) PROVE HeldPortsReserved'
  BY <1>19 DEF StopForce
<1>20. ASSUME NEW t \in Apps, StopReturn(t) PROVE HeldPortsReserved'
  BY <1>20 DEF StopReturn
<1>21. ASSUME Lookup PROVE HeldPortsReserved'
  BY <1>21 DEF Lookup, Unhandled
<1>22. ASSUME Retrans PROVE HeldPortsReserved'
  BY <1>22 DEF Retrans, Unhandled
<1>23. ASSUME Ring PROVE HeldPortsReserved'
  BY <1>23 DEF Ring
<1>24. ASSUME Allocate PROVE HeldPortsReserved'
  <2>1. ASSUME NEW p \in FreePorts, Take(p) PROVE HeldPortsReserved'
    <3>1. p \in Ports /\ p \notin pool /\ building \in Calls /\ ~assigned[building]
      BY <1>24, <2>1 DEF Allocate, FreePorts
    <3>2. TypeOK /\ HeldPortsReserved
      OBVIOUS
    <3> QED
      BY <2>1, <3>1, <3>2, TakePort
  <2>2. CASE Reclaim
    BY <1>24, <2>2 DEF Reclaim
  <2> QED
    BY <1>24, <2>1, <2>2 DEF Allocate
<1>25. ASSUME ReclaimNext PROVE HeldPortsReserved'
  BY <1>25 DEF ReclaimNext
<1>26. ASSUME Reallocate PROVE HeldPortsReserved'
  <2>1. ASSUME NEW p \in FreePorts, Take(p) PROVE HeldPortsReserved'
    <3>1. p \in Ports /\ p \notin pool /\ building \in Calls /\ ~assigned[building]
      BY <1>26, <2>1 DEF Reallocate, FreePorts
    <3>2. TypeOK /\ HeldPortsReserved
      OBVIOUS
    <3> QED
      BY <2>1, <3>1, <3>2, TakePort
  <2>2. CASE Refuse
    BY <1>26, <2>2 DEF Refuse, CleanupDead
  <2> QED
    BY <1>26, <2>1, <2>2 DEF Reallocate
<1>27. ASSUME Register PROVE HeldPortsReserved'
  BY <1>27 DEF Register
<1>28. ASSUME Dispatch PROVE HeldPortsReserved'
  BY <1>28 DEF Dispatch
<1>29. ASSUME Undispatch PROVE HeldPortsReserved'
  BY <1>29 DEF Undispatch, Unhandled
<1>30. ASSUME Discard PROVE HeldPortsReserved'
  BY <1>30 DEF Discard
<1>31. ASSUME Fail PROVE HeldPortsReserved'
  BY <1>31 DEF Fail, Built
<1>32. ASSUME Cancel PROVE HeldPortsReserved'
  BY <1>32 DEF Cancel
<1>33. ASSUME Bye PROVE HeldPortsReserved'
  BY <1>33 DEF Bye, Unhandled
<1>34. ASSUME NEW t \in Apps, Stop(t) PROVE HeldPortsReserved'
  BY <1>34 DEF Stop, Idle, RegisteredCalls
<1>35. ASSUME NEW t \in Apps, NEW c \in Calls, Answer(t, c)
       PROVE HeldPortsReserved'
  BY <1>35 DEF Answer, Idle
<1>36. ASSUME NEW t \in Apps, NEW c \in Calls, Deny(t, c)
       PROVE HeldPortsReserved'
  BY <1>36 DEF Deny, Decline, Idle
<1>37. ASSUME NEW t \in Apps, NEW c \in Calls, Hangup(t, c)
       PROVE HeldPortsReserved'
  BY <1>37 DEF Hangup, HangupGuarded, Idle
<1>38. ASSUME NEW i \in Invites, RecvInvite(i) PROVE HeldPortsReserved'
  BY <1>38 DEF RecvInvite, Idle, Receive, Unhandled
<1>39. ASSUME NEW i \in Invites, RecvCancel(i) PROVE HeldPortsReserved'
  BY <1>39 DEF RecvCancel, Idle, Receive, Unhandled
<1>40. ASSUME NEW i \in Invites, NEW c \in Calls, RecvBye(i, c)
       PROVE HeldPortsReserved'
  BY <1>40 DEF RecvBye, Idle, Receive, Unhandled
<1>41. ASSUME NEW c \in Calls, CallbackRuns(c) PROVE HeldPortsReserved'
  BY <1>41 DEF CallbackRuns
<1>42. ASSUME NEW c \in Calls, CallbackReturns(c) PROVE HeldPortsReserved'
  BY <1>42 DEF CallbackReturns
<1>43. CASE UNCHANGED vars
  BY <1>43 DEF vars
<1> HIDE DEF IInv, HeldPortsReserved
<1> QED
  BY <1>1, <1>2, <1>3, <1>4, <1>5, <1>6, <1>7, <1>8, <1>9, <1>10, <1>11,
     <1>12, <1>13, <1>14, <1>15, <1>16, <1>17, <1>18, <1>19, <1>20,
     <1>21, <1>22, <1>23, <1>24, <1>25, <1>26, <1>27, <1>28, <1>29,
     <1>30, <1>31, <1>32, <1>33, <1>34, <1>35, <1>36, <1>37, <1>38,
     <1>39, <1>40, <1>41, <1>42, <1>43
  DEF Next, Step, Ending, AppStep, RecvStep, Request, Message, Threads

(* Only the thread that raised _answer_in_progress prepares or aborts the  *)
(* answer of the call.                                                     *)
LEMMA AnswerInvStep ==
    ASSUME IInv, [Next]_vars
    PROVE  AnswerInv'
<1> USE ConstantsAssumption
       DEF IInv, TypeOK, CallType, PhoneType, FrameType, LoopType,
          FrameInv, AnswerLabels, Threads, Advance, Reach, Enter, Go,
          After, Tail, Reject,
          lifeVars, mediaVars, frontVars, registryVars, poolVars, frameVars,
          loopVars, recvVars
<1>1. ASSUME NEW t \in Threads, StopMedia(t) PROVE AnswerInv'
  <2>1. /\ UNCHANGED answering
        /\ \A d \in Calls : handed[d] => handed'[d]
        /\ \A u \in Threads : routine'[u] \in {"answer", "abort"} =>
               routine[u] \in {"answer", "abort"} /\ cur'[u] = cur[u]
    BY <1>1 DEF StopMedia
  <2> QED
    BY <2>1, AnswerKept
<1>2. ASSUME NEW t \in Threads, SetEnded(t) PROVE AnswerInv'
  <2>1. /\ UNCHANGED answering
        /\ \A d \in Calls : handed[d] => handed'[d]
        /\ \A u \in Threads : routine'[u] \in {"answer", "abort"} =>
               routine[u] \in {"answer", "abort"} /\ cur'[u] = cur[u]
    BY <1>2 DEF SetEnded
  <2> QED
    BY <2>1, AnswerKept
<1>3. ASSUME NEW t \in Threads, Finalize(t) PROVE AnswerInv'
  <2>1. /\ UNCHANGED answering
        /\ \A d \in Calls : handed[d] => handed'[d]
        /\ \A u \in Threads : routine'[u] \in {"answer", "abort"} =>
               routine[u] \in {"answer", "abort"} /\ cur'[u] = cur[u]
    BY <1>3 DEF Finalize, Reach
  <2> QED
    BY <2>1, AnswerKept
<1>4. ASSUME NEW t \in Threads, Release(t) PROVE AnswerInv'
  <2>1. /\ UNCHANGED answering
        /\ \A d \in Calls : handed[d] => handed'[d]
        /\ \A u \in Threads : routine'[u] \in {"answer", "abort"} =>
               routine[u] \in {"answer", "abort"} /\ cur'[u] = cur[u]
    BY <1>4 DEF Release, CleanupDead, DeadInvites
  <2> QED
    BY <2>1, AnswerKept
<1>5. ASSUME NEW t \in Threads, Remove(t) PROVE AnswerInv'
  <2>1. /\ UNCHANGED answering
        /\ \A d \in Calls : handed[d] => handed'[d]
        /\ \A u \in Threads : routine'[u] \in {"answer", "abort"} =>
               routine[u] \in {"answer", "abort"} /\ cur'[u] = cur[u]
    BY <1>5 DEF Remove
  <2> QED
    BY <2>1, AnswerKept
<1>6. ASSUME NEW t \in Threads, Remember(t) PROVE AnswerInv'
  <2>1. /\ UNCHANGED answering
        /\ \A d \in Calls : handed[d] => handed'[d]
        /\ \A u \in Threads : routine'[u] \in {"answer", "abort"} =>
               routine[u] \in {"answer", "abort"} /\ cur'[u] = cur[u]
    BY <1>6 DEF Remember, Key
  <2> QED
    BY <2>1, AnswerKept
<1>7. ASSUME NEW t \in Threads, Send(t) PROVE AnswerInv'
  <2>1. /\ UNCHANGED answering
        /\ \A d \in Calls : handed[d] => handed'[d]
        /\ \A u \in Threads : routine'[u] \in {"answer", "abort"} =>
               routine[u] \in {"answer", "abort"} /\ cur'[u] = cur[u]
    BY <1>7, SMTT(60) DEF Send, Requested, Enter, Go
  <2> QED
    BY <2>1, AnswerKept
<1>8. ASSUME NEW t \in Threads, SendBye(t) PROVE AnswerInv'
  <2>1. /\ UNCHANGED answering
        /\ \A d \in Calls : handed[d] => handed'[d]
        /\ \A u \in Threads : routine'[u] \in {"answer", "abort"} =>
               routine[u] \in {"answer", "abort"} /\ cur'[u] = cur[u]
    BY <1>8 DEF SendBye
  <2> QED
    BY <2>1, AnswerKept
<1>9. ASSUME NEW t \in Apps, Prepare(t) PROVE AnswerInv'
  <2>1. /\ UNCHANGED answering
        /\ \A d \in Calls : handed[d] => handed'[d]
        /\ \A u \in Threads : routine'[u] \in {"answer", "abort"} =>
               routine[u] \in {"answer", "abort"} /\ cur'[u] = cur[u]
    BY <1>9 DEF Prepare, Abort, PortBusy
  <2> QED
    BY <2>1, AnswerKept
<1>10. ASSUME NEW t \in Apps, Commit(t) PROVE AnswerInv'
  <2>1. /\ UNCHANGED answering
        /\ \A d \in Calls : handed[d] => handed'[d]
        /\ \A u \in Threads : routine'[u] \in {"answer", "abort"} =>
               routine[u] \in {"answer", "abort"} /\ cur'[u] = cur[u]
    BY <1>10 DEF Commit, Abort
  <2> QED
    BY <2>1, AnswerKept
<1>11. ASSUME NEW t \in Apps, Check(t) PROVE AnswerInv'
  <2>1. /\ UNCHANGED answering
        /\ \A d \in Calls : handed[d] => handed'[d]
        /\ \A u \in Threads : routine'[u] \in {"answer", "abort"} =>
               routine[u] \in {"answer", "abort"} /\ cur'[u] = cur[u]
    BY <1>11 DEF Check
  <2> QED
    BY <2>1, AnswerKept
<1>12. ASSUME NEW t \in Apps, Keep(t) PROVE AnswerInv'
  <2>1. /\ UNCHANGED answering
        /\ \A d \in Calls : handed[d] => handed'[d]
        /\ \A u \in Threads : routine'[u] \in {"answer", "abort"} =>
               routine[u] \in {"answer", "abort"} /\ cur'[u] = cur[u]
    BY <1>12 DEF Keep
  <2> QED
    BY <2>1, AnswerKept
<1>13. ASSUME NEW t \in Apps, Unflag(t) PROVE AnswerInv'
  <2>1. /\ AnswerInv
        /\ cur[t] \in Calls /\ AnswersCall(t, cur[t])
    BY <1>13 DEF Unflag, AnswersCall, CallLabels, CallRoutines
  <2>2. /\ \A c \in Calls : c # cur[t] => answering'[c] = answering[c]
        /\ routine'[t] = "none"
        /\ \A u \in Threads : u # t => routine'[u] = routine[u] /\ cur'[u] = cur[u]
        /\ UNCHANGED handed
    BY <1>13 DEF Unflag
  <2>3. \A u \in Threads : routine[u] \in {"answer", "abort"} => cur[u] \in Calls
    BY DEF CallRoutines
  <2> HIDE DEF IInv, TypeOK, FrameInv
  <2> QED
    BY <2>1, <2>2, <2>3 DEF AnswerInv, AnswerExclusive, AnswersCall
<1>14. ASSUME NEW t \in Apps, StopNext(t) PROVE AnswerInv'
  <2>1. /\ UNCHANGED answering
        /\ \A d \in Calls : handed[d] => handed'[d]
        /\ \A u \in Threads : routine'[u] \in {"answer", "abort"} =>
               routine[u] \in {"answer", "abort"} /\ cur'[u] = cur[u]
    BY <1>14 DEF StopNext
  <2> QED
    BY <2>1, AnswerKept
<1>15. ASSUME NEW t \in Apps, StopRead2(t) PROVE AnswerInv'
  <2>1. /\ UNCHANGED answering
        /\ \A d \in Calls : handed[d] => handed'[d]
        /\ \A u \in Threads : routine'[u] \in {"answer", "abort"} =>
               routine[u] \in {"answer", "abort"} /\ cur'[u] = cur[u]
    BY <1>15 DEF StopRead2
  <2> QED
    BY <2>1, AnswerKept
<1>16. ASSUME NEW t \in Apps, StopRead3(t) PROVE AnswerInv'
  <2>1. /\ UNCHANGED answering
        /\ \A d \in Calls : handed[d] => handed'[d]
        /\ \A u \in Threads : routine'[u] \in {"answer", "abort"} =>
               routine[u] \in {"answer", "abort"} /\ cur'[u] = cur[u]
    BY <1>16 DEF StopRead3
  <2> QED
    BY <2>1, AnswerKept
<1>17. ASSUME NEW t \in Apps, StopHangup(t) PROVE AnswerInv'
  <2>1. /\ UNCHANGED answering
        /\ \A d \in Calls : handed[d] => handed'[d]
        /\ \A u \in Threads : routine'[u] \in {"answer", "abort"} =>
               routine[u] \in {"answer", "abort"} /\ cur'[u] = cur[u]
    BY <1>17 DEF StopHangup, HangupGuarded, Invalid
  <2> QED
    BY <2>1, AnswerKept
<1>18. ASSUME NEW t \in Apps, StopDeny(t) PROVE AnswerInv'
  <2>1. /\ UNCHANGED answering
        /\ \A d \in Calls : handed[d] => handed'[d]
        /\ \A u \in Threads : routine'[u] \in {"answer", "abort"} =>
               routine[u] \in {"answer", "abort"} /\ cur'[u] = cur[u]
    BY <1>18 DEF StopDeny, Decline, Invalid
  <2> QED
    BY <2>1, AnswerKept
<1>19. ASSUME NEW t \in Apps, StopForce(t) PROVE AnswerInv'
  <2>1. /\ UNCHANGED answering
        /\ \A d \in Calls : handed[d] => handed'[d]
        /\ \A u \in Threads : routine'[u] \in {"answer", "abort"} =>
               routine[u] \in {"answer", "abort"} /\ cur'[u] = cur[u]
    BY <1>19 DEF StopForce
  <2> QED
    BY <2>1, AnswerKept
<1>20. ASSUME NEW t \in Apps, StopReturn(t) PROVE AnswerInv'
  <2>1. /\ UNCHANGED answering
        /\ \A d \in Calls : handed[d] => handed'[d]
        /\ \A u \in Threads : routine'[u] \in {"answer", "abort"} =>
               routine[u] \in {"answer", "abort"} /\ cur'[u] = cur[u]
    BY <1>20 DEF StopReturn
  <2> QED
    BY <2>1, AnswerKept
<1>21. ASSUME Lookup PROVE AnswerInv'
  <2>1. /\ UNCHANGED answering
        /\ \A d \in Calls : handed[d] => handed'[d]
        /\ \A u \in Threads : routine'[u] \in {"answer", "abort"} =>
               routine[u] \in {"answer", "abort"} /\ cur'[u] = cur[u]
    BY <1>21 DEF Lookup, Unhandled
  <2> QED
    BY <2>1, AnswerKept
<1>22. ASSUME Retrans PROVE AnswerInv'
  <2>1. /\ UNCHANGED answering
        /\ \A d \in Calls : handed[d] => handed'[d]
        /\ \A u \in Threads : routine'[u] \in {"answer", "abort"} =>
               routine[u] \in {"answer", "abort"} /\ cur'[u] = cur[u]
    BY <1>22 DEF Retrans, Unhandled
  <2> QED
    BY <2>1, AnswerKept
<1>23. ASSUME Ring PROVE AnswerInv'
  <2>1. /\ UNCHANGED answering
        /\ \A d \in Calls : handed[d] => handed'[d]
        /\ \A u \in Threads : routine'[u] \in {"answer", "abort"} =>
               routine[u] \in {"answer", "abort"} /\ cur'[u] = cur[u]
    BY <1>23 DEF Ring
  <2> QED
    BY <2>1, AnswerKept
<1>24. ASSUME Allocate PROVE AnswerInv'
  <2>1. /\ UNCHANGED answering
        /\ \A d \in Calls : handed[d] => handed'[d]
        /\ \A u \in Threads : routine'[u] \in {"answer", "abort"} =>
               routine[u] \in {"answer", "abort"} /\ cur'[u] = cur[u]
    BY <1>24 DEF Allocate, Take, FreePorts, Reclaim, RegisteredCalls
  <2> QED
    BY <2>1, AnswerKept
<1>25. ASSUME ReclaimNext PROVE AnswerInv'
  <2>1. /\ UNCHANGED answering
        /\ \A d \in Calls : handed[d] => handed'[d]
        /\ \A u \in Threads : routine'[u] \in {"answer", "abort"} =>
               routine[u] \in {"answer", "abort"} /\ cur'[u] = cur[u]
    BY <1>25 DEF ReclaimNext
  <2> QED
    BY <2>1, AnswerKept
<1>26. ASSUME Reallocate PROVE AnswerInv'
  <2>1. /\ UNCHANGED answering
        /\ \A d \in Calls : handed[d] => handed'[d]
        /\ \A u \in Threads : routine'[u] \in {"answer", "abort"} =>
               routine[u] \in {"answer", "abort"} /\ cur'[u] = cur[u]
    BY <1>26 DEF Reallocate, Take, FreePorts, Refuse, CleanupDead, DeadInvites
  <2> QED
    BY <2>1, AnswerKept
<1>27. ASSUME Register PROVE AnswerInv'
  <2>1. /\ UNCHANGED answering
        /\ \A d \in Calls : handed[d] => handed'[d]
        /\ \A u \in Threads : routine'[u] \in {"answer", "abort"} =>
               routine[u] \in {"answer", "abort"} /\ cur'[u] = cur[u]
    BY <1>27 DEF Register
  <2> QED
    BY <2>1, AnswerKept
<1>28. ASSUME Dispatch PROVE AnswerInv'
  <2>1. /\ UNCHANGED answering
        /\ \A d \in Calls : handed[d] => handed'[d]
        /\ \A u \in Threads : routine'[u] \in {"answer", "abort"} =>
               routine[u] \in {"answer", "abort"} /\ cur'[u] = cur[u]
    BY <1>28 DEF Dispatch
  <2> QED
    BY <2>1, AnswerKept
<1>29. ASSUME Undispatch PROVE AnswerInv'
  <2>1. /\ UNCHANGED answering
        /\ \A d \in Calls : handed[d] => handed'[d]
        /\ \A u \in Threads : routine'[u] \in {"answer", "abort"} =>
               routine[u] \in {"answer", "abort"} /\ cur'[u] = cur[u]
    BY <1>29 DEF Undispatch, Unhandled
  <2> QED
    BY <2>1, AnswerKept
<1>30. ASSUME Discard PROVE AnswerInv'
  <2>1. /\ UNCHANGED answering
        /\ \A d \in Calls : handed[d] => handed'[d]
        /\ \A u \in Threads : routine'[u] \in {"answer", "abort"} =>
               routine[u] \in {"answer", "abort"} /\ cur'[u] = cur[u]
    BY <1>30 DEF Discard
  <2> QED
    BY <2>1, AnswerKept
<1>31. ASSUME Fail PROVE AnswerInv'
  <2>1. /\ UNCHANGED answering
        /\ \A d \in Calls : handed[d] => handed'[d]
        /\ \A u \in Threads : routine'[u] \in {"answer", "abort"} =>
               routine[u] \in {"answer", "abort"} /\ cur'[u] = cur[u]
    BY <1>31 DEF Fail, Built
  <2> QED
    BY <2>1, AnswerKept
<1>32. ASSUME Cancel PROVE AnswerInv'
  <2>1. /\ UNCHANGED answering
        /\ \A d \in Calls : handed[d] => handed'[d]
        /\ \A u \in Threads : routine'[u] \in {"answer", "abort"} =>
               routine[u] \in {"answer", "abort"} /\ cur'[u] = cur[u]
    BY <1>32 DEF Cancel
  <2> QED
    BY <2>1, AnswerKept
<1>33. ASSUME Bye PROVE AnswerInv'
  <2>1. /\ UNCHANGED answering
        /\ \A d \in Calls : handed[d] => handed'[d]
        /\ \A u \in Threads : routine'[u] \in {"answer", "abort"} =>
               routine[u] \in {"answer", "abort"} /\ cur'[u] = cur[u]
    BY <1>33 DEF Bye, Unhandled
  <2> QED
    BY <2>1, AnswerKept
<1>34. ASSUME NEW t \in Apps, Stop(t) PROVE AnswerInv'
  <2>1. /\ UNCHANGED answering
        /\ \A d \in Calls : handed[d] => handed'[d]
        /\ \A u \in Threads : routine'[u] \in {"answer", "abort"} =>
               routine[u] \in {"answer", "abort"} /\ cur'[u] = cur[u]
    BY <1>34 DEF Stop, Idle, RegisteredCalls
  <2> QED
    BY <2>1, AnswerKept
<1>35. ASSUME NEW t \in Apps, NEW c \in Calls, Answer(t, c) PROVE AnswerInv'
  <2>1. /\ AnswerInv
        /\ \A u \in Threads : routine[u] \in {"answer", "abort"} => cur[u] \in Calls
    BY DEF CallRoutines
  <2>2. /\ ~answering[c] /\ answering' = [answering EXCEPT ![c] = TRUE]
        /\ handed[c] /\ UNCHANGED handed
        /\ answering \in [Calls -> BOOLEAN]
    BY <1>35 DEF Answer
  <2>3. /\ routine'[t] = "answer" /\ cur'[t] = c
        /\ \A u \in Threads : u # t => routine'[u] = routine[u] /\ cur'[u] = cur[u]
    BY <1>35 DEF Answer
  <2> HIDE DEF IInv, TypeOK, FrameInv
  <2> QED
    BY <2>1, <2>2, <2>3 DEF AnswerInv, AnswerExclusive, AnswersCall
<1>36. ASSUME NEW t \in Apps, NEW c \in Calls, Deny(t, c) PROVE AnswerInv'
  <2>1. /\ UNCHANGED answering
        /\ \A d \in Calls : handed[d] => handed'[d]
        /\ \A u \in Threads : routine'[u] \in {"answer", "abort"} =>
               routine[u] \in {"answer", "abort"} /\ cur'[u] = cur[u]
    BY <1>36 DEF Deny, Decline, Idle
  <2> QED
    BY <2>1, AnswerKept
<1>37. ASSUME NEW t \in Apps, NEW c \in Calls, Hangup(t, c) PROVE AnswerInv'
  <2>1. /\ UNCHANGED answering
        /\ \A d \in Calls : handed[d] => handed'[d]
        /\ \A u \in Threads : routine'[u] \in {"answer", "abort"} =>
               routine[u] \in {"answer", "abort"} /\ cur'[u] = cur[u]
    BY <1>37 DEF Hangup, HangupGuarded, Idle
  <2> QED
    BY <2>1, AnswerKept
<1>38. ASSUME NEW i \in Invites, RecvInvite(i) PROVE AnswerInv'
  <2>1. /\ UNCHANGED answering
        /\ \A d \in Calls : handed[d] => handed'[d]
        /\ \A u \in Threads : routine'[u] \in {"answer", "abort"} =>
               routine[u] \in {"answer", "abort"} /\ cur'[u] = cur[u]
    BY <1>38 DEF RecvInvite, Idle, Receive, Unhandled
  <2> QED
    BY <2>1, AnswerKept
<1>39. ASSUME NEW i \in Invites, RecvCancel(i) PROVE AnswerInv'
  <2>1. /\ UNCHANGED answering
        /\ \A d \in Calls : handed[d] => handed'[d]
        /\ \A u \in Threads : routine'[u] \in {"answer", "abort"} =>
               routine[u] \in {"answer", "abort"} /\ cur'[u] = cur[u]
    BY <1>39 DEF RecvCancel, Idle, Receive, Unhandled
  <2> QED
    BY <2>1, AnswerKept
<1>40. ASSUME NEW i \in Invites, NEW c \in Calls, RecvBye(i, c)
       PROVE AnswerInv'
  <2>1. /\ UNCHANGED answering
        /\ \A d \in Calls : handed[d] => handed'[d]
        /\ \A u \in Threads : routine'[u] \in {"answer", "abort"} =>
               routine[u] \in {"answer", "abort"} /\ cur'[u] = cur[u]
    BY <1>40 DEF RecvBye, Idle, Receive, Unhandled
  <2> QED
    BY <2>1, AnswerKept
<1>41. ASSUME NEW c \in Calls, CallbackRuns(c) PROVE AnswerInv'
  <2>1. /\ UNCHANGED answering
        /\ \A d \in Calls : handed[d] => handed'[d]
        /\ \A u \in Threads : routine'[u] \in {"answer", "abort"} =>
               routine[u] \in {"answer", "abort"} /\ cur'[u] = cur[u]
    BY <1>41 DEF CallbackRuns
  <2> QED
    BY <2>1, AnswerKept
<1>42. ASSUME NEW c \in Calls, CallbackReturns(c) PROVE AnswerInv'
  <2>1. /\ UNCHANGED answering
        /\ \A d \in Calls : handed[d] => handed'[d]
        /\ \A u \in Threads : routine'[u] \in {"answer", "abort"} =>
               routine[u] \in {"answer", "abort"} /\ cur'[u] = cur[u]
    BY <1>42 DEF CallbackReturns
  <2> QED
    BY <2>1, AnswerKept
<1>43. CASE UNCHANGED vars
  <2>1. /\ UNCHANGED answering
        /\ \A d \in Calls : handed[d] => handed'[d]
        /\ \A u \in Threads : routine'[u] \in {"answer", "abort"} =>
               routine[u] \in {"answer", "abort"} /\ cur'[u] = cur[u]
    BY <1>43 DEF vars
  <2> QED
    BY <2>1, AnswerKept
<1> HIDE DEF IInv, AnswerInv
<1> QED
  BY <1>1, <1>2, <1>3, <1>4, <1>5, <1>6, <1>7, <1>8, <1>9, <1>10, <1>11,
     <1>12, <1>13, <1>14, <1>15, <1>16, <1>17, <1>18, <1>19, <1>20,
     <1>21, <1>22, <1>23, <1>24, <1>25, <1>26, <1>27, <1>28, <1>29,
     <1>30, <1>31, <1>32, <1>33, <1>34, <1>35, <1>36, <1>37, <1>38,
     <1>39, <1>40, <1>41, <1>42, <1>43
  DEF Next, Step, Ending, AppStep, RecvStep, Request, Message, Threads

(* A 200 is committed with the call still RINGING and after its callback   *)
(* started, and nothing takes _initial_invite_response back once the 200   *)
(* was sent.                                                               *)
LEMMA AcceptedInvStep ==
    ASSUME IInv, [Next]_vars
    PROVE  AcceptedInv'
<1> USE ConstantsAssumption
       DEF IInv, TypeOK, CallType, PhoneType, FrameType, LoopType,
          FrameInv, BuiltInv, BuildInv, AnswerInv, DecisionInv,
          AcceptedInv, DeclinedInv, DecidingInv, Unanswerable, Published,
          Constructing,
          AnswerLabels, CallLabels, CallRoutines, SendRoutines, Threads,
          Advance, Reach, Enter, Go, After, Tail, Reject,
          lifeVars, mediaVars, frontVars, registryVars, poolVars, frameVars,
          loopVars, recvVars
<1>1. ASSUME NEW t \in Threads, StopMedia(t) PROVE AcceptedInv'
  BY <1>1 DEF StopMedia
<1>2. ASSUME NEW t \in Threads, SetEnded(t) PROVE AcceptedInv'
  BY <1>2 DEF SetEnded
<1>3. ASSUME NEW t \in Threads, Finalize(t) PROVE AcceptedInv'
  BY <1>3 DEF Finalize, Reach
<1>4. ASSUME NEW t \in Threads, Release(t) PROVE AcceptedInv'
  BY <1>4 DEF Release, CleanupDead, DeadInvites
<1>5. ASSUME NEW t \in Threads, Remove(t) PROVE AcceptedInv'
  BY <1>5 DEF Remove
<1>6. ASSUME NEW t \in Threads, Remember(t) PROVE AcceptedInv'
  BY <1>6 DEF Remember, Key
<1>7. ASSUME NEW t \in Threads, Send(t) PROVE AcceptedInv'
  <2>1. UNCHANGED <<state, initial, cb, building>> /\ (Published' => Published)
    BY <1>7, SMTT(60) DEF Send
  <2>2. IInv /\ Send(t)
    BY <1>7
  <2>3. \A c \in Calls : \A k \in sent'[c] :
           \/ k \in sent[c]
           \/ k = 200 /\ initial[c] = 200
           \/ k # 200 /\ Unanswerable(c)
    BY <2>2, SendDecision
  <2>4. DecisionInv
    OBVIOUS
  <2> HIDE DEF IInv, TypeOK, Published
  <2> QED
    BY <2>1, <2>3, <2>4
<1>8. ASSUME NEW t \in Threads, SendBye(t) PROVE AcceptedInv'
  BY <1>8 DEF SendBye
<1>9. ASSUME NEW t \in Apps, Prepare(t) PROVE AcceptedInv'
  BY <1>9 DEF Prepare, Abort, PortBusy
<1>10. ASSUME NEW t \in Apps, Commit(t) PROVE AcceptedInv'
  <2>1. UNCHANGED <<cb, sent>>
    BY <1>10 DEF Commit, Abort
  <2>2. CASE UNCHANGED <<state, initial>>
    BY <2>1, <2>2
  <2>3. CASE /\ state[cur[t]] = "RINGING"
             /\ state' = [state EXCEPT ![cur[t]] = "ANSWERED"]
             /\ initial' = [initial EXCEPT ![cur[t]] = 200]
    <3>1. cur[t] \in Calls /\ cb[cur[t]] # "none"
      BY <1>10 DEF Commit
    <3> QED
      BY <2>1, <2>3, <3>1
  <2> QED
    BY <1>10, <2>2, <2>3 DEF Commit
<1>11. ASSUME NEW t \in Apps, Check(t) PROVE AcceptedInv'
  BY <1>11 DEF Check
<1>12. ASSUME NEW t \in Apps, Keep(t) PROVE AcceptedInv'
  BY <1>12 DEF Keep
<1>13. ASSUME NEW t \in Apps, Unflag(t) PROVE AcceptedInv'
  BY <1>13 DEF Unflag
<1>14. ASSUME NEW t \in Apps, StopNext(t) PROVE AcceptedInv'
  BY <1>14 DEF StopNext
<1>15. ASSUME NEW t \in Apps, StopRead2(t) PROVE AcceptedInv'
  BY <1>15 DEF StopRead2
<1>16. ASSUME NEW t \in Apps, StopRead3(t) PROVE AcceptedInv'
  BY <1>16 DEF StopRead3
<1>17. ASSUME NEW t \in Apps, StopHangup(t) PROVE AcceptedInv'
  BY <1>17 DEF StopHangup, HangupGuarded, Invalid
<1>18. ASSUME NEW t \in Apps, StopDeny(t) PROVE AcceptedInv'
  BY <1>18 DEF StopDeny, Decline, Invalid
<1>19. ASSUME NEW t \in Apps, StopForce(t) PROVE AcceptedInv'
  BY <1>19 DEF StopForce
<1>20. ASSUME NEW t \in Apps, StopReturn(t) PROVE AcceptedInv'
  BY <1>20 DEF StopReturn
<1>21. ASSUME Lookup PROVE AcceptedInv'
  BY <1>21 DEF Lookup, Unhandled
<1>22. ASSUME Retrans PROVE AcceptedInv'
  BY <1>22 DEF Retrans, Unhandled
<1>23. ASSUME Ring PROVE AcceptedInv'
  BY <1>23 DEF Ring
<1>24. ASSUME Allocate PROVE AcceptedInv'
  BY <1>24, SMTT(60) DEF Allocate, Take, FreePorts, Reclaim, RegisteredCalls
<1>25. ASSUME ReclaimNext PROVE AcceptedInv'
  BY <1>25 DEF ReclaimNext
<1>26. ASSUME Reallocate PROVE AcceptedInv'
  <2>1. ASSUME NEW p \in FreePorts, Take(p) PROVE AcceptedInv'
    BY <1>26, <2>1 DEF Reallocate, Take, FreePorts
  <2>2. CASE Refuse
    BY <1>26, <2>2 DEF Reallocate, Refuse, CleanupDead, DeadInvites
  <2> QED
    BY <1>26, <2>1, <2>2 DEF Reallocate
<1>27. ASSUME Register PROVE AcceptedInv'
  BY <1>27 DEF Register
<1>28. ASSUME Dispatch PROVE AcceptedInv'
  BY <1>28 DEF Dispatch
<1>29. ASSUME Undispatch PROVE AcceptedInv'
  BY <1>29 DEF Undispatch, Unhandled
<1>30. ASSUME Discard PROVE AcceptedInv'
  BY <1>30 DEF Discard
<1>31. ASSUME Fail PROVE AcceptedInv'
  BY <1>31 DEF Fail, Built
<1>32. ASSUME Cancel PROVE AcceptedInv'
  BY <1>32 DEF Cancel
<1>33. ASSUME Bye PROVE AcceptedInv'
  BY <1>33 DEF Bye, Unhandled
<1>34. ASSUME NEW t \in Apps, Stop(t) PROVE AcceptedInv'
  BY <1>34 DEF Stop, Idle, RegisteredCalls
<1>35. ASSUME NEW t \in Apps, NEW c \in Calls, Answer(t, c) PROVE AcceptedInv'
  BY <1>35 DEF Answer, Idle
<1>36. ASSUME NEW t \in Apps, NEW c \in Calls, Deny(t, c) PROVE AcceptedInv'
  BY <1>36 DEF Deny, Decline, Idle
<1>37. ASSUME NEW t \in Apps, NEW c \in Calls, Hangup(t, c) PROVE AcceptedInv'
  BY <1>37 DEF Hangup, HangupGuarded, Idle
<1>38. ASSUME NEW i \in Invites, RecvInvite(i) PROVE AcceptedInv'
  BY <1>38 DEF RecvInvite, Idle, Receive, Unhandled
<1>39. ASSUME NEW i \in Invites, RecvCancel(i) PROVE AcceptedInv'
  BY <1>39 DEF RecvCancel, Idle, Receive, Unhandled
<1>40. ASSUME NEW i \in Invites, NEW c \in Calls, RecvBye(i, c)
       PROVE AcceptedInv'
  BY <1>40 DEF RecvBye, Idle, Receive, Unhandled
<1>41. ASSUME NEW c \in Calls, CallbackRuns(c) PROVE AcceptedInv'
  BY <1>41 DEF CallbackRuns
<1>42. ASSUME NEW c \in Calls, CallbackReturns(c) PROVE AcceptedInv'
  BY <1>42 DEF CallbackReturns
<1>43. CASE UNCHANGED vars
  BY <1>43 DEF vars
<1> HIDE DEF IInv, AcceptedInv
<1> QED
  BY <1>1, <1>2, <1>3, <1>4, <1>5, <1>6, <1>7, <1>8, <1>9, <1>10, <1>11,
     <1>12, <1>13, <1>14, <1>15, <1>16, <1>17, <1>18, <1>19, <1>20,
     <1>21, <1>22, <1>23, <1>24, <1>25, <1>26, <1>27, <1>28, <1>29,
     <1>30, <1>31, <1>32, <1>33, <1>34, <1>35, <1>36, <1>37, <1>38,
     <1>39, <1>40, <1>41, <1>42, <1>43
  DEF Next, Step, Ending, AppStep, RecvStep, Request, Message, Threads

(* A call whose request was declined stays unanswerable.                   *)
LEMMA DeclinedInvStep ==
    ASSUME IInv, [Next]_vars
    PROVE  DeclinedInv'
<1> USE ConstantsAssumption
       DEF IInv, TypeOK, CallType, PhoneType, FrameType, LoopType,
          FrameInv, BuiltInv, BuildInv, AnswerInv, DecisionInv,
          AcceptedInv, DeclinedInv, DecidingInv, Unanswerable, Published,
          Constructing,
          AnswerLabels, CallLabels, CallRoutines, SendRoutines, Threads,
          Advance, Reach, Enter, Go, After, Tail, Reject,
          lifeVars, mediaVars, frontVars, registryVars, poolVars, frameVars,
          loopVars, recvVars
<1>1. ASSUME NEW t \in Threads, StopMedia(t) PROVE DeclinedInv'
  BY <1>1 DEF StopMedia
<1>2. ASSUME NEW t \in Threads, SetEnded(t) PROVE DeclinedInv'
  BY <1>2 DEF SetEnded
<1>3. ASSUME NEW t \in Threads, Finalize(t) PROVE DeclinedInv'
  BY <1>3 DEF Finalize, Reach
<1>4. ASSUME NEW t \in Threads, Release(t) PROVE DeclinedInv'
  BY <1>4 DEF Release, CleanupDead, DeadInvites
<1>5. ASSUME NEW t \in Threads, Remove(t) PROVE DeclinedInv'
  BY <1>5 DEF Remove
<1>6. ASSUME NEW t \in Threads, Remember(t) PROVE DeclinedInv'
  BY <1>6 DEF Remember, Key
<1>7. ASSUME NEW t \in Threads, Send(t) PROVE DeclinedInv'
  <2>1. UNCHANGED <<state, initial, cb, building>> /\ (Published' => Published)
    BY <1>7, SMTT(60) DEF Send
  <2>2. IInv /\ Send(t)
    BY <1>7
  <2>3. \A c \in Calls : \A k \in sent'[c] :
           \/ k \in sent[c]
           \/ k = 200 /\ initial[c] = 200
           \/ k # 200 /\ Unanswerable(c)
    BY <2>2, SendDecision
  <2>4. DecisionInv
    OBVIOUS
  <2> HIDE DEF IInv, TypeOK, Published
  <2> QED
    BY <2>1, <2>3, <2>4
<1>8. ASSUME NEW t \in Threads, SendBye(t) PROVE DeclinedInv'
  BY <1>8 DEF SendBye
<1>9. ASSUME NEW t \in Apps, Prepare(t) PROVE DeclinedInv'
  BY <1>9 DEF Prepare, Abort, PortBusy
<1>10. ASSUME NEW t \in Apps, Commit(t) PROVE DeclinedInv'
  BY <1>10 DEF Commit, Abort
<1>11. ASSUME NEW t \in Apps, Check(t) PROVE DeclinedInv'
  BY <1>11 DEF Check
<1>12. ASSUME NEW t \in Apps, Keep(t) PROVE DeclinedInv'
  BY <1>12 DEF Keep
<1>13. ASSUME NEW t \in Apps, Unflag(t) PROVE DeclinedInv'
  BY <1>13 DEF Unflag
<1>14. ASSUME NEW t \in Apps, StopNext(t) PROVE DeclinedInv'
  BY <1>14 DEF StopNext
<1>15. ASSUME NEW t \in Apps, StopRead2(t) PROVE DeclinedInv'
  BY <1>15 DEF StopRead2
<1>16. ASSUME NEW t \in Apps, StopRead3(t) PROVE DeclinedInv'
  BY <1>16 DEF StopRead3
<1>17. ASSUME NEW t \in Apps, StopHangup(t) PROVE DeclinedInv'
  BY <1>17 DEF StopHangup, HangupGuarded, Invalid
<1>18. ASSUME NEW t \in Apps, StopDeny(t) PROVE DeclinedInv'
  BY <1>18 DEF StopDeny, Decline, Invalid
<1>19. ASSUME NEW t \in Apps, StopForce(t) PROVE DeclinedInv'
  BY <1>19 DEF StopForce
<1>20. ASSUME NEW t \in Apps, StopReturn(t) PROVE DeclinedInv'
  BY <1>20 DEF StopReturn
<1>21. ASSUME Lookup PROVE DeclinedInv'
  BY <1>21 DEF Lookup, Unhandled
<1>22. ASSUME Retrans PROVE DeclinedInv'
  BY <1>22 DEF Retrans, Unhandled
<1>23. ASSUME Ring PROVE DeclinedInv'
  BY <1>23 DEF Ring
<1>24. ASSUME Allocate PROVE DeclinedInv'
  BY <1>24 DEF Allocate, Take, FreePorts, Reclaim, RegisteredCalls
<1>25. ASSUME ReclaimNext PROVE DeclinedInv'
  BY <1>25 DEF ReclaimNext
<1>26. ASSUME Reallocate PROVE DeclinedInv'
  BY <1>26 DEF Reallocate, Take, FreePorts, Refuse, CleanupDead, DeadInvites
<1>27. ASSUME Register PROVE DeclinedInv'
  BY <1>27 DEF Register
<1>28. ASSUME Dispatch PROVE DeclinedInv'
  BY <1>28 DEF Dispatch
<1>29. ASSUME Undispatch PROVE DeclinedInv'
  BY <1>29 DEF Undispatch, Unhandled
<1>30. ASSUME Discard PROVE DeclinedInv'
  BY <1>30 DEF Discard
<1>31. ASSUME Fail PROVE DeclinedInv'
  BY <1>31 DEF Fail, Built
<1>32. ASSUME Cancel PROVE DeclinedInv'
  BY <1>32 DEF Cancel
<1>33. ASSUME Bye PROVE DeclinedInv'
  BY <1>33 DEF Bye, Unhandled
<1>34. ASSUME NEW t \in Apps, Stop(t) PROVE DeclinedInv'
  BY <1>34 DEF Stop, Idle, RegisteredCalls
<1>35. ASSUME NEW t \in Apps, NEW c \in Calls, Answer(t, c) PROVE DeclinedInv'
  BY <1>35 DEF Answer, Idle
<1>36. ASSUME NEW t \in Apps, NEW c \in Calls, Deny(t, c) PROVE DeclinedInv'
  BY <1>36 DEF Deny, Decline, Idle
<1>37. ASSUME NEW t \in Apps, NEW c \in Calls, Hangup(t, c) PROVE DeclinedInv'
  BY <1>37 DEF Hangup, HangupGuarded, Idle
<1>38. ASSUME NEW i \in Invites, RecvInvite(i) PROVE DeclinedInv'
  BY <1>38 DEF RecvInvite, Idle, Receive, Unhandled
<1>39. ASSUME NEW i \in Invites, RecvCancel(i) PROVE DeclinedInv'
  BY <1>39 DEF RecvCancel, Idle, Receive, Unhandled
<1>40. ASSUME NEW i \in Invites, NEW c \in Calls, RecvBye(i, c)
       PROVE DeclinedInv'
  BY <1>40 DEF RecvBye, Idle, Receive, Unhandled
<1>41. ASSUME NEW c \in Calls, CallbackRuns(c) PROVE DeclinedInv'
  BY <1>41 DEF CallbackRuns
<1>42. ASSUME NEW c \in Calls, CallbackReturns(c) PROVE DeclinedInv'
  BY <1>42 DEF CallbackReturns
<1>43. CASE UNCHANGED vars
  BY <1>43 DEF vars
<1> HIDE DEF IInv, DeclinedInv
<1> QED
  BY <1>1, <1>2, <1>3, <1>4, <1>5, <1>6, <1>7, <1>8, <1>9, <1>10, <1>11,
     <1>12, <1>13, <1>14, <1>15, <1>16, <1>17, <1>18, <1>19, <1>20,
     <1>21, <1>22, <1>23, <1>24, <1>25, <1>26, <1>27, <1>28, <1>29,
     <1>30, <1>31, <1>32, <1>33, <1>34, <1>35, <1>36, <1>37, <1>38,
     <1>39, <1>40, <1>41, <1>42, <1>43
  DEF Next, Step, Ending, AppStep, RecvStep, Request, Message, Threads

(* What a thread is about to send agrees with what was decided.            *)
LEMMA DecidingInvStep ==
    ASSUME IInv, [Next]_vars
    PROVE  DecidingInv'
<1> USE ConstantsAssumption
       DEF IInv, TypeOK, CallType, PhoneType, FrameType, LoopType,
          FrameInv, BuiltInv, BuildInv, AnswerInv, DecisionInv,
          AcceptedInv, DeclinedInv, DecidingInv, Unanswerable, Published,
          Constructing,
          AnswerLabels, CallLabels, CallRoutines, SendRoutines, Threads,
          Advance, Reach, Enter, Go, After, Tail, Reject,
          lifeVars, mediaVars, frontVars, registryVars, poolVars, frameVars,
          loopVars, recvVars
<1>1. ASSUME NEW t \in Threads, StopMedia(t) PROVE DecidingInv'
  BY <1>1 DEF StopMedia
<1>2. ASSUME NEW t \in Threads, SetEnded(t) PROVE DecidingInv'
  BY <1>2 DEF SetEnded
<1>3. ASSUME NEW t \in Threads, Finalize(t) PROVE DecidingInv'
  BY <1>3 DEF Finalize, Reach
<1>4. ASSUME NEW t \in Threads, Release(t) PROVE DecidingInv'
  BY <1>4 DEF Release, CleanupDead, DeadInvites
<1>5. ASSUME NEW t \in Threads, Remove(t) PROVE DecidingInv'
  BY <1>5 DEF Remove
<1>6. ASSUME NEW t \in Threads, Remember(t) PROVE DecidingInv'
  BY <1>6 DEF Remember, Key
<1>7. ASSUME NEW t \in Threads, Send(t) PROVE DecidingInv'
  BY <1>7, SMTT(60) DEF Send, Requested, Enter, Go
<1>8. ASSUME NEW t \in Threads, SendBye(t) PROVE DecidingInv'
  BY <1>8 DEF SendBye
<1>9. ASSUME NEW t \in Apps, Prepare(t) PROVE DecidingInv'
  BY <1>9 DEF Prepare, Abort, PortBusy
<1>10. ASSUME NEW t \in Apps, Commit(t) PROVE DecidingInv'
  BY <1>10 DEF Commit, Abort
<1>11. ASSUME NEW t \in Apps, Check(t) PROVE DecidingInv'
  BY <1>11 DEF Check
<1>12. ASSUME NEW t \in Apps, Keep(t) PROVE DecidingInv'
  BY <1>12 DEF Keep
<1>13. ASSUME NEW t \in Apps, Unflag(t) PROVE DecidingInv'
  BY <1>13 DEF Unflag
<1>14. ASSUME NEW t \in Apps, StopNext(t) PROVE DecidingInv'
  BY <1>14 DEF StopNext
<1>15. ASSUME NEW t \in Apps, StopRead2(t) PROVE DecidingInv'
  BY <1>15 DEF StopRead2
<1>16. ASSUME NEW t \in Apps, StopRead3(t) PROVE DecidingInv'
  BY <1>16 DEF StopRead3
<1>17. ASSUME NEW t \in Apps, StopHangup(t) PROVE DecidingInv'
  BY <1>17 DEF StopHangup, HangupGuarded, Invalid
<1>18. ASSUME NEW t \in Apps, StopDeny(t) PROVE DecidingInv'
  BY <1>18 DEF StopDeny, Decline, Invalid
<1>19. ASSUME NEW t \in Apps, StopForce(t) PROVE DecidingInv'
  BY <1>19 DEF StopForce
<1>20. ASSUME NEW t \in Apps, StopReturn(t) PROVE DecidingInv'
  BY <1>20 DEF StopReturn
<1>21. ASSUME Lookup PROVE DecidingInv'
  BY <1>21 DEF Lookup, Unhandled
<1>22. ASSUME Retrans PROVE DecidingInv'
  BY <1>22 DEF Retrans, Unhandled
<1>23. ASSUME Ring PROVE DecidingInv'
  BY <1>23 DEF Ring
<1>24. ASSUME Allocate PROVE DecidingInv'
  BY <1>24 DEF Allocate, Take, FreePorts, Reclaim, RegisteredCalls
<1>25. ASSUME ReclaimNext PROVE DecidingInv'
  BY <1>25 DEF ReclaimNext
<1>26. ASSUME Reallocate PROVE DecidingInv'
  BY <1>26 DEF Reallocate, Take, FreePorts, Refuse, CleanupDead, DeadInvites
<1>27. ASSUME Register PROVE DecidingInv'
  BY <1>27 DEF Register
<1>28. ASSUME Dispatch PROVE DecidingInv'
  BY <1>28 DEF Dispatch
<1>29. ASSUME Undispatch PROVE DecidingInv'
  BY <1>29 DEF Undispatch, Unhandled
<1>30. ASSUME Discard PROVE DecidingInv'
  BY <1>30 DEF Discard
<1>31. ASSUME Fail PROVE DecidingInv'
  BY <1>31 DEF Fail, Built
<1>32. ASSUME Cancel PROVE DecidingInv'
  BY <1>32 DEF Cancel
<1>33. ASSUME Bye PROVE DecidingInv'
  BY <1>33 DEF Bye, Unhandled
<1>34. ASSUME NEW t \in Apps, Stop(t) PROVE DecidingInv'
  BY <1>34 DEF Stop, Idle, RegisteredCalls
<1>35. ASSUME NEW t \in Apps, NEW c \in Calls, Answer(t, c) PROVE DecidingInv'
  BY <1>35 DEF Answer, Idle
<1>36. ASSUME NEW t \in Apps, NEW c \in Calls, Deny(t, c) PROVE DecidingInv'
  BY <1>36 DEF Deny, Decline, Idle
<1>37. ASSUME NEW t \in Apps, NEW c \in Calls, Hangup(t, c) PROVE DecidingInv'
  BY <1>37 DEF Hangup, HangupGuarded, Idle
<1>38. ASSUME NEW i \in Invites, RecvInvite(i) PROVE DecidingInv'
  BY <1>38 DEF RecvInvite, Idle, Receive, Unhandled
<1>39. ASSUME NEW i \in Invites, RecvCancel(i) PROVE DecidingInv'
  BY <1>39 DEF RecvCancel, Idle, Receive, Unhandled
<1>40. ASSUME NEW i \in Invites, NEW c \in Calls, RecvBye(i, c)
       PROVE DecidingInv'
  BY <1>40 DEF RecvBye, Idle, Receive, Unhandled
<1>41. ASSUME NEW c \in Calls, CallbackRuns(c) PROVE DecidingInv'
  BY <1>41 DEF CallbackRuns
<1>42. ASSUME NEW c \in Calls, CallbackReturns(c) PROVE DecidingInv'
  BY <1>42 DEF CallbackReturns
<1>43. CASE UNCHANGED vars
  BY <1>43 DEF vars
<1> HIDE DEF IInv, DecidingInv
<1> QED
  BY <1>1, <1>2, <1>3, <1>4, <1>5, <1>6, <1>7, <1>8, <1>9, <1>10, <1>11,
     <1>12, <1>13, <1>14, <1>15, <1>16, <1>17, <1>18, <1>19, <1>20,
     <1>21, <1>22, <1>23, <1>24, <1>25, <1>26, <1>27, <1>28, <1>29,
     <1>30, <1>31, <1>32, <1>33, <1>34, <1>35, <1>36, <1>37, <1>38,
     <1>39, <1>40, <1>41, <1>42, <1>43
  DEF Next, Step, Ending, AppStep, RecvStep, Request, Message, Threads

----------------------------------------------------------------------------
(* The inductive invariant *)

(* A phone without calls satisfies IInv.                                   *)
LEMMA InitInv == Init => IInv
<1> SUFFICES ASSUME Init PROVE IInv
  OBVIOUS
<1> USE ConstantsAssumption DEF Init
<1>1. TypeOK
  <2>1. CallType
    BY DEF CallType, States
  <2>2. PhoneType
    BY DEF PhoneType, Codes
  <2>3. FrameType
    BY DEF FrameType, Labels, Routines, Codes
  <2>4. LoopType
    BY DEF LoopType
  <2> QED
    BY <2>1, <2>2, <2>3, <2>4 DEF TypeOK
<1>2. FrameInv
  BY DEF FrameInv, AnswerLabels, CallLabels, CallRoutines, Threads
<1>3. BuiltInv
  BY DEF BuiltInv
<1>4. BuildInv
  BY DEF BuildInv, Constructing, Published, Threads
<1>5. HeldPortsReserved
  BY DEF HeldPortsReserved, Holding
<1>6. AnswerInv
  BY DEF AnswerInv, AnswerExclusive, AnswersCall
<1>7. DecisionInv
  BY DEF DecisionInv, AcceptedInv, DeclinedInv, DecidingInv
<1> QED
  BY <1>1, <1>2, <1>3, <1>4, <1>5, <1>6, <1>7 DEF IInv

(* Every step keeps IInv.                                                  *)
LEMMA NextInv == IInv /\ [Next]_vars => IInv'
<1> SUFFICES ASSUME IInv, [Next]_vars PROVE IInv'
  OBVIOUS
<1>1. TypeOK'
  BY CallTypeStep, PhoneTypeStep, FrameTypeStep, LoopTypeStep DEF TypeOK
<1>2. DecisionInv'
  BY AcceptedInvStep, DeclinedInvStep, DecidingInvStep DEF DecisionInv
<1> QED
  BY <1>1, <1>2, FrameInvStep, BuiltInvStep, BuildInvStep,
     HeldPortsReservedStep, AnswerInvStep DEF IInv

(* IInv holds in every reachable state.                                    *)
THEOREM Invariance == Spec => []IInv
BY InitInv, NextInv, PTL DEF Spec

(* Every variable keeps its type, whatever the threads interleave.         *)
THEOREM TypeCorrect == Spec => []TypeOK
<1>1. IInv => TypeOK
  BY DEF IInv
<1> QED
  BY <1>1, Invariance, PTL

(* No two threads ever prepare or abort the answer of one call together.   *)
THEOREM AnswerExclusion == Spec => []AnswerExclusive
<1>1. IInv => AnswerExclusive
  BY DEF IInv, AnswerInv
<1> QED
  BY <1>1, Invariance, PTL

(* The request of a call is never both accepted and declined: a sent 200   *)
(* means _initial_invite_response is 200, a sent 486 or 487 that it never  *)
(* will be.                                                                *)
THEOREM Decision == Spec => []AcceptExcludesReject
<1>1. IInv => AcceptExcludesReject
  BY DEF IInv, DecisionInv, AcceptedInv, DeclinedInv, Unanswerable,
         AcceptExcludesReject
<1> QED
  BY <1>1, Invariance, PTL

(* The pool is exactly what unreleased calls hold, each port once.         *)
THEOREM PortReservation == Spec => []HeldPortsReserved
<1>1. IInv => HeldPortsReserved
  BY DEF IInv
<1> QED
  BY <1>1, Invariance, PTL

----------------------------------------------------------------------------
(* The abstract promise *)

(* A step of any thread is a step of the abstract lifecycle of one call,   *)
(* or changes neither its phase nor the port it holds.                     *)
LEMMA LifecycleStep ==
    ASSUME IInv, [Next]_vars
    PROVE  [Lifecycle!Next]_Lifecycle!vars
<1> USE ConstantsAssumption
       DEF IInv, TypeOK, CallType, PhoneType, FrameType, LoopType,
          FrameInv, BuiltInv, BuildInv, Published, Constructing, States,
          AnswerLabels, CallLabels, CallRoutines, SendRoutines, Threads,
          Enter, Go, held,
          lifeVars, mediaVars, frontVars, registryVars, poolVars, frameVars,
          loopVars, recvVars
<1>0. ASSUME UNCHANGED <<state, assigned, inPort>>
      PROVE [Lifecycle!Next]_Lifecycle!vars
  BY <1>0 DEF Lifecycle!vars
<1>a. ASSUME NEW c \in Calls, state[c] # "NONE",
             state' = [state EXCEPT ![c] = "ENDED"],
             UNCHANGED <<assigned, inPort>>
      PROVE  [Lifecycle!Next]_Lifecycle!vars
  <2>1. UNCHANGED held
    BY <1>a
  <2>2. CASE state[c] = "ENDED"
    <3>1. state' = state
      BY <1>a, <2>2
    <3> QED
      BY <2>1, <3>1 DEF Lifecycle!vars
  <2>3. CASE state[c] # "ENDED"
    <3>1. Lifecycle!End(c)
      BY <1>a, <2>1, <2>3 DEF Lifecycle!End
    <3> QED
      BY <3>1 DEF Lifecycle!Next
  <2> QED
    BY <2>2, <2>3
<1>b. ASSUME NEW p \in Ports, p \notin pool, Constructing, Take(p)
      PROVE  [Lifecycle!Next]_Lifecycle!vars
  <2>1. building \in Calls /\ state[building] = "NONE"
    BY <1>b
  <2>2. \A d \in Calls : held[d] # p
    BY <1>b DEF HeldPortsReserved, Holding
  <2>3. state' = [state EXCEPT ![building] = "RINGING"]
    BY <1>b DEF Take
  <2>4. held' = [held EXCEPT ![building] = p]
    BY <1>b, <2>1 DEF Take
  <2>5. Lifecycle!Build(building, p)
    <3> HIDE DEF IInv, TypeOK, held
    <3> QED
      BY <2>1, <2>2, <2>3, <2>4 DEF Lifecycle!Build
  <2> QED
    BY <2>1, <2>5 DEF Lifecycle!Next
<1>1. ASSUME NEW t \in Threads, StopMedia(t)
      PROVE [Lifecycle!Next]_Lifecycle!vars
  BY <1>1, <1>0 DEF StopMedia
<1>2. ASSUME NEW t \in Threads, SetEnded(t)
      PROVE [Lifecycle!Next]_Lifecycle!vars
  <2>1. cur[t] \in Calls /\ state[cur[t]] # "NONE"
    BY <1>2 DEF SetEnded
  <2> QED
    BY <1>2, <1>a, <2>1 DEF SetEnded
<1>3. ASSUME NEW t \in Threads, Finalize(t)
      PROVE [Lifecycle!Next]_Lifecycle!vars
  BY <1>3, <1>0 DEF Finalize, Reach
<1>4. ASSUME NEW t \in Threads, Release(t)
      PROVE [Lifecycle!Next]_Lifecycle!vars
  <2>1. cur[t] \in Calls
    BY <1>4 DEF Release
  <2>2. CASE ~assigned[cur[t]]
    <3>1. assigned' = assigned
      BY <1>4, <2>1, <2>2 DEF Release
    <3> QED
      BY <1>4, <1>0, <3>1 DEF Release
  <2>3. CASE assigned[cur[t]]
    <3>1. inPort[cur[t]] \in Ports
      BY <2>1, <2>3 DEF HeldPortsReserved, Holding
    <3>2. held' = [held EXCEPT ![cur[t]] = None]
      BY <1>4, <2>1 DEF Release
    <3>3. Lifecycle!Release(cur[t])
      BY <1>4, <2>1, <2>3, <3>1, <3>2 DEF Release, Lifecycle!Release
    <3>4. \E c \in Calls : Lifecycle!Release(c)
      <4> HIDE DEF IInv, TypeOK, held, HeldPortsReserved
      <4> QED
        BY <2>1, <3>3
    <3> QED
      <4> HIDE DEF IInv, TypeOK, held, HeldPortsReserved
      <4> QED
        BY <3>4 DEF Lifecycle!Next
  <2> QED
    BY <2>2, <2>3
<1>5. ASSUME NEW t \in Threads, Remove(t) PROVE [Lifecycle!Next]_Lifecycle!vars
  BY <1>5, <1>0 DEF Remove
<1>6. ASSUME NEW t \in Threads, Remember(t)
      PROVE [Lifecycle!Next]_Lifecycle!vars
  BY <1>6, <1>0 DEF Remember, Key
<1>7. ASSUME NEW t \in Threads, Send(t) PROVE [Lifecycle!Next]_Lifecycle!vars
  BY <1>7, <1>0 DEF Send, Requested, Enter, Go
<1>8. ASSUME NEW t \in Threads, SendBye(t)
      PROVE [Lifecycle!Next]_Lifecycle!vars
  BY <1>8, <1>0 DEF SendBye
<1>9. ASSUME NEW t \in Apps, Prepare(t) PROVE [Lifecycle!Next]_Lifecycle!vars
  BY <1>9, <1>0 DEF Prepare, Abort, PortBusy
<1>10. ASSUME NEW t \in Apps, Commit(t) PROVE [Lifecycle!Next]_Lifecycle!vars
  <2>1. cur[t] \in Calls
    BY <1>10 DEF Commit
  <2>2. CASE state' = state
    BY <1>10, <1>0, <2>2 DEF Commit
  <2>3. CASE /\ state[cur[t]] = "RINGING"
             /\ state' = [state EXCEPT ![cur[t]] = "ANSWERED"]
    <3>1. Lifecycle!Accept(cur[t])
      BY <1>10, <2>3 DEF Commit, Lifecycle!Accept
    <3> QED
      BY <2>1, <3>1 DEF Lifecycle!Next
  <2> QED
    BY <1>10, <2>2, <2>3 DEF Commit
<1>11. ASSUME NEW t \in Apps, Check(t) PROVE [Lifecycle!Next]_Lifecycle!vars
  BY <1>11, <1>0 DEF Check
<1>12. ASSUME NEW t \in Apps, Keep(t) PROVE [Lifecycle!Next]_Lifecycle!vars
  BY <1>12, <1>0 DEF Keep
<1>13. ASSUME NEW t \in Apps, Unflag(t) PROVE [Lifecycle!Next]_Lifecycle!vars
  BY <1>13, <1>0 DEF Unflag
<1>14. ASSUME NEW t \in Apps, StopNext(t) PROVE [Lifecycle!Next]_Lifecycle!vars
  BY <1>14, <1>0 DEF StopNext
<1>15. ASSUME NEW t \in Apps, StopRead2(t)
       PROVE [Lifecycle!Next]_Lifecycle!vars
  BY <1>15, <1>0 DEF StopRead2
<1>16. ASSUME NEW t \in Apps, StopRead3(t)
       PROVE [Lifecycle!Next]_Lifecycle!vars
  BY <1>16, <1>0 DEF StopRead3
<1>17. ASSUME NEW t \in Apps, StopHangup(t)
       PROVE [Lifecycle!Next]_Lifecycle!vars
  BY <1>17, <1>0 DEF StopHangup, HangupGuarded, Invalid
<1>18. ASSUME NEW t \in Apps, StopDeny(t) PROVE [Lifecycle!Next]_Lifecycle!vars
  <2>1. cur[t] \in Calls
    BY <1>18 DEF StopDeny
  <2>2. CASE Decline(t, cur[t])
    BY <1>a, <2>1, <2>2 DEF Decline
  <2>3. CASE Invalid(t)
    BY <1>0, <2>3 DEF Invalid
  <2> QED
    BY <1>18, <2>2, <2>3 DEF StopDeny
<1>19. ASSUME NEW t \in Apps, StopForce(t)
       PROVE [Lifecycle!Next]_Lifecycle!vars
  BY <1>19, <1>0 DEF StopForce
<1>20. ASSUME NEW t \in Apps, StopReturn(t)
       PROVE [Lifecycle!Next]_Lifecycle!vars
  BY <1>20, <1>0 DEF StopReturn
<1>21. ASSUME Lookup PROVE [Lifecycle!Next]_Lifecycle!vars
  BY <1>21, <1>0 DEF Lookup, Unhandled
<1>22. ASSUME Retrans PROVE [Lifecycle!Next]_Lifecycle!vars
  BY <1>22, <1>0 DEF Retrans, Unhandled
<1>23. ASSUME Ring PROVE [Lifecycle!Next]_Lifecycle!vars
  BY <1>23, <1>0 DEF Ring
<1>24. ASSUME Allocate PROVE [Lifecycle!Next]_Lifecycle!vars
  <2>1. ASSUME NEW p \in FreePorts, Take(p) PROVE [Lifecycle!Next]_Lifecycle!vars
    BY <1>24, <1>b, <2>1 DEF Allocate, FreePorts
  <2>2. CASE Reclaim
    BY <1>0, <2>2 DEF Reclaim
  <2> QED
    BY <1>24, <2>1, <2>2 DEF Allocate
<1>25. ASSUME ReclaimNext PROVE [Lifecycle!Next]_Lifecycle!vars
  BY <1>25, <1>0 DEF ReclaimNext
<1>26. ASSUME Reallocate PROVE [Lifecycle!Next]_Lifecycle!vars
  <2>1. ASSUME NEW p \in FreePorts, Take(p) PROVE [Lifecycle!Next]_Lifecycle!vars
    BY <1>26, <1>b, <2>1 DEF Reallocate, FreePorts
  <2>2. CASE Refuse
    <3>1. building \in Calls /\ state[building] = "NONE"
      BY <1>26 DEF Reallocate
    <3>2. Lifecycle!Refuse(building)
      BY <2>2, <3>1 DEF Refuse, Lifecycle!Refuse
    <3> QED
      BY <3>1, <3>2 DEF Lifecycle!Next
  <2> QED
    BY <1>26, <2>1, <2>2 DEF Reallocate
<1>27. ASSUME Register PROVE [Lifecycle!Next]_Lifecycle!vars
  BY <1>27, <1>0 DEF Register
<1>28. ASSUME Dispatch PROVE [Lifecycle!Next]_Lifecycle!vars
  BY <1>28, <1>0 DEF Dispatch
<1>29. ASSUME Undispatch PROVE [Lifecycle!Next]_Lifecycle!vars
  BY <1>29, <1>0 DEF Undispatch, Unhandled
<1>30. ASSUME Discard PROVE [Lifecycle!Next]_Lifecycle!vars
  BY <1>30, <1>0 DEF Discard
<1>31. ASSUME Fail PROVE [Lifecycle!Next]_Lifecycle!vars
  BY <1>31, <1>0 DEF Fail, Built
<1>32. ASSUME Cancel PROVE [Lifecycle!Next]_Lifecycle!vars
  <2>1. CASE state' = state
    BY <1>32, <1>0, <2>1 DEF Cancel
  <2>2. CASE state' # state
    <3>1. PICK c \in Calls : /\ state[c] = "RINGING"
                             /\ state' = [state EXCEPT ![c] = "ENDED"]
      BY <1>32, <2>2 DEF Cancel
    <3> QED
      BY <1>32, <1>a, <3>1 DEF Cancel
  <2> QED
    BY <2>1, <2>2
<1>33. ASSUME Bye PROVE [Lifecycle!Next]_Lifecycle!vars
  BY <1>33, <1>0 DEF Bye, Unhandled
<1>34. ASSUME NEW t \in Apps, Stop(t) PROVE [Lifecycle!Next]_Lifecycle!vars
  BY <1>34, <1>0 DEF Stop, Idle, RegisteredCalls
<1>35. ASSUME NEW t \in Apps, NEW c \in Calls, Answer(t, c)
       PROVE [Lifecycle!Next]_Lifecycle!vars
  BY <1>35, <1>0 DEF Answer, Idle
<1>36. ASSUME NEW t \in Apps, NEW c \in Calls, Deny(t, c)
       PROVE [Lifecycle!Next]_Lifecycle!vars
  BY <1>36, <1>a DEF Deny, Decline
<1>37. ASSUME NEW t \in Apps, NEW c \in Calls, Hangup(t, c)
       PROVE [Lifecycle!Next]_Lifecycle!vars
  BY <1>37, <1>0 DEF Hangup, HangupGuarded, Idle
<1>38. ASSUME NEW i \in Invites, RecvInvite(i)
       PROVE [Lifecycle!Next]_Lifecycle!vars
  BY <1>38, <1>0 DEF RecvInvite, Idle, Receive, Unhandled
<1>39. ASSUME NEW i \in Invites, RecvCancel(i)
       PROVE [Lifecycle!Next]_Lifecycle!vars
  BY <1>39, <1>0 DEF RecvCancel, Idle, Receive, Unhandled
<1>40. ASSUME NEW i \in Invites, NEW c \in Calls, RecvBye(i, c)
       PROVE [Lifecycle!Next]_Lifecycle!vars
  BY <1>40, <1>0 DEF RecvBye, Idle, Receive, Unhandled
<1>41. ASSUME NEW c \in Calls, CallbackRuns(c)
       PROVE [Lifecycle!Next]_Lifecycle!vars
  BY <1>41, <1>0 DEF CallbackRuns
<1>42. ASSUME NEW c \in Calls, CallbackReturns(c)
       PROVE [Lifecycle!Next]_Lifecycle!vars
  BY <1>42, <1>0 DEF CallbackReturns
<1>43. CASE UNCHANGED vars
  BY <1>43, <1>0 DEF vars
<1> HIDE DEF IInv
<1> QED
  BY <1>1, <1>2, <1>3, <1>4, <1>5, <1>6, <1>7, <1>8, <1>9, <1>10, <1>11,
     <1>12, <1>13, <1>14, <1>15, <1>16, <1>17, <1>18, <1>19, <1>20,
     <1>21, <1>22, <1>23, <1>24, <1>25, <1>26, <1>27, <1>28, <1>29,
     <1>30, <1>31, <1>32, <1>33, <1>34, <1>35, <1>36, <1>37, <1>38,
     <1>39, <1>40, <1>41, <1>42, <1>43
  DEF Next, Step, Ending, AppStep, RecvStep, Request, Message, Threads

(* The phone implements CallLifecycle.                                     *)
THEOREM Refinement == Spec => ImplementsLifecycle
<1>1. Init => Lifecycle!Init
  BY DEF Init, Lifecycle!Init, held
<1>2. IInv /\ [Next]_vars => [Lifecycle!Next]_Lifecycle!vars
  BY LifecycleStep
<1> QED
  BY <1>1, <1>2, Invariance, PTL DEF Spec, ImplementsLifecycle, Lifecycle!Spec

(* No step of any thread revives an ended call, for no step of the         *)
(* abstract lifecycle does.                                                *)
THEOREM EndedStays == Spec => EndedIsFinal
<1>1. ASSUME IInv, [Next]_vars, NEW c \in Calls, state[c] = "ENDED"
      PROVE  state'[c] = "ENDED"
  <2>1. [Lifecycle!Next]_Lifecycle!vars
    BY <1>1, LifecycleStep
  <2>2. state \in [Calls -> States]
    BY <1>1 DEF IInv, TypeOK, CallType
  <2>3. CASE Lifecycle!Next
    BY <1>1, <2>2, <2>3
    DEF Lifecycle!Next, Lifecycle!Build, Lifecycle!Refuse, Lifecycle!Accept,
        Lifecycle!End, Lifecycle!Release
  <2>4. CASE UNCHANGED Lifecycle!vars
    BY <1>1, <2>4 DEF Lifecycle!vars
  <2> QED
    BY <2>1, <2>3, <2>4
<1>2. IInv /\ [Next]_vars
        => [\A c \in Calls : state[c] = "ENDED" => state'[c] = "ENDED"]_vars
  BY <1>1
<1> QED
  BY <1>2, Invariance, PTL DEF Spec, EndedIsFinal
----------------------------------------------------------------------------
(* How a step moves a thread *)

(* The other threads stay where they are.                                  *)
Alone(t) ==
    \A u \in Threads \ {t} :
        /\ pc'[u] = pc[u] /\ routine'[u] = routine[u]
        /\ cur'[u] = cur[u] /\ code'[u] = code[u]

(* What the three forms of a move write.                                   *)
LEMMA EnterMoves ==
    ASSUME FrameType, NEW t \in Threads, NEW r, NEW c, NEW l, NEW k,
           Enter(t, r, c, l, k)
    PROVE  /\ Alone(t) /\ pc'[t] = l
           /\ routine'[t] = r /\ cur'[t] = c /\ code'[t] = k
  BY DEF FrameType, Enter, Go, Alone

LEMMA GoOnly ==
    ASSUME FrameType, NEW t \in Threads, NEW l, Go(t, l), UNCHANGED frameVars
    PROVE  /\ Alone(t) /\ pc'[t] = l
           /\ routine' = routine /\ cur' = cur /\ code' = code
  BY DEF FrameType, Go, Alone, frameVars

(* Going on in the text of a routine keeps its frame, unless the routine   *)
(* ends.                                                                   *)
LEMMA ReachMoves ==
    ASSUME FrameType, NEW t \in Threads, NEW l, Reach(t, l)
    PROVE  /\ Alone(t) /\ pc'[t] = l
           /\ \/ /\ l \notin {"idle", "next", "reclaim"}
                 /\ routine'[t] = routine[t] /\ cur'[t] = cur[t] /\ code'[t] = code[t]
              \/ /\ l \in {"idle", "next", "reclaim"}
                 /\ routine'[t] = "none" /\ cur'[t] = None /\ code'[t] = 0
<1>1. CASE l \in {"idle", "next", "reclaim"}
  BY <1>1, EnterMoves DEF Reach
<1>2. CASE l \notin {"idle", "next", "reclaim"}
  BY <1>2, GoOnly DEF Reach
<1> QED
  BY <1>1, <1>2

(* Where the steps that matter here come from in the text of a routine.    *)
LEMMA TailOrigins ==
    ASSUME NEW r \in Routines, NEW k \in Codes, NEW stop \in BOOLEAN
    PROVE  /\ Tail(r, k, stop) \in {"unflag", "fail", "reclaim", "force", "next", "idle"}
           /\ Tail(r, k, stop) = "reclaim" => r = "reclaim"
           /\ Tail(r, k, stop) = "force" => r = "deny"
  BY DEF Tail, Routines

LEMMA AfterOrigins ==
    ASSUME NEW r \in Routines, NEW l \in Labels, NEW k \in Codes,
           NEW stop \in BOOLEAN
    PROVE  LET m == After(r, l, k, stop)
           IN  /\ m \notin {"ring", "reallocate", "register", "dispatch", "undispatch",
                            "hangup", "check", "keep", "prepare", "commit"}
               /\ m = "allocate" => r = "ringing"
               /\ m = "reclaim" => r = "reclaim"
               /\ m = "force" => r = "deny"
               /\ m = "sendbye" => r = "hangup" /\ l = "media"
               /\ m = "media" => r = "deny" /\ l = "send"
               /\ m = "ended" => l \in {"media", "sendbye"} \/ r = "cancelled"
               /\ m = "send" => l = "remember"
               /\ m = "remember" => \/ r = "cancelled" /\ l = "media"
                                    \/ r = "undispatched" /\ l = "ended"
                                    \/ r = "answer" /\ l = "send"
                                    \/ r = "reply" /\ l = "send" /\ k = 200
<1> DEFINE n == Tail(r, k, stop)
           m == After(r, l, k, stop)
<1>1. /\ n \in {"unflag", "fail", "reclaim", "force", "next", "idle"}
      /\ n = "reclaim" => r = "reclaim"
      /\ n = "force" => r = "deny"
  BY TailOrigins
<1>2. m \in {n, "send", "unflag", "remember", "media", "ended", "fin", "fail",
             "allocate", "discard", "sendbye", "release", "remove"}
  BY DEF After
<1>3. m = "allocate" => m = n \/ r = "ringing"
  BY DEF After
<1>4. m = "sendbye" => m = n \/ (r = "hangup" /\ l = "media")
  BY DEF After
<1>5. m = "media" => m = n \/ (r = "deny" /\ l = "send")
  BY DEF After
<1>6. m = "ended" => m = n \/ l \in {"media", "sendbye"} \/ r = "cancelled"
  BY DEF After
<1>7. m = "send" => m = n \/ l = "remember"
  BY DEF After
<1>8. m = "remember" => \/ m = n
                        \/ r = "cancelled" /\ l = "media"
                        \/ r = "undispatched" /\ l = "ended"
                        \/ r = "answer" /\ l = "send"
                        \/ r = "reply" /\ l = "send" /\ k = 200
  BY DEF After
<1> HIDE DEF n, m
<1> QED
  BY <1>1, <1>2, <1>3, <1>4, <1>5, <1>6, <1>7, <1>8 DEF m

(* What follows the steps whose successors matter.                         *)
LEMMA AfterEnds ==
    ASSUME NEW k \in Codes, NEW stop \in BOOLEAN
    PROVE  /\ After("cancelled", "media", k, stop) = "remember"
           /\ After("undispatched", "media", k, stop) = "ended"
           /\ After("undispatched", "ended", k, stop) = "remember"
           /\ After("answer", "send", k, stop) = "remember"
           /\ After("abort", "media", k, stop) = "ended"
  BY DEF After

LEMMA AdvanceMoves ==
    ASSUME TypeOK, NEW t \in Threads, Advance(t)
    PROVE  /\ Alone(t)
           /\ pc'[t] = After(routine[t], pc[t], code[t], stopping[t])
           /\ \/ /\ pc'[t] \notin {"idle", "next", "reclaim"}
                 /\ routine'[t] = routine[t] /\ cur'[t] = cur[t] /\ code'[t] = code[t]
              \/ /\ pc'[t] \in {"idle", "next", "reclaim"}
                 /\ routine'[t] = "none" /\ cur'[t] = None /\ code'[t] = 0
           /\ /\ routine[t] \in Routines /\ pc[t] \in Labels /\ code[t] \in Codes
              /\ stopping[t] \in BOOLEAN
  BY ReachMoves DEF TypeOK, FrameType, LoopType, Advance

(* The end of a call goes on in its routine, or leaves it.                 *)
LEMMA EndingMoves ==
    ASSUME IInv, NEW t \in Threads, Ending(t)
    PROVE  /\ Alone(t) /\ UNCHANGED <<inv, loopVars, recvVars>>
           /\ \/ routine'[t] = routine[t] /\ cur'[t] = cur[t]
              \/ /\ routine'[t] \in {"none", "abort", "deny", "reply"}
                 /\ cur'[t] \in {cur[t], None}
           /\ pc'[t] \notin {"ring", "reallocate", "register", "dispatch", "undispatch"}
           /\ pc'[t] = "allocate" => routine[t] = "ringing"
           /\ pc'[t] = "reclaim" => routine[t] = "reclaim"
           /\ pc'[t] = "idle" => routine'[t] = "none"
<1> DEFINE Goal == /\ Alone(t)
                   /\ \/ routine'[t] = routine[t] /\ cur'[t] = cur[t]
                      \/ /\ routine'[t] \in {"none", "abort", "deny", "reply"}
                         /\ cur'[t] \in {cur[t], None}
                   /\ pc'[t] \notin {"ring", "reallocate", "register", "dispatch",
                                     "undispatch"}
                   /\ pc'[t] = "allocate" => routine[t] = "ringing"
                   /\ pc'[t] = "reclaim" => routine[t] = "reclaim"
                   /\ pc'[t] = "idle" => routine'[t] = "none"
<1>0. TypeOK /\ FrameType
  BY DEF IInv, TypeOK
<1>1. ASSUME Advance(t) PROVE Goal
  <2>1. /\ routine[t] \in Routines /\ pc[t] \in Labels /\ code[t] \in Codes
        /\ stopping[t] \in BOOLEAN
        /\ Alone(t) /\ pc'[t] = After(routine[t], pc[t], code[t], stopping[t])
        /\ \/ routine'[t] = routine[t] /\ cur'[t] = cur[t] /\ pc'[t] # "idle"
           \/ routine'[t] = "none" /\ cur'[t] = None
    BY <1>0, <1>1, AdvanceMoves
  <2>2. /\ pc'[t] \notin {"ring", "reallocate", "register", "dispatch", "undispatch"}
        /\ pc'[t] = "allocate" => routine[t] = "ringing"
        /\ pc'[t] = "reclaim" => routine[t] = "reclaim"
    BY <2>1, AfterOrigins
  <2> QED
    BY <2>1, <2>2
<1>2. ASSUME Finalize(t) PROVE Goal
  <2>1. CASE finalized[cur[t]]
    <3>1. /\ routine[t] \in Routines /\ code[t] \in Codes /\ stopping[t] \in BOOLEAN
      BY <1>0 DEF TypeOK, FrameType, LoopType
    <3> DEFINE n == Tail(routine[t], code[t], stopping[t])
    <3>2. /\ n \in {"unflag", "fail", "reclaim", "force", "next", "idle"}
          /\ n = "reclaim" => routine[t] = "reclaim"
      BY <3>1, TailOrigins
    <3>3. Reach(t, n)
      BY <1>2, <2>1 DEF Finalize
    <3> HIDE DEF n
    <3>4. /\ Alone(t) /\ pc'[t] = n
          /\ \/ routine'[t] = routine[t] /\ cur'[t] = cur[t] /\ n # "idle"
             \/ routine'[t] = "none" /\ cur'[t] = None
      BY <1>0, <3>3, ReachMoves
    <3> QED
      BY <3>2, <3>4
  <2>2. CASE ~finalized[cur[t]]
    <3>1. Advance(t)
      BY <1>2, <2>2 DEF Finalize
    <3> QED
      BY <1>1, <3>1
  <2> QED
    BY <2>1, <2>2
<1>3. ASSUME Send(t) PROVE Goal
  <2>1. ASSUME NEW r \in {"none", "abort", "deny", "reply"}, NEW c \in {cur[t], None},
               NEW l \in {"check", "media", "discard", "fail"}, NEW k,
               Enter(t, r, c, l, k)
        PROVE  Goal
    <3>1. Alone(t) /\ pc'[t] = l /\ routine'[t] = r /\ cur'[t] = c
      BY <1>0, <2>1, EnterMoves
    <3> QED
      BY <2>1, <3>1
  <2>2. \/ Advance(t)
        \/ Enter(t, "abort", cur[t], "check", 0)
        \/ Enter(t, "deny", cur[t], "media", 0)
        \/ Enter(t, "none", None, "discard", 0)
        \/ Enter(t, "reply", cur[t], "fail", 0)
    BY <1>3 DEF Send
  <2> HIDE DEF Goal
  <2> QED
    BY <1>1, <2>1, <2>2
<1>4. Goal
  BY <1>1, <1>2, <1>3 DEF Ending, StopMedia, SetEnded, Release, Remove, Remember, SendBye
<1>5. UNCHANGED <<inv, loopVars, recvVars>>
  BY DEF Ending, StopMedia, SetEnded, Finalize, Release, Remove, Remember, Send,
         SendBye, mediaVars
<1> QED
  BY <1>4, <1>5

(* What an application thread turns to was in its loop or handed out.      *)
LEMMA AppMoves ==
    ASSUME IInv, NEW t \in Apps, AppStep(t) \/ Request(t)
    PROVE  /\ Alone(t) /\ UNCHANGED <<inv, calls, tag, recvVars>>
           /\ cur'[t] \in Calls => cur'[t] = cur[t] \/ cur'[t] \in todo[t] \/ handed[cur'[t]]
           /\ \A u \in Threads : todo'[u] \subseteq todo[u] \cup RegisteredCalls
           /\ \/ routine'[t] = routine[t] /\ cur'[t] = cur[t]
              \/ routine'[t] \in {"none", "answer", "abort", "deny", "hangup", "force",
                                  "finish"}
<1> DEFINE Kept == UNCHANGED <<inv, calls, tag, todo, recvVars>>
           Goal == /\ Alone(t)
                   /\ cur'[t] \in Calls =>
                         cur'[t] = cur[t] \/ cur'[t] \in todo[t] \/ handed[cur'[t]]
                   /\ \/ routine'[t] = routine[t] /\ cur'[t] = cur[t]
                      \/ routine'[t] \in {"none", "answer", "abort", "deny", "hangup",
                                          "force", "finish"}
<1>0. /\ FrameType /\ t \in Threads /\ None \notin Calls
      /\ todo \in [Threads -> SUBSET Calls]
  BY ConstantsAssumption DEF IInv, TypeOK, Threads, LoopType
<1>1. ASSUME NEW l, Go(t, l), UNCHANGED frameVars PROVE Goal
  BY <1>0, <1>1, GoOnly
<1>2. ASSUME NEW r \in {"none", "answer", "abort", "deny", "hangup", "force", "finish"},
             NEW c, NEW l, NEW k, Enter(t, r, c, l, k),
             c \in Calls => c = cur[t] \/ c \in todo[t] \/ handed[c]
      PROVE  Goal
  BY <1>0, <1>2, EnterMoves
<1>3. ASSUME Abort(t) PROVE Goal
  BY <1>2, <1>3 DEF Abort
<1>4. ASSUME NEW c, c = cur[t] \/ handed[c], Decline(t, c) \/ HangupGuarded(t, c)
      PROVE  Goal /\ Kept
  BY <1>2, <1>4 DEF Decline, HangupGuarded, mediaVars, registryVars, loopVars
<1>5. ASSUME Invalid(t) PROVE Goal /\ Kept
  BY <1>1, <1>5 DEF Invalid, mediaVars, registryVars, loopVars
<1>6. CASE \/ Prepare(t) \/ Commit(t) \/ Check(t) \/ Keep(t) \/ Unflag(t)
  <2>1. Kept
    BY <1>6 DEF Prepare, Commit, Check, Keep, Unflag, mediaVars, registryVars, loopVars
  <2>2. CASE Prepare(t)
    BY <1>1, <1>3, <2>1, <2>2 DEF Prepare
  <2>3. CASE Commit(t)
    BY <1>2, <1>3, <2>1, <2>3 DEF Commit
  <2>4. CASE Check(t) \/ Keep(t)
    BY <1>1, <2>1, <2>4 DEF Check, Keep
  <2>5. CASE Unflag(t)
    BY <1>0, <1>2, <2>1, <2>5 DEF Unflag
  <2> QED
    BY <1>6, <2>1, <2>2, <2>3, <2>4, <2>5
<1>7. CASE StopNext(t)
  <2>1. Goal
    BY <1>0, <1>2, <1>7 DEF StopNext
  <2>2. UNCHANGED <<inv, calls, tag, recvVars>>
    BY <1>7 DEF StopNext, mediaVars, registryVars
  <2>3. \A u \in Threads : todo'[u] \subseteq todo[u]
    BY <1>0, <1>7 DEF StopNext
  <2> QED
    BY <2>1, <2>2, <2>3
<1>8. CASE StopRead2(t) \/ StopRead3(t) \/ StopReturn(t)
  BY <1>1, <1>8 DEF StopRead2, StopRead3, StopReturn, mediaVars, registryVars, loopVars
<1>9. CASE StopHangup(t) \/ StopDeny(t)
  BY <1>4, <1>5, <1>9 DEF StopHangup, StopDeny
<1>10. CASE StopForce(t)
  BY <1>2, <1>10 DEF StopForce, mediaVars, registryVars, loopVars
<1>11. CASE Stop(t)
  <2>1. Goal /\ UNCHANGED <<inv, calls, tag, recvVars>>
    BY <1>1, <1>11 DEF Stop, mediaVars, registryVars
  <2>2. \A u \in Threads : todo'[u] \subseteq todo[u] \cup RegisteredCalls
    BY <1>0, <1>11 DEF Stop
  <2> QED
    BY <2>1, <2>2
<1>12. ASSUME NEW c \in Calls, Answer(t, c) \/ Deny(t, c) \/ Hangup(t, c)
       PROVE  Goal /\ Kept
  BY <1>2, <1>4, <1>12 DEF Answer, Deny, Hangup, mediaVars, registryVars, loopVars
<1> QED
  BY <1>6, <1>7, <1>8, <1>9, <1>10, <1>11, <1>12 DEF AppStep, Request

----------------------------------------------------------------------------
(* TagInv: a registered call owns the tag of its Call-ID *)

(* Steps that register no call, leave the tag of the call that is being    *)
(* made, and let nobody know that call.                                    *)
LEMMA TagStays ==
    ASSUME IInv, TagInv, TagOfRegisteredCall', Making => tag'[req] = tag[req],
           \A i \in Invites : calls'[i] \in {calls[i], None},
           (pc[Recv] = "ring" \/ Making)' => (pc[Recv] = "ring" \/ Making) /\ req' = req,
           Making' => Making /\ building' = building /\ pc'[Recv] # "idle",
           pc'[Recv] = "register" =>
               /\ pc[Recv] = "register"
               /\ \A t \in Threads :
                     /\ cur'[t] \in Calls =>
                            cur'[t] \in {cur[t]} \cup todo[t] \/ handed[cur'[t]]
                     /\ todo'[t] \subseteq todo[t] \cup RegisteredCalls
    PROVE  TagInv'
<1>2. pc[Recv] = "ring" \/ Making => req \in Invites
  BY DEF IInv, FrameInv, TagInv
<1>3. /\ (pc[Recv] = "ring" \/ Making)' => calls'[req'] = None
      /\ Making' => tag'[req'] = building' /\ pc'[Recv] # "idle"
  BY <1>2 DEF TagInv
<1>4. ASSUME pc'[Recv] = "register"
      PROVE  /\ \A t \in Threads : cur'[t] # building' /\ building' \notin todo'[t]
             /\ \A i \in Invites : calls'[i] # building'
  <2>1. /\ pc[Recv] = "register" /\ building' = building
        /\ building \in Calls /\ ~handed[building] /\ building # None
    BY <1>4, ConstantsAssumption
    DEF Making, IInv, BuildInv, Published, BuiltInv
  <2>2. /\ \A t \in Threads : cur[t] # building /\ building \notin todo[t]
        /\ \A i \in Invites : calls[i] # building
    BY <2>1 DEF TagInv
  <2>3. building \notin RegisteredCalls
    BY <2>2 DEF RegisteredCalls
  <2> QED
    BY <1>4, <2>1, <2>2, <2>3
<1> QED
  BY <1>3, <1>4 DEF TagInv

(* The end of a call never turns to one that is being made.                *)
LEMMA EndingMaking ==
    ASSUME IInv, NEW t \in Threads, Ending(t)
    PROVE  /\ (pc[Recv] = "ring" \/ Making)' => (pc[Recv] = "ring" \/ Making) /\ req' = req
           /\ Making' => Making /\ building' = building
           /\ pc'[Recv] = "register" => pc[Recv] = "register"
           /\ \A u \in Threads :
                 /\ cur'[u] \in Calls => cur'[u] = cur[u]
                 /\ todo'[u] = todo[u]
<1>0. /\ Recv \in Threads /\ None \notin Calls
      /\ UNCHANGED <<todo, req, building>>
  BY EndingMoves, ConstantsAssumption DEF Threads, loopVars, recvVars
<1>1. /\ Making' => Making
      /\ pc'[Recv] = "ring" => pc[Recv] = "ring"
      /\ pc'[Recv] = "register" => pc[Recv] = "register"
  <2>1. CASE t = Recv
    BY <1>0, <2>1, EndingMoves DEF Making, Constructing
  <2>2. CASE t # Recv
    <3>1. pc'[Recv] = pc[Recv] /\ routine'[Recv] = routine[Recv]
      BY <1>0, <2>2, EndingMoves DEF Alone
    <3> QED
      BY <3>1 DEF Making, Constructing
  <2> QED
    BY <2>1, <2>2
<1>2. \A u \in Threads : cur'[u] \in Calls => cur'[u] = cur[u]
  BY <1>0, EndingMoves DEF Alone
<1>3. \A u \in Threads : todo'[u] = todo[u]
  BY <1>0
<1> HIDE DEF Making
<1> QED
  BY <1>0, <1>1, <1>2, <1>3

(* _remove_call takes a tag along with the call it removes, and never the  *)
(* tag of the call that is being made.                                     *)
LEMMA RemoveTag ==
    ASSUME IInv, TagInv, NEW t \in Threads, Remove(t)
    PROVE  /\ TagOfRegisteredCall'
           /\ Making => tag'[req] = tag[req]
           /\ \A i \in Invites : calls'[i] \in {calls[i], None}
<1> DEFINE c == cur[t]
           i == inv[c]
<1>1. c \in Calls /\ state[c] # "NONE"
  BY DEF Remove, IInv, FrameInv, CallLabels, BuiltInv
<1>2. \/ UNCHANGED <<calls, tag>>
      \/ calls' = [calls EXCEPT ![i] = None] /\ tag' = tag
      \/ /\ calls' = [calls EXCEPT ![i] = None]
         /\ tag[i] = c /\ tag' = [tag EXCEPT ![i] = None]
  BY DEF Remove
<1>3. /\ calls \in [Invites -> Calls \cup {None}] /\ tag \in [Invites -> Calls \cup {None}]
      /\ None \notin Calls
  BY ConstantsAssumption DEF IInv, TypeOK, PhoneType
<1> HIDE DEF c, i
<1>4. TagOfRegisteredCall' /\ \A j \in Invites : calls'[j] \in {calls[j], None}
  BY <1>2, <1>3 DEF TagInv, TagOfRegisteredCall
<1>5. Making => building # c /\ req \in Invites /\ tag[req] = building
  <2>1. Constructing => state[building] = "NONE"
    BY DEF IInv, BuildInv
  <2>2. pc[Recv] = "register" => building # c
    BY DEF TagInv, c
  <2>3. Making => req \in Invites /\ tag[req] = building
    BY DEF IInv, FrameInv, TagInv
  <2> QED
    BY <1>1, <2>1, <2>2, <2>3 DEF Making
<1>6. Making => tag'[req] = tag[req]
  BY <1>2, <1>3, <1>5
<1> QED
  BY <1>4, <1>6

(* The steps of the end of a call.                                         *)
LEMMA EndingTag ==
    ASSUME IInv, TagInv, NEW t \in Threads, Ending(t)
    PROVE  TagInv'
<1>1. /\ TagOfRegisteredCall'
      /\ Making => tag'[req] = tag[req]
      /\ \A i \in Invites : calls'[i] \in {calls[i], None}
  <2>1. CASE Remove(t)
    BY <2>1, RemoveTag
  <2>2. CASE Release(t)
    <3>1. tag' = tag /\ \A i \in Invites : calls'[i] \in {calls[i], None}
      BY <2>2 DEF Release, CleanupDead
    <3> QED
      BY <3>1 DEF TagInv, TagOfRegisteredCall
  <2>3. CASE UNCHANGED <<calls, tag>>
    BY <2>3 DEF TagInv, TagOfRegisteredCall
  <2> QED
    BY <2>1, <2>2, <2>3
    DEF Ending, StopMedia, SetEnded, Finalize, Remember, Send, SendBye, registryVars
<1>2. Making' => pc'[Recv] # "idle"
  <2>1. CASE t = Recv
    BY <2>1, EndingMoves DEF Making, Constructing
  <2>2. CASE t # Recv
    <3>1. /\ pc'[Recv] = pc[Recv] /\ routine'[Recv] = routine[Recv]
          /\ Making => pc[Recv] # "idle"
      BY <2>2, EndingMoves DEF Alone, Threads, TagInv
    <3> QED
      BY <3>1 DEF Making, Constructing
  <2> QED
    BY <2>1, <2>2
<1> QED
  BY <1>1, <1>2, EndingMaking, TagStays

(* The steps of the application: it knows no call before it is registered. *)
LEMMA AppTag ==
    ASSUME IInv, TagInv, NEW t \in Apps, AppStep(t) \/ Request(t)
    PROVE  TagInv'
<1>1. /\ Alone(t) /\ UNCHANGED <<calls, tag, req, building>>
      /\ cur'[t] \in Calls => cur'[t] = cur[t] \/ cur'[t] \in todo[t] \/ handed[cur'[t]]
      /\ \A u \in Threads : todo'[u] \subseteq todo[u] \cup RegisteredCalls
  BY AppMoves DEF recvVars
<1>2. pc'[Recv] = pc[Recv] /\ routine'[Recv] = routine[Recv]
  BY <1>1, ConstantsAssumption DEF Alone, Threads
<1>3. /\ Making' <=> Making
      /\ Making => pc[Recv] # "idle"
  BY <1>1, <1>2 DEF Making, Constructing, TagInv
<1>4. \A u \in Threads :
         cur'[u] \in Calls => cur'[u] \in {cur[u]} \cup todo[u] \/ handed[cur'[u]]
  BY <1>1 DEF Alone
<1>5. TagOfRegisteredCall'
  BY <1>1 DEF TagInv, TagOfRegisteredCall
<1> QED
  BY <1>1, <1>2, <1>3, <1>4, <1>5, TagStays

(* The receive thread does something else than making a call.              *)
LEMMA ElsewhereTag ==
    ASSUME TagOfRegisteredCall',
           pc'[Recv] \notin {"ring", "allocate", "reclaim", "reallocate", "register"},
           routine'[Recv] \notin {"ringing", "reclaim"}
    PROVE  TagInv'
<1>1. ~Making' /\ pc'[Recv] \notin {"ring", "register"}
  BY DEF Making, Constructing
<1> QED
  BY <1>1 DEF TagInv

(* The steps of the receive thread that do: it hears of a request, or is   *)
(* done with one.                                                          *)
LEMMA HandleTag ==
    ASSUME IInv, TagInv,
           Message \/ Retrans \/ Dispatch \/ Undispatch \/ Discard \/ Fail \/ Cancel \/ Bye
    PROVE  TagInv'
<1> DEFINE Away == /\ pc'[Recv] \notin {"ring", "allocate", "reclaim", "reallocate",
                                        "register"}
                   /\ routine'[Recv] \notin {"ringing", "reclaim"}
<1>0. FrameType /\ Recv \in Threads
  BY DEF IInv, TypeOK, Threads
<1>1. ASSUME NEW r, NEW c, NEW l, NEW k, Enter(Recv, r, c, l, k),
             l \notin {"ring", "allocate", "reclaim", "reallocate", "register"},
             r \notin {"ringing", "reclaim"}
      PROVE  Away
  BY <1>0, <1>1, EnterMoves
<1>2. CASE Message
  <2>1. Away
    BY <1>1, <1>2 DEF Message, RecvInvite, RecvCancel, RecvBye
  <2>2. UNCHANGED <<calls, tag>>
    BY <1>2 DEF Message, RecvInvite, RecvCancel, RecvBye, Unhandled, registryVars
  <2> QED
    BY <2>1, <2>2, ElsewhereTag DEF TagInv, TagOfRegisteredCall
<1>3. CASE Retrans \/ Undispatch \/ Fail \/ Cancel \/ Bye
  <2>1. Away
    <3>1. CASE Retrans
      BY <1>1, <3>1 DEF Retrans
    <3>2. CASE Undispatch
      BY <1>1, <3>2 DEF Undispatch
    <3>3. CASE Fail
      BY <1>1, <3>3 DEF Fail
    <3>4. CASE Cancel
      BY <1>1, <3>4 DEF Cancel
    <3>5. CASE Bye
      BY <1>1, <3>5 DEF Bye
    <3> QED
      BY <1>3, <3>1, <3>2, <3>3, <3>4, <3>5
  <2>2. UNCHANGED <<calls, tag>>
    BY <1>3 DEF Retrans, Undispatch, Fail, Cancel, Bye, Unhandled, registryVars
  <2> QED
    BY <2>1, <2>2, ElsewhereTag DEF TagInv, TagOfRegisteredCall
<1>4. CASE Dispatch
  <2>1. /\ pc'[Recv] \in {"idle", "undispatch"} /\ routine' = routine
        /\ UNCHANGED <<calls, tag>>
    BY <1>0, <1>4, GoOnly DEF Dispatch, registryVars
  <2>2. ~Constructing
    BY <1>4 DEF Dispatch, IInv, BuildInv, Published
  <2>3. Away
    BY <2>1, <2>2 DEF Constructing
  <2> QED
    BY <2>1, <2>3, ElsewhereTag DEF TagInv, TagOfRegisteredCall
<1>5. CASE Discard
  <2>1. Away
    BY <1>1, <1>5 DEF Discard
  <2>2. /\ calls' = calls
        /\ (tag' = tag \/ (calls[req] = None /\ tag' = [tag EXCEPT ![req] = None]))
    BY <1>5 DEF Discard
  <2>3. tag \in [Invites -> Calls \cup {None}]
    BY DEF IInv, TypeOK, PhoneType
  <2>4. TagOfRegisteredCall'
    BY <2>2, <2>3 DEF TagInv, TagOfRegisteredCall
  <2>5. ~Making'
    BY <2>1 DEF Making, Constructing
  <2> QED
    BY <2>1, <2>4, <2>5 DEF TagInv
<1> QED
  BY <1>2, <1>3, <1>4, <1>5

(* A port is found: the call is built, and nobody has come to know it.     *)
LEMMA TakeTag ==
    ASSUME IInv, TagInv, Making, building \in Calls, state[building] = "NONE",
           NEW p, Take(p)
    PROVE  TagInv'
<1>1. /\ pc'[Recv] = "register" /\ routine'[Recv] = "none" /\ cur'[Recv] = None
      /\ Alone(Recv)
  BY EnterMoves DEF Take, IInv, TypeOK, Threads
<1>2. UNCHANGED <<calls, tag, todo, req, building>>
  BY DEF Take, registryVars, loopVars, recvVars
<1>3. \A t \in Threads : cur'[t] # building /\ building \notin todo[t]
  <2>1. \A t \in Threads : cur[t] # building /\ building \notin todo[t]
    BY DEF IInv, BuiltInv
  <2> QED
    BY <1>1, <2>1, ConstantsAssumption DEF Alone
<1>4. \A i \in Invites : calls[i] # building
  BY DEF IInv, BuiltInv
<1>5. calls[req] = None /\ tag[req] = building /\ TagOfRegisteredCall
  BY DEF TagInv
<1> QED
  BY <1>1, <1>2, <1>3, <1>4, <1>5 DEF TagInv, TagOfRegisteredCall, Making

(* The steps that make a call: the INVITE has no call yet, it gets its     *)
(* tag, a port is looked for, ended calls are reclaimed for one.           *)
LEMMA MakeTag ==
    ASSUME IInv, TagInv,
           Lookup \/ Ring \/ Allocate \/ ReclaimNext \/ Reallocate \/ Register
    PROVE  TagInv'
<1>0. /\ FrameType /\ Recv \in Threads /\ pc[Recv] # "idle" /\ req \in Invites
      /\ calls \in [Invites -> Calls \cup {None}] /\ tag \in [Invites -> Calls \cup {None}]
      /\ None \notin Calls
      /\ \A t \in Threads : todo[t] \subseteq todo[t]
  BY ConstantsAssumption
  DEF IInv, TypeOK, PhoneType, FrameInv, Threads, Lookup, Ring, Allocate, ReclaimNext,
      Reallocate, Register
<1>1. Constructing => building \in Calls /\ state[building] = "NONE"
  BY DEF IInv, BuildInv
<1>2. CASE Lookup
  <2>1. /\ pc'[Recv] = "ring" => calls[req] = None
        /\ pc'[Recv] \notin {"allocate", "reclaim", "reallocate", "register"}
        /\ routine'[Recv] \notin {"ringing", "reclaim"}
    <3>1. CASE calls[req] # None
      BY <1>0, <1>2, <3>1, EnterMoves DEF Lookup
    <3>2. CASE calls[req] = None /\ \E c \in Calls : state[c] = "NONE"
      BY <1>0, <1>2, <3>2, EnterMoves DEF Lookup
    <3>3. CASE calls[req] = None /\ ~\E c \in Calls : state[c] = "NONE"
      BY <1>0, <1>2, <3>3, EnterMoves DEF Lookup
    <3> QED
      BY <3>1, <3>2, <3>3
  <2>2. UNCHANGED <<calls, tag, req>>
    BY <1>2 DEF Lookup, Unhandled, registryVars, recvVars
  <2> QED
    BY <2>1, <2>2 DEF TagInv, TagOfRegisteredCall, Making, Constructing
<1>3. CASE Ring
  <2>1. pc'[Recv] = "send" /\ routine'[Recv] = "ringing"
    BY <1>0, <1>3, EnterMoves DEF Ring
  <2>2. /\ UNCHANGED <<calls, req>> /\ calls[req] = None
        /\ tag' = [tag EXCEPT ![req] = building']
    BY <1>3 DEF Ring, TagInv
  <2>3. TagOfRegisteredCall'
    BY <1>0, <2>2 DEF TagInv, TagOfRegisteredCall
  <2> QED
    BY <1>0, <2>1, <2>2, <2>3 DEF TagInv
<1>4. CASE (Allocate \/ Reallocate) /\ \E p \in FreePorts : Take(p)
  <2>1. Constructing
    BY <1>4 DEF Allocate, Reallocate, Constructing
  <2> QED
    BY <1>1, <1>4, <2>1, TakeTag DEF Making
<1>5. CASE Allocate /\ Reclaim
  <2>1. pc'[Recv] = "reclaim" /\ pc[Recv] = "allocate" /\ UNCHANGED <<calls, tag, recvVars>>
    BY <1>0, <1>5, EnterMoves DEF Allocate, Reclaim, registryVars
  <2>2. Making /\ TagOfRegisteredCall'
    BY <2>1 DEF Making, Constructing, TagInv, TagOfRegisteredCall
  <2> QED
    BY <2>1, <2>2, TagStays DEF recvVars
<1>6. CASE ReclaimNext
  <2>1. /\ pc[Recv] = "reclaim" /\ pc'[Recv] \in {"reallocate", "fin"}
        /\ UNCHANGED <<calls, tag, recvVars>>
    BY <1>0, <1>6, EnterMoves DEF ReclaimNext, registryVars
  <2>2. Making /\ TagOfRegisteredCall'
    BY <2>1 DEF Making, Constructing, TagInv, TagOfRegisteredCall
  <2> QED
    BY <2>1, <2>2, TagStays DEF recvVars
<1>7. CASE Reallocate /\ Refuse
  <2>1. pc'[Recv] = "remember" /\ routine'[Recv] = "refuse"
    BY <1>0, <1>7, EnterMoves DEF Refuse
  <2>2. tag' = tag /\ \A i \in Invites : calls'[i] \in {calls[i], None}
    BY <1>7 DEF Refuse, CleanupDead
  <2>3. TagOfRegisteredCall'
    BY <2>2 DEF TagInv, TagOfRegisteredCall
  <2> QED
    BY <2>1, <2>3, ElsewhereTag
<1>8. CASE Register
  <2>1. /\ pc'[Recv] = "dispatch" /\ routine' = routine
        /\ tag' = tag /\ calls' = [calls EXCEPT ![req] = building]
    BY <1>0, <1>8, GoOnly DEF Register
  <2>2. pc[Recv] = "register" /\ tag[req] = building
    BY <1>8 DEF Register, TagInv, Making
  <2>3. ~Constructing
    BY <2>2 DEF IInv, BuildInv, Published
  <2>4. TagOfRegisteredCall'
    BY <1>0, <2>1, <2>2 DEF TagInv, TagOfRegisteredCall
  <2> QED
    BY <2>1, <2>3, <2>4, ElsewhereTag DEF Constructing
<1> QED
  BY <1>2, <1>3, <1>4, <1>5, <1>6, <1>7, <1>8 DEF Allocate, Reallocate

(* Every step keeps TagInv.                                                *)
LEMMA TagStep ==
    ASSUME IInv, TagInv, [Next]_vars
    PROVE  TagInv'
<1>1. ASSUME NEW t \in Threads, Step(t) PROVE TagInv'
  <2>1. CASE Ending(t)
    BY <2>1, EndingTag
  <2>2. CASE t \in Apps /\ AppStep(t)
    BY <2>2, AppTag
  <2>3. CASE RecvStep
    BY <2>3, HandleTag, MakeTag DEF RecvStep
  <2> QED
    BY <1>1, <2>1, <2>2, <2>3 DEF Step
<1>2. ASSUME NEW t \in Apps, Request(t) PROVE TagInv'
  BY <1>2, AppTag
<1>3. CASE Message
  BY <1>3, HandleTag
<1>4. CASE (\E c \in Calls : CallbackRuns(c) \/ CallbackReturns(c)) \/ UNCHANGED vars
  <2>1. UNCHANGED <<calls, tag, req, building, pc, routine, cur, todo>>
    BY <1>4 DEF CallbackRuns, CallbackReturns, registryVars, recvVars, frameVars,
                loopVars, vars
  <2> QED
    BY <2>1 DEF TagInv, TagOfRegisteredCall, Making, Constructing
<1> QED
  BY <1>1, <1>2, <1>3, <1>4 DEF Next

----------------------------------------------------------------------------
(* InviteInv: a call, its registration and the request are of one INVITE *)

(* A call that is built stays so, and one that has left RINGING does not   *)
(* come back to it.                                                        *)
LEMMA StateForward ==
    ASSUME IInv, [Next]_vars, NEW c \in Calls
    PROVE  /\ state[c] # "NONE" => state'[c] # "NONE"
           /\ Past(c) => Past(c)'
<1>1. [Lifecycle!Next]_Lifecycle!vars
  BY LifecycleStep
<1>2. state \in [Calls -> States]
  BY DEF IInv, TypeOK, CallType
<1>3. CASE Lifecycle!Next
  BY <1>2, <1>3
  DEF Past, Lifecycle!Next, Lifecycle!Build, Lifecycle!Refuse, Lifecycle!Accept,
      Lifecycle!End, Lifecycle!Release
<1>4. CASE UNCHANGED Lifecycle!vars
  BY <1>4 DEF Past, Lifecycle!vars
<1> QED
  BY <1>1, <1>3, <1>4

(* The end of a call and the application build no call.                    *)
LEMMA NothingBuilt ==
    ASSUME IInv, NEW t \in Threads,
           Ending(t) \/ (t \in Apps /\ (AppStep(t) \/ Request(t))),
           NEW c \in Calls, state'[c] # "NONE"
    PROVE  state[c] # "NONE"
<1>0. /\ state \in [Calls -> States]
      /\ cur[t] \in Calls => state[cur[t]] # "NONE"
  BY DEF IInv, TypeOK, CallType, BuiltInv
<1>1. CASE state' = state
  BY <1>1
<1>2. CASE SetEnded(t)
  <2>1. cur[t] \in Calls
    BY <1>2 DEF SetEnded, IInv, FrameInv, CallLabels
  <2> QED
    BY <1>0, <1>2, <2>1 DEF SetEnded
<1>3. CASE Commit(t)
  BY <1>0, <1>3 DEF Commit
<1>4. ASSUME NEW d, Decline(t, d) PROVE state[c] # "NONE"
  BY <1>0, <1>4 DEF Decline
<1>5. CASE Ending(t)
  BY <1>1, <1>2, <1>5
  DEF Ending, StopMedia, Finalize, Release, Remove, Remember, Send, SendBye, lifeVars
<1>6. CASE AppStep(t)
  BY <1>1, <1>3, <1>4, <1>6
  DEF AppStep, Prepare, Check, Keep, Unflag, StopNext, StopRead2, StopRead3, StopHangup,
      HangupGuarded, Invalid, StopDeny, StopForce, StopReturn, lifeVars
<1>7. CASE Request(t)
  BY <1>1, <1>4, <1>7 DEF Request, Stop, Answer, Deny, Hangup, HangupGuarded, lifeVars
<1> QED
  BY <1>5, <1>6, <1>7

(* Steps that neither build nor register a call nor turn to a request.     *)
LEMMA InviteStays ==
    ASSUME IInv, InviteInv, UNCHANGED <<inv, req, building>>,
           \A c \in Calls : state'[c] # "NONE" => state[c] # "NONE",
           \A i \in Invites : calls'[i] \in {calls[i], None},
           (Constructing \/ Published)' => Constructing \/ Published,
           routine'[Recv] = "refuse" => routine[Recv] = "refuse",
           \A t \in Threads : routine'[t] \in {"cancelled", "undispatched"} =>
               routine'[t] = routine[t] /\ cur'[t] = cur[t]
    PROVE  InviteInv'
<1>1. None \notin Calls
  BY ConstantsAssumption
<1> QED
  BY <1>1 DEF InviteInv

LEMMA EndingInvite ==
    ASSUME IInv, InviteInv, NEW t \in Threads, Ending(t)
    PROVE  InviteInv'
<1>1. /\ Alone(t) /\ UNCHANGED <<inv, req, building>>
      /\ \/ routine'[t] = routine[t] /\ cur'[t] = cur[t]
         \/ routine'[t] \in {"none", "abort", "deny", "reply"}
      /\ pc'[t] \notin {"ring", "reallocate", "register", "dispatch", "undispatch"}
      /\ pc'[t] = "allocate" => routine[t] = "ringing"
      /\ pc'[t] = "reclaim" => routine[t] = "reclaim"
      /\ Recv \in Threads
  BY EndingMoves DEF recvVars, Threads
<1>2. (Constructing \/ Published)' => Constructing \/ Published
  <2>1. CASE t = Recv
    BY <1>1, <2>1 DEF Constructing, Published
  <2>2. CASE t # Recv
    <3>1. pc'[Recv] = pc[Recv] /\ routine'[Recv] = routine[Recv]
      BY <1>1, <2>2 DEF Alone
    <3> QED
      BY <3>1 DEF Constructing, Published
  <2> QED
    BY <2>1, <2>2
<1>3. \A i \in Invites : calls'[i] \in {calls[i], None}
  <2>1. CASE Remove(t)
    <3>1. calls \in [Invites -> Calls \cup {None}]
      BY DEF IInv, TypeOK, PhoneType
    <3> QED
      BY <2>1, <3>1 DEF Remove
  <2>2. CASE Release(t)
    BY <2>2 DEF Release, CleanupDead
  <2> QED
    BY <2>1, <2>2
    DEF Ending, StopMedia, SetEnded, Finalize, Remember, Send, SendBye, registryVars
<1>4. /\ routine'[Recv] = "refuse" => routine[Recv] = "refuse"
      /\ \A u \in Threads : routine'[u] \in {"cancelled", "undispatched"} =>
               routine'[u] = routine[u] /\ cur'[u] = cur[u]
  BY <1>1 DEF Alone
<1> QED
  BY <1>1, <1>2, <1>3, <1>4, NothingBuilt, InviteStays

LEMMA AppInvite ==
    ASSUME IInv, InviteInv, NEW t \in Apps, AppStep(t) \/ Request(t)
    PROVE  InviteInv'
<1>1. /\ Alone(t) /\ UNCHANGED <<inv, calls, req, building>>
      /\ \/ routine'[t] = routine[t] /\ cur'[t] = cur[t]
         \/ routine'[t] \in {"none", "answer", "abort", "deny", "hangup", "force", "finish"}
      /\ t \in Threads /\ Recv \in Threads /\ t # Recv
  BY AppMoves, ConstantsAssumption DEF recvVars, Threads
<1>2. pc'[Recv] = pc[Recv] /\ routine'[Recv] = routine[Recv]
  BY <1>1 DEF Alone
<1>3. (Constructing \/ Published)' => Constructing \/ Published
  BY <1>2 DEF Constructing, Published
<1>4. \A u \in Threads : routine'[u] \in {"cancelled", "undispatched"} =>
         routine'[u] = routine[u] /\ cur'[u] = cur[u]
  BY <1>1 DEF Alone
<1> QED
  BY <1>1, <1>2, <1>3, <1>4, NothingBuilt, InviteStays

(* Steps of the receive thread: it turns to another request,               *)
LEMMA MessageInvite ==
    ASSUME IInv, InviteInv, Message
    PROVE  InviteInv'
<1>1. PICK i \in Invites : /\ UNCHANGED <<state, inv, calls>>
                           /\ req' = i /\ building' = None
                           /\ \E r \in {"none", "replay"}, k \in Codes,
                                 l \in {"send", "lookup", "cancel", "bye"} :
                                 Enter(Recv, r, None, l, k)
  <2>1. \A i \in Invites : cache[i] \in Codes /\ 0 \in Codes
    BY DEF IInv, TypeOK, PhoneType, Codes
  <2> QED
    BY <2>1 DEF Message, RecvInvite, RecvCancel, RecvBye, Unhandled, lifeVars, mediaVars,
                registryVars
<1>2. /\ Alone(Recv) /\ routine'[Recv] \in {"none", "replay"}
      /\ pc'[Recv] \in {"send", "lookup", "cancel", "bye"}
  BY <1>1, EnterMoves DEF IInv, TypeOK, Threads
<1>3. /\ ~(Constructing \/ Published)' /\ routine'[Recv] # "refuse"
      /\ \A t \in Threads : routine'[t] \notin {"cancelled", "undispatched"}
  BY <1>2 DEF Constructing, Published, Alone, InviteInv
<1> QED
  BY <1>1, <1>3 DEF InviteInv

(* handles it without making a call,                                       *)
LEMMA HandleInvite ==
    ASSUME IInv, InviteInv,
           Lookup \/ Retrans \/ Dispatch \/ Undispatch \/ Discard \/ Fail \/ Cancel \/ Bye
    PROVE  InviteInv'
<1> DEFINE Away == /\ Alone(Recv) /\ ~(Constructing \/ Published)'
                   /\ routine'[Recv] \notin {"refuse", "cancelled", "undispatched"}
<1>0. /\ FrameType /\ Recv \in Threads
      /\ pc[Recv] # "idle" => req \in Invites
      /\ state \in [Calls -> States]
  BY DEF IInv, TypeOK, CallType, FrameInv, Threads
<1>1. UNCHANGED <<inv, req, building, calls>>
  BY DEF Lookup, Retrans, Dispatch, Undispatch, Discard, Fail, Cancel, Bye, Unhandled,
         mediaVars, registryVars, recvVars
<1>2. \A c \in Calls : state'[c] # "NONE" => state[c] # "NONE"
  <2>1. CASE state' = state
    BY <2>1
  <2>2. CASE Cancel /\ state' # state
    BY <1>0, <2>2 DEF Cancel
  <2> QED
    BY <2>1, <2>2
    DEF Lookup, Retrans, Dispatch, Undispatch, Discard, Fail, Bye, Unhandled, lifeVars
<1>3. ASSUME NEW r, NEW c, NEW l, NEW k, Enter(Recv, r, c, l, k),
             l \notin {"allocate", "reclaim", "reallocate", "register", "dispatch",
                       "undispatch"},
             r \notin {"ringing", "reclaim"}
      PROVE  /\ Alone(Recv) /\ ~(Constructing \/ Published)'
             /\ routine'[Recv] = r /\ cur'[Recv] = c
  BY <1>0, <1>3, EnterMoves DEF Constructing, Published
<1>4. ASSUME Away PROVE InviteInv'
  BY <1>1, <1>2, <1>4, InviteStays DEF Alone
<1>5. CASE Lookup \/ Retrans \/ Discard \/ Fail \/ Bye
  <2>1. CASE Lookup
    BY <1>3, <1>4, <2>1 DEF Lookup
  <2>2. CASE Retrans
    BY <1>3, <1>4, <2>2 DEF Retrans
  <2>3. CASE Discard
    BY <1>3, <1>4, <2>3 DEF Discard
  <2>4. CASE Fail
    BY <1>3, <1>4, <2>4 DEF Fail
  <2>5. CASE Bye
    BY <1>3, <1>4, <2>5 DEF Bye
  <2> QED
    BY <1>5, <2>1, <2>2, <2>3, <2>4, <2>5
<1>6. CASE Dispatch
  <2>1. Alone(Recv) /\ routine' = routine /\ cur' = cur
    BY <1>0, <1>6, GoOnly DEF Dispatch
  <2>2. (Constructing \/ Published)' => Constructing \/ Published
    BY <1>6 DEF Dispatch, Published
  <2> QED
    BY <1>1, <1>2, <2>1, <2>2, InviteStays
<1>7. CASE Undispatch
  <2>1. CASE Enter(Recv, "lost", None, "remember", 486)
    BY <1>3, <1>4, <2>1
  <2>2. CASE Enter(Recv, "undispatched", building, "media", 486)
    <3>1. /\ Alone(Recv) /\ ~(Constructing \/ Published)'
          /\ routine'[Recv] = "undispatched" /\ cur'[Recv] = building
      BY <1>3, <2>2
    <3>2. inv[building] = req
      BY <1>7 DEF Undispatch, InviteInv, Published
    <3> QED
      BY <1>1, <1>2, <3>1, <3>2 DEF InviteInv, Alone
  <2> QED
    BY <1>7, <2>1, <2>2 DEF Undispatch
<1>8. CASE Cancel
  <2>1. CASE Enter(Recv, "none", None, "idle", 0)
    BY <1>3, <1>4, <2>1
  <2>2. CASE /\ Enter(Recv, "cancelled", calls[req], "media", 487)
             /\ calls[req] # None
    <3>1. /\ Alone(Recv) /\ ~(Constructing \/ Published)'
          /\ routine'[Recv] = "cancelled" /\ cur'[Recv] = calls[req]
      BY <1>3, <2>2
    <3>2. req \in Invites /\ calls[req] \in Calls
      BY <1>0, <1>8, <2>2 DEF Cancel, IInv, TypeOK, PhoneType
    <3>3. inv[calls[req]] = req
      BY <3>2 DEF InviteInv
    <3> QED
      BY <1>1, <1>2, <3>1, <3>3 DEF InviteInv, Alone
  <2> QED
    BY <1>8, <2>1, <2>2 DEF Cancel
<1> QED
  BY <1>5, <1>6, <1>7, <1>8

(* or makes a call for it.                                                 *)
LEMMA MakeInvite ==
    ASSUME IInv, TagInv, InviteInv, Ring \/ Allocate \/ ReclaimNext \/ Reallocate \/ Register
    PROVE  InviteInv'
<1>0. /\ FrameType /\ Recv \in Threads /\ req \in Invites /\ None \notin Calls
      /\ inv \in [Calls -> Invites \cup {None}] /\ state \in [Calls -> States]
      /\ calls \in [Invites -> Calls \cup {None}]
      /\ \A i \in Invites : calls[i] \in Calls => state[calls[i]] # "NONE"
      /\ \A t \in Threads : cur[t] \in Calls => state[cur[t]] # "NONE"
      /\ \A t \in Threads : routine[t] \in {"cancelled", "undispatched"} => cur[t] \in Calls
  BY ConstantsAssumption
  DEF IInv, TypeOK, CallType, PhoneType, FrameInv, CallRoutines, BuiltInv, Threads, Ring,
      Allocate, ReclaimNext, Reallocate, Register
<1>1. Constructing \/ pc[Recv] = "register" =>
         building \in Calls /\ inv[building] = req
  BY DEF IInv, BuildInv, Published, InviteInv
<1>2. CASE Ring
  <2>1. PICK c \in Calls : /\ state[c] = "NONE" /\ building' = c
                           /\ inv' = [inv EXCEPT ![c] = req]
    BY <1>2 DEF Ring
  <2>2. /\ Alone(Recv) /\ routine'[Recv] = "ringing" /\ pc'[Recv] = "send"
        /\ UNCHANGED <<state, calls, req>>
    BY <1>0, <1>2, EnterMoves DEF Ring, lifeVars
  <2>3. \A t \in Threads : routine'[t] \notin {"cancelled", "undispatched"}
    BY <2>2 DEF Alone, InviteInv
  <2> QED
    BY <1>0, <2>1, <2>2, <2>3 DEF InviteInv
<1>3. ASSUME NEW r \in {"none", "reclaim", "refuse"}, NEW c, NEW l, NEW k,
             Enter(Recv, r, c, l, k),
             Constructing, UNCHANGED <<inv, req, building>>,
             \A i \in Invites : calls'[i] \in {calls[i], None},
             \A d \in Calls : state'[d] # "NONE" => state[d] # "NONE" \/ d = building
      PROVE  InviteInv'
  <2>1. Alone(Recv) /\ routine'[Recv] = r
    BY <1>0, <1>3, EnterMoves
  <2>2. \A t \in Threads : routine'[t] \notin {"cancelled", "undispatched"}
    BY <1>3, <2>1 DEF Alone, InviteInv
  <2> QED
    BY <1>0, <1>1, <1>3, <2>1, <2>2 DEF InviteInv
<1>4. CASE (Allocate \/ Reallocate) /\ \E p \in FreePorts : Take(p)
  BY <1>0, <1>3, <1>4
  DEF Allocate, Reallocate, Constructing, Take, registryVars, recvVars
<1>5. CASE Allocate /\ Reclaim
  BY <1>3, <1>5
  DEF Allocate, Constructing, Reclaim, lifeVars, mediaVars, registryVars, recvVars
<1>6. CASE ReclaimNext
  BY <1>3, <1>6
  DEF ReclaimNext, Constructing, lifeVars, mediaVars, registryVars, recvVars
<1>7. CASE Reallocate /\ Refuse
  BY <1>0, <1>3, <1>7
  DEF Reallocate, Constructing, Refuse, CleanupDead, mediaVars, recvVars
<1>8. CASE Register
  <2>1. /\ pc'[Recv] = "dispatch" /\ routine' = routine /\ cur' = cur
        /\ UNCHANGED <<state, inv, req, building>>
        /\ calls' = [calls EXCEPT ![req] = building] /\ pc[Recv] = "register"
    BY <1>0, <1>8, GoOnly DEF Register, lifeVars, mediaVars, recvVars
  <2> QED
    BY <1>0, <1>1, <2>1 DEF InviteInv
<1> QED
  BY <1>2, <1>4, <1>5, <1>6, <1>7, <1>8 DEF Allocate, Reallocate

(* Every step keeps InviteInv.                                             *)
LEMMA InviteStep ==
    ASSUME IInv, TagInv, InviteInv, [Next]_vars
    PROVE  InviteInv'
<1>1. ASSUME NEW t \in Threads, Step(t) PROVE InviteInv'
  <2>1. CASE Ending(t)
    BY <2>1, EndingInvite
  <2>2. CASE t \in Apps /\ AppStep(t)
    BY <2>2, AppInvite
  <2>3. CASE RecvStep
    BY <2>3, HandleInvite, MakeInvite DEF RecvStep
  <2> QED
    BY <1>1, <2>1, <2>2, <2>3 DEF Step
<1>2. ASSUME NEW t \in Apps, Request(t) PROVE InviteInv'
  BY <1>2, AppInvite
<1>3. CASE Message
  BY <1>3, MessageInvite
<1>4. CASE (\E c \in Calls : CallbackRuns(c) \/ CallbackReturns(c)) \/ UNCHANGED vars
  <2>1. UNCHANGED <<state, inv, calls, req, building, pc, routine, cur>>
    BY <1>4 DEF CallbackRuns, CallbackReturns, lifeVars, mediaVars, registryVars,
                recvVars, frameVars, vars
  <2> QED
    BY <2>1 DEF InviteInv, Constructing, Published
<1> QED
  BY <1>1, <1>2, <1>3, <1>4 DEF Next

----------------------------------------------------------------------------
(* CodeInv: a final response is remembered *)

(* Where a step of the end of a call leads, and from where.                *)
LEMMA EndingOrigins ==
    ASSUME IInv, NEW t \in Threads, Ending(t)
    PROVE  /\ pc'[t] = "check" => routine'[t] = "abort"
           /\ pc'[t] \notin {"hangup", "keep"}
           /\ pc'[t] = "force" => routine[t] = "deny" /\ cur'[t] = cur[t]
           /\ pc'[t] = "sendbye" => routine[t] = "hangup" /\ pc[t] = "media"
           /\ pc'[t] = "media" => routine[t] = "deny" /\ cur'[t] = cur[t]
           /\ pc'[t] = "ended" => \/ pc[t] \in {"media", "sendbye"}
                                  \/ routine[t] = "cancelled"
           /\ pc'[t] = "send" => pc[t] = "remember"
           /\ pc'[t] = "remember" => \/ routine[t] \in {"cancelled", "undispatched"}
                                     \/ routine[t] = "answer" /\ pc[t] = "send"
                                     \/ code[t] = 200
           /\ \/ routine'[t] = routine[t] /\ cur'[t] = cur[t] /\ code'[t] = code[t]
              \/ /\ routine'[t] \in {"none", "abort", "deny", "reply"}
                 /\ pc'[t] \in {"idle", "next", "reclaim", "check", "media", "discard",
                                "fail"}
                 /\ routine'[t] = "deny" => routine[t] = "deny" /\ cur'[t] = cur[t]
                 /\ routine'[t] = "abort" => pc'[t] = "check"
<1> DEFINE Goal == /\ pc'[t] = "check" => routine'[t] = "abort"
                   /\ pc'[t] \notin {"hangup", "keep"}
                   /\ pc'[t] = "force" => routine[t] = "deny" /\ cur'[t] = cur[t]
                   /\ pc'[t] = "sendbye" => routine[t] = "hangup" /\ pc[t] = "media"
                   /\ pc'[t] = "media" => routine[t] = "deny" /\ cur'[t] = cur[t]
                   /\ pc'[t] = "ended" => \/ pc[t] \in {"media", "sendbye"}
                                          \/ routine[t] = "cancelled"
                   /\ pc'[t] = "send" => pc[t] = "remember"
                   /\ pc'[t] = "remember" =>
                         \/ routine[t] \in {"cancelled", "undispatched"}
                         \/ routine[t] = "answer" /\ pc[t] = "send"
                         \/ code[t] = 200
                   /\ \/ /\ routine'[t] = routine[t]
                         /\ cur'[t] = cur[t] /\ code'[t] = code[t]
                      \/ /\ routine'[t] \in {"none", "abort", "deny", "reply"}
                         /\ pc'[t] \in {"idle", "next", "reclaim", "check", "media",
                                        "discard", "fail"}
                         /\ routine'[t] = "deny" =>
                               routine[t] = "deny" /\ cur'[t] = cur[t]
                         /\ routine'[t] = "abort" => pc'[t] = "check"
<1>0. TypeOK /\ FrameType
  BY DEF IInv, TypeOK
<1>1. ASSUME Advance(t) PROVE Goal
  <2>1. /\ routine[t] \in Routines /\ pc[t] \in Labels /\ code[t] \in Codes
        /\ stopping[t] \in BOOLEAN
        /\ pc'[t] = After(routine[t], pc[t], code[t], stopping[t])
        /\ \/ /\ pc'[t] \notin {"idle", "next", "reclaim"}
              /\ routine'[t] = routine[t] /\ cur'[t] = cur[t] /\ code'[t] = code[t]
           \/ /\ pc'[t] \in {"idle", "next", "reclaim"}
              /\ routine'[t] = "none"
    BY <1>0, <1>1, AdvanceMoves
  <2>2. /\ pc'[t] \notin {"hangup", "check", "keep"}
        /\ pc'[t] = "force" => routine[t] = "deny"
        /\ pc'[t] = "sendbye" => routine[t] = "hangup" /\ pc[t] = "media"
        /\ pc'[t] = "media" => routine[t] = "deny"
        /\ pc'[t] = "ended" => pc[t] \in {"media", "sendbye"} \/ routine[t] = "cancelled"
        /\ pc'[t] = "send" => pc[t] = "remember"
        /\ pc'[t] = "remember" => \/ routine[t] \in {"cancelled", "undispatched"}
                                  \/ routine[t] = "answer" /\ pc[t] = "send"
                                  \/ code[t] = 200
    BY <2>1, AfterOrigins
  <2> QED
    BY <2>1, <2>2
<1>2. ASSUME Finalize(t) PROVE Goal
  <2>1. CASE finalized[cur[t]]
    <3>1. routine[t] \in Routines /\ code[t] \in Codes /\ stopping[t] \in BOOLEAN
      BY <1>0 DEF TypeOK, FrameType, LoopType
    <3> DEFINE n == Tail(routine[t], code[t], stopping[t])
    <3>2. /\ n \in {"unflag", "fail", "reclaim", "force", "next", "idle"}
          /\ n = "force" => routine[t] = "deny"
      BY <3>1, TailOrigins
    <3>3. Reach(t, n)
      BY <1>2, <2>1 DEF Finalize
    <3> HIDE DEF n
    <3>4. /\ pc'[t] = n
          /\ \/ /\ n \notin {"idle", "next", "reclaim"}
                /\ routine'[t] = routine[t] /\ cur'[t] = cur[t] /\ code'[t] = code[t]
             \/ /\ n \in {"idle", "next", "reclaim"} /\ routine'[t] = "none"
      BY <1>0, <3>3, ReachMoves
    <3> QED
      BY <3>2, <3>4
  <2>2. CASE ~finalized[cur[t]]
    <3>1. Advance(t)
      BY <1>2, <2>2 DEF Finalize
    <3> QED
      BY <1>1, <3>1
  <2> QED
    BY <2>1, <2>2
<1>3. ASSUME Send(t) PROVE Goal
  <2>1. CASE Enter(t, "abort", cur[t], "check", 0)
    BY <1>0, <2>1, EnterMoves
  <2>2. CASE routine[t] = "deny" /\ Enter(t, "deny", cur[t], "media", 0)
    BY <1>0, <2>2, EnterMoves
  <2>3. CASE \/ Enter(t, "none", None, "discard", 0)
             \/ Enter(t, "reply", cur[t], "fail", 0)
    BY <1>0, <2>3, EnterMoves
  <2>4. \/ Advance(t)
        \/ Enter(t, "abort", cur[t], "check", 0)
        \/ routine[t] = "deny" /\ Enter(t, "deny", cur[t], "media", 0)
        \/ Enter(t, "none", None, "discard", 0)
        \/ Enter(t, "reply", cur[t], "fail", 0)
    BY <1>3 DEF Send
  <2> HIDE DEF Goal
  <2> QED
    BY <1>1, <2>1, <2>2, <2>3, <2>4
<1> QED
  BY <1>1, <1>2, <1>3
  DEF Ending, StopMedia, SetEnded, Release, Remove, Remember, SendBye

(* Every step keeps CodeInv.                                               *)
LEMMA CodeStep ==
    ASSUME IInv, InviteInv, CodeInv, [Next]_vars
    PROVE  CodeInv'
<1> DEFINE Fits(u) ==
              /\ pc'[u] = "remember" => code'[u] # 0
              /\ routine'[u] = "answer" /\ pc'[u] = "send" => code'[u] # 0
              /\ routine'[u] \in {"cancelled", "undispatched"} => code'[u] # 0
<1>0. FrameType /\ Recv \in Threads /\ Recv \notin Apps /\ Apps \subseteq Threads
  BY ConstantsAssumption DEF IInv, TypeOK, Threads
<1>1. ASSUME NEW t \in Threads, Alone(t), Fits(t) PROVE CodeInv'
  BY <1>1 DEF CodeInv, Alone
<1>2. ASSUME NEW t \in Threads, NEW r, NEW c, NEW l, NEW k, Enter(t, r, c, l, k),
             \/ k # 0
             \/ l # "remember" /\ r \notin {"answer", "cancelled", "undispatched"}
             \/ l \notin {"remember", "send"} /\ r = "answer"
      PROVE  CodeInv'
  <2>1. Alone(t) /\ pc'[t] = l /\ routine'[t] = r /\ code'[t] = k
    BY <1>0, <1>2, EnterMoves
  <2>2. Fits(t)
    BY <1>2, <2>1
  <2> QED
    BY <1>1, <1>2, <2>1, <2>2
<1>3. ASSUME NEW t \in Threads, NEW l, Go(t, l), UNCHANGED frameVars,
             l \notin {"remember", "send"}
      PROVE  CodeInv'
  <2>1. Alone(t) /\ pc'[t] = l /\ routine' = routine /\ code' = code
    BY <1>0, <1>3, GoOnly
  <2>2. Fits(t)
    BY <1>3, <2>1 DEF CodeInv
  <2> QED
    BY <1>1, <1>3, <2>1, <2>2
<1>4. ASSUME NEW t \in Threads, Ending(t) PROVE CodeInv'
  <2>1. Fits(t)
    BY <1>4, EndingOrigins DEF CodeInv
  <2> QED
    BY <1>1, <1>4, <2>1, EndingMoves
<1> HIDE DEF Fits
<1>5. ASSUME NEW t \in Apps, AppStep(t) PROVE CodeInv'
  <2>1. t \in Threads
    BY <1>0
  <2>2. CASE Prepare(t) \/ Commit(t)
    BY <1>2, <1>3, <2>1, <2>2 DEF Prepare, Commit, Abort
  <2>3. CASE Check(t) \/ Keep(t) \/ StopRead2(t) \/ StopRead3(t) \/ StopReturn(t)
    BY <1>3, <2>1, <2>3 DEF Check, Keep, StopRead2, StopRead3, StopReturn
  <2>4. CASE Unflag(t) \/ StopForce(t)
    BY <1>2, <2>1, <2>4 DEF Unflag, StopForce
  <2>5. CASE StopNext(t)
    <3>1. CASE Enter(t, "none", None, "stopped", 0)
      BY <1>2, <2>1, <3>1
    <3>2. ASSUME NEW c, NEW l \in {"hangup", "read2"}, Enter(t, "finish", c, l, 0)
          PROVE  CodeInv'
      BY <1>2, <2>1, <3>2
    <3> QED
      BY <2>5, <3>1, <3>2 DEF StopNext
  <2>6. CASE StopHangup(t) \/ StopDeny(t)
    <3>1. CASE Invalid(t)
      BY <1>3, <2>1, <3>1 DEF Invalid
    <3>2. CASE HangupGuarded(t, cur[t]) \/ Decline(t, cur[t])
      BY <1>2, <2>1, <3>2 DEF HangupGuarded, Decline
    <3> QED
      BY <2>6, <3>1, <3>2 DEF StopHangup, StopDeny
  <2> QED
    BY <1>5, <2>2, <2>3, <2>4, <2>5, <2>6 DEF AppStep
<1>6. ASSUME NEW t \in Apps, Request(t) PROVE CodeInv'
  BY <1>0, <1>2, <1>3, <1>6
  DEF Request, Stop, Answer, Deny, Decline, Hangup, HangupGuarded
<1>7. CASE Message
  BY <1>0, <1>2, <1>7 DEF Message, RecvInvite, RecvCancel, RecvBye
<1>8. CASE RecvStep
  <2>1. CASE Lookup
    BY <1>0, <1>2, <2>1 DEF Lookup
  <2>2. CASE Retrans
    BY <1>0, <1>2, <2>2 DEF Retrans
  <2>3. CASE Ring
    BY <1>0, <1>2, <2>3 DEF Ring
  <2>4. CASE Allocate
    BY <1>0, <1>2, <2>4 DEF Allocate, Take, Reclaim
  <2>5. CASE ReclaimNext
    BY <1>0, <1>2, <2>5 DEF ReclaimNext
  <2>6. CASE Reallocate
    BY <1>0, <1>2, <2>6 DEF Reallocate, Take, Refuse
  <2>7. CASE Register
    BY <1>0, <1>3, <2>7 DEF Register
  <2>8. CASE Dispatch
    BY <1>0, <1>3, <2>8 DEF Dispatch
  <2>9. CASE Undispatch
    BY <1>0, <1>2, <2>9 DEF Undispatch
  <2>10. CASE Discard \/ Fail
    BY <1>0, <1>2, <2>10 DEF Discard, Fail
  <2>11. CASE Cancel
    BY <1>0, <1>2, <2>11 DEF Cancel
  <2>12. CASE Bye
    BY <1>0, <1>2, <2>12 DEF Bye
  <2> QED
    BY <1>8, <2>1, <2>2, <2>3, <2>4, <2>5, <2>6, <2>7, <2>8, <2>9, <2>10, <2>11, <2>12
    DEF RecvStep
<1>9. CASE (\E c \in Calls : CallbackRuns(c) \/ CallbackReturns(c)) \/ UNCHANGED vars
  <2>1. UNCHANGED <<pc, routine, code>>
    BY <1>9 DEF CallbackRuns, CallbackReturns, frameVars, vars
  <2> QED
    BY <2>1 DEF CodeInv
<1> QED
  BY <1>4, <1>5, <1>6, <1>7, <1>8, <1>9 DEF Next, Step

----------------------------------------------------------------------------
(* SettledInv and EndingInv: a call that ends has a remembered response *)

(* A response that is remembered is only replaced by another one.          *)
LEMMA CacheGrows ==
    ASSUME IInv, CodeInv, [Next]_vars, NEW i \in Invites, cache[i] # 0
    PROVE  cache'[i] # 0
<1>0. cache \in [Invites -> Codes]
  BY DEF IInv, TypeOK, PhoneType
<1>1. ASSUME NEW t \in Threads, Remember(t) PROVE cache'[i] # 0
  BY <1>0, <1>1 DEF Remember, CodeInv
<1>2. ASSUME NEW t \in Apps, Keep(t) PROVE cache'[i] # 0
  BY <1>0, <1>2 DEF Keep
<1>3. CASE cache' = cache
  BY <1>3
<1>4. ASSUME NEW t \in Threads, Ending(t) PROVE cache'[i] # 0
  BY <1>1, <1>3, <1>4
  DEF Ending, StopMedia, SetEnded, Finalize, Release, Remove, Send, SendBye, registryVars
<1>5. ASSUME NEW t \in Apps, AppStep(t) \/ Request(t) PROVE cache'[i] # 0
  BY <1>2, <1>3, <1>5
  DEF AppStep, Prepare, Commit, Check, Unflag, StopNext, StopRead2, StopRead3, StopHangup,
      HangupGuarded, Invalid, StopDeny, Decline, StopForce, StopReturn, Request, Stop,
      Answer, Deny, Hangup, registryVars
<1>6. CASE RecvStep \/ Message
  BY <1>3, <1>6
  DEF RecvStep, Lookup, Retrans, Ring, Allocate, ReclaimNext, Reallocate, Take, Reclaim,
      Refuse, Register, Dispatch, Undispatch, Discard, Fail, Cancel, Bye, Message,
      RecvInvite, RecvCancel, RecvBye, Unhandled, registryVars
<1>7. CASE (\E c \in Calls : CallbackRuns(c) \/ CallbackReturns(c)) \/ UNCHANGED vars
  BY <1>3, <1>7 DEF CallbackRuns, CallbackReturns, registryVars, vars
<1> QED
  BY <1>4, <1>5, <1>6, <1>7 DEF Next, Step

(* A call that is built keeps its INVITE.                                  *)
LEMMA InviteFixed ==
    ASSUME IInv, [Next]_vars, NEW c \in Calls, state[c] # "NONE"
    PROVE  inv'[c] = inv[c]
<1>1. CASE inv' = inv
  BY <1>1
<1>2. CASE Ring
  BY <1>2 DEF Ring, IInv, TypeOK, CallType
<1>3. ASSUME NEW t \in Threads, Ending(t) PROVE inv' = inv
  BY <1>3, EndingMoves
<1>4. ASSUME NEW t \in Apps, AppStep(t) \/ Request(t) PROVE inv' = inv
  BY <1>4, AppMoves
<1>5. CASE (RecvStep /\ ~Ring) \/ Message
  BY <1>1, <1>5
  DEF RecvStep, Lookup, Retrans, Allocate, ReclaimNext, Reallocate, Take, Reclaim,
      Refuse, Register, Dispatch, Undispatch, Discard, Fail, Cancel, Bye, Message,
      RecvInvite, RecvCancel, RecvBye, Unhandled, mediaVars
<1>6. CASE (\E d \in Calls : CallbackRuns(d) \/ CallbackReturns(d)) \/ UNCHANGED vars
  BY <1>1, <1>6 DEF CallbackRuns, CallbackReturns, mediaVars, vars
<1> QED
  BY <1>1, <1>2, <1>3, <1>4, <1>5, <1>6 DEF Next, Step

(* So what is known of the response to a call's INVITE stays known.        *)
LEMMA Lasting ==
    ASSUME IInv, InviteInv, CodeInv, [Next]_vars, NEW c \in Calls, state[c] # "NONE"
    PROVE  /\ inv[c] \in Invites /\ inv'[c] = inv[c]
           /\ cache[inv[c]] # 0 => cache'[inv'[c]] # 0
           /\ Past(c) => Past(c)'
  BY InviteFixed, CacheGrows, StateForward DEF InviteInv

(* Steps of one thread that bring it nearer to a response, if any.         *)
LEMMA SettledStays ==
    ASSUME IInv, InviteInv, CodeInv, SettledInv, [Next]_vars,
           NEW t \in Threads, Alone(t), t = Recv \/ building' = building,
           \A c \in Calls : Past(c)' => Past(c) \/ Remembers(t, c)' \/ cache'[inv'[c]] # 0,
           \A c \in Calls : Past(c) /\ Remembers(t, c) =>
               Remembers(t, c)' \/ cache'[inv'[c]] # 0
    PROVE  SettledInv'
<1>1. ASSUME NEW c \in Calls, Past(c)', ~Past(c)
      PROVE  cache'[inv'[c]] # 0 \/ \E u \in Threads : Remembers(u, c)'
  BY <1>1
<1>2. ASSUME NEW c \in Calls, Past(c)
      PROVE  cache'[inv'[c]] # 0 \/ \E u \in Threads : Remembers(u, c)'
  <2>1. state[c] # "NONE"
    BY <1>2 DEF Past
  <2>2. CASE cache[inv[c]] # 0
    BY <2>1, <2>2, Lasting
  <2>3. ASSUME NEW u \in Threads, Remembers(u, c), u # t PROVE Remembers(u, c)'
    BY <2>3 DEF Remembers, Alone
  <2> QED
    BY <1>2, <2>2, <2>3 DEF SettledInv
<1> QED
  BY <1>1, <1>2 DEF SettledInv

(* Steps of one thread that leave its promise about a call that ends.      *)
LEMMA EndingStays ==
    ASSUME IInv, InviteInv, CodeInv, EndingInv, [Next]_vars,
           NEW t \in Threads, Alone(t),
           pc'[t] \in {"check", "keep"} => routine'[t] = "abort",
           routine'[t] = "abort" /\ pc'[t] \in {"media", "sendbye", "ended"} =>
               cache'[inv'[cur'[t]]] # 0,
           EndsPast(t)' => Past(cur[t])'
    PROVE  EndingInv'
<1>1. ASSUME NEW u \in Threads, u # t
      PROVE  /\ pc'[u] = pc[u] /\ routine'[u] = routine[u] /\ cur'[u] = cur[u]
             /\ EndsPast(u)' <=> EndsPast(u)
  BY <1>1 DEF Alone, EndsPast
<1>2. ASSUME NEW u \in Threads, u # t, EndsPast(u) \/ routine[u] = "abort"
      PROVE  cur[u] \in Calls /\ state[cur[u]] # "NONE"
  BY <1>2 DEF IInv, FrameInv, BuiltInv, EndsPast, CallRoutines, CallLabels
<1>3. ASSUME NEW u \in Threads, u # t
      PROVE  /\ pc'[u] \in {"check", "keep"} => routine'[u] = "abort"
             /\ routine'[u] = "abort" /\ pc'[u] \in {"media", "sendbye", "ended"} =>
                    cache'[inv'[cur'[u]]] # 0
             /\ EndsPast(u)' => Past(cur[u])'
  BY <1>1, <1>2, <1>3, Lasting DEF EndingInv, Past
<1> QED
  BY <1>3 DEF EndingInv

(* The end of a call: a thread that is to remember a response comes nearer *)
(* to it, and who marks a call as ended has done so or is about to.        *)
LEMMA EndingSettled ==
    ASSUME IInv, InviteInv, CodeInv, SettledInv, EndingInv, [Next]_vars,
           NEW t \in Threads, Ending(t)
    PROVE  SettledInv' /\ EndingInv'
<1>0. /\ Alone(t) /\ building' = building
      /\ TypeOK /\ FrameType
      /\ cache \in [Invites -> Codes] /\ state \in [Calls -> States]
      /\ t \in Apps \/ t = Recv
  BY EndingMoves DEF recvVars, IInv, TypeOK, PhoneType, CallType, Threads
<1>1. \/ routine'[t] = routine[t] /\ cur'[t] = cur[t] /\ code'[t] = code[t]
      \/ /\ routine'[t] \in {"none", "abort", "deny", "reply"}
         /\ pc'[t] \in {"idle", "next", "reclaim", "check", "media", "discard", "fail"}
         /\ routine'[t] = "deny" => routine[t] = "deny" /\ cur'[t] = cur[t]
         /\ routine'[t] = "abort" => pc'[t] = "check"
  BY EndingOrigins
<1>2. ASSUME NEW c \in Calls, Past(c), Remembers(t, c)
      PROVE  Remembers(t, c)' \/ cache'[inv'[c]] # 0
  <2>0. state[c] # "NONE"
    BY <1>2 DEF Past
  <2>1. CASE StopMedia(t) \/ SetEnded(t)
    <3>1. /\ \/ routine[t] = "cancelled" /\ pc[t] = "media"
             \/ routine[t] = "undispatched"
          /\ t = Recv /\ cur[t] = c /\ pc[t] \in {"media", "ended"}
      BY <1>2, <2>1 DEF Remembers, StopMedia, SetEnded
    <3>2. Advance(t)
      BY <2>1 DEF StopMedia, SetEnded
    <3>3. /\ pc'[t] = After(routine[t], pc[t], code[t], stopping[t])
          /\ code[t] \in Codes /\ stopping[t] \in BOOLEAN
          /\ \/ routine'[t] = routine[t] /\ cur'[t] = cur[t]
             \/ pc'[t] \in {"idle", "next", "reclaim"}
      BY <1>0, <3>2, AdvanceMoves
    <3>4. /\ routine[t] = "cancelled" => pc'[t] = "remember"
          /\ routine[t] = "undispatched" => pc'[t] \in {"ended", "remember"}
      BY <3>1, <3>3, AfterEnds
    <3> QED
      BY <3>1, <3>3, <3>4 DEF Remembers
  <2>2. CASE Send(t)
    <3>1. t \in Apps /\ cur[t] = c /\ routine[t] = "answer" /\ pc[t] = "send"
      BY <1>2, <2>2 DEF Remembers, Send
    <3>2. CASE Advance(t)
      <4>1. /\ pc'[t] = After(routine[t], pc[t], code[t], stopping[t])
            /\ code[t] \in Codes /\ stopping[t] \in BOOLEAN
            /\ \/ routine'[t] = routine[t] /\ cur'[t] = cur[t]
               \/ pc'[t] \in {"idle", "next", "reclaim"}
        BY <1>0, <3>2, AdvanceMoves
      <4>2. pc'[t] = "remember"
        BY <3>1, <4>1, AfterEnds
      <4> QED
        BY <3>1, <4>1, <4>2 DEF Remembers
    <3>3. CASE Enter(t, "abort", cur[t], "check", 0)
      BY <1>0, <3>1, <3>3, EnterMoves DEF Remembers
    <3> QED
      BY <2>2, <3>1, <3>2, <3>3 DEF Send
  <2>3. CASE Remember(t)
    <3>1. Key(t) = inv[c]
      BY <1>2, <2>3, ConstantsAssumption DEF Remembers, Remember, Key, InviteInv
    <3>2. inv[c] \in Invites /\ inv'[c] = inv[c]
      BY <2>0, Lasting
    <3> QED
      BY <1>0, <2>3, <3>1, <3>2 DEF Remember, CodeInv
  <2> QED
    BY <1>2, <2>1, <2>2, <2>3
    DEF Ending, Finalize, Release, Remove, SendBye, Remembers
<1>3. ASSUME NEW c \in Calls, Past(c)', ~Past(c)
      PROVE  Remembers(t, c)' \/ cache'[inv'[c]] # 0
  <2>1. SetEnded(t) /\ cur[t] = c /\ pc[t] = "ended"
    BY <1>0, <1>3
    DEF Ending, StopMedia, SetEnded, Finalize, Release, Remove, Remember, Send, SendBye,
        lifeVars, Past
  <2>2. state[c] # "NONE"
    BY <2>1 DEF IInv, BuiltInv
  <2>3. CASE routine[t] = "abort"
    BY <2>1, <2>2, <2>3, Lasting DEF EndingInv
  <2>4. CASE routine[t] = "undispatched"
    <3>1. Advance(t) /\ t = Recv
      BY <2>1, <2>4 DEF SetEnded, InviteInv
    <3>2. /\ pc'[t] = After(routine[t], pc[t], code[t], stopping[t])
          /\ code[t] \in Codes /\ stopping[t] \in BOOLEAN
          /\ \/ routine'[t] = routine[t] /\ cur'[t] = cur[t]
             \/ pc'[t] \in {"idle", "next", "reclaim"}
      BY <1>0, <3>1, AdvanceMoves
    <3>3. pc'[t] = "remember"
      BY <2>1, <2>4, <3>2, AfterEnds
    <3> QED
      BY <2>1, <2>4, <3>1, <3>2, <3>3 DEF Remembers
  <2>5. CASE routine[t] \notin {"abort", "undispatched"}
    BY <1>3, <2>1, <2>5 DEF EndingInv, EndsPast
  <2> QED
    BY <2>3, <2>4, <2>5
<1>4. SettledInv'
  BY <1>0, <1>2, <1>3, SettledStays
<1>5. /\ pc'[t] \in {"check", "keep"} => routine'[t] = "abort"
      /\ routine'[t] = "abort" /\ pc'[t] \in {"media", "sendbye", "ended"} =>
             routine[t] = "abort" /\ cur'[t] = cur[t]
                /\ pc[t] \in {"media", "sendbye", "ended"}
      /\ EndsPast(t)' => EndsPast(t) /\ cur'[t] = cur[t]
  BY <1>1, EndingOrigins DEF EndsPast
<1>6. EndsPast(t) \/ routine[t] = "abort" => cur[t] \in Calls /\ state[cur[t]] # "NONE"
  BY DEF IInv, FrameInv, BuiltInv, EndsPast, CallRoutines, CallLabels
<1>7. EndingInv'
  BY <1>0, <1>5, <1>6, Lasting, EndingStays DEF EndingInv, Past
<1> QED
  BY <1>4, <1>7

(* The application: answer() and deny() decide on a response they are to   *)
(* remember; answer() that fails looks whether one is remembered.          *)
LEMMA AppSettled ==
    ASSUME IInv, InviteInv, CodeInv, SettledInv, EndingInv, [Next]_vars,
           NEW t \in Apps, AppStep(t) \/ Request(t)
    PROVE  SettledInv' /\ EndingInv'
<1> DEFINE Turns == /\ pc'[t] \in {"check", "keep"} => routine'[t] = "abort"
                    /\ routine'[t] = "abort" /\ pc'[t] \in {"media", "sendbye", "ended"}
                           => cache'[inv'[cur'[t]]] # 0
                    /\ EndsPast(t)' => Past(cur[t])'
<1>0. /\ Alone(t) /\ building' = building /\ inv' = inv
      /\ FrameType /\ t \in Threads /\ t # Recv
      /\ cache \in [Invites -> Codes] /\ state \in [Calls -> States]
      /\ inv \in [Calls -> Invites \cup {None}]
  BY AppMoves, ConstantsAssumption
  DEF recvVars, IInv, TypeOK, PhoneType, CallType, Threads
<1>1. \A c : Remembers(t, c) => pc[t] \in {"send", "remember", "check", "keep"}
  BY <1>0 DEF Remembers
<1>2. ASSUME Turns, state' = state, pc[t] \notin {"send", "remember", "check", "keep"}
      PROVE  SettledInv' /\ EndingInv'
  <2>1. \A c \in Calls : Past(c)' => Past(c)
    BY <1>2 DEF Past
  <2> QED
    BY <1>0, <1>1, <1>2, <2>1, SettledStays, EndingStays
<1>3. ASSUME Invalid(t) \/ HangupGuarded(t, cur[t]),
             pc[t] \in {"hangup", "deny"}, cur[t] \in Calls,
             pc[t] = "deny" => state[cur[t]] \in {"ANSWERED", "ENDED"}
      PROVE  SettledInv' /\ EndingInv'
  <2>1. state' = state /\ Past(cur[t])'
    <3>1. state' = state
      BY <1>3 DEF Invalid, HangupGuarded, lifeVars
    <3>2. cur'[t] = cur[t]
      BY <1>0, <1>3, EnterMoves, GoOnly DEF Invalid, HangupGuarded
    <3>3. Past(cur[t])
      BY <1>0, <1>3 DEF EndingInv, EndsPast, Past
    <3> QED
      BY <3>1, <3>2, <3>3 DEF Past
  <2>2. /\ cur'[t] = cur[t]
        /\ \/ pc'[t] = "force" /\ routine'[t] = routine[t]
           \/ pc'[t] = "media" /\ routine'[t] = "hangup"
    BY <1>0, <1>3, EnterMoves, GoOnly DEF Invalid, HangupGuarded
  <2>3. Turns
    BY <2>1, <2>2 DEF Past
  <2> HIDE DEF Turns
  <2> QED
    BY <1>2, <1>3, <2>1, <2>3
<1>4. ASSUME NEW c \in Calls, Decline(t, c),
             pc[t] \notin {"send", "remember", "check", "keep"}
      PROVE  SettledInv' /\ EndingInv'
  <2>1. /\ pc'[t] = "remember" /\ routine'[t] = "deny" /\ cur'[t] = c
        /\ state' = [state EXCEPT ![c] = "ENDED"]
    BY <1>0, <1>4, EnterMoves DEF Decline
  <2>2. Remembers(t, c)' /\ Past(c)'
    BY <1>0, <2>1 DEF Remembers, Past
  <2>3. \A d \in Calls : Past(d)' => Past(d) \/ Remembers(t, d)'
    BY <1>0, <2>1, <2>2 DEF Past
  <2>4. Turns
    BY <1>0, <2>1 DEF Past
  <2> QED
    BY <1>0, <1>1, <1>4, <2>3, <2>4, SettledStays, EndingStays
<1>5. ASSUME NEW c \in Calls, HangupGuarded(t, c), pc[t] = "idle"
      PROVE  SettledInv' /\ EndingInv'
  <2>1. /\ pc'[t] = "media" /\ routine'[t] = "hangup" /\ cur'[t] = c
        /\ state' = state /\ state[c] = "ANSWERED"
    BY <1>0, <1>5, EnterMoves DEF HangupGuarded, lifeVars
  <2>2. Turns
    BY <2>1 DEF Past
  <2> QED
    BY <1>2, <1>5, <2>1, <2>2
<1>6. CASE Prepare(t)
  <2>1. /\ state' = state /\ pc[t] = "prepare"
        /\ \/ /\ pc'[t] = "commit" /\ UNCHANGED <<routine, cur>>
           \/ pc'[t] = "check" /\ routine'[t] = "abort"
    BY <1>0, <1>6, EnterMoves, GoOnly DEF Prepare, Abort, lifeVars
  <2>2. routine[t] \in {"answer", "abort"}
    BY <2>1, <1>0 DEF IInv, FrameInv, AnswerLabels
  <2>3. Turns
    BY <2>1, <2>2 DEF EndsPast
  <2> QED
    BY <1>2, <2>1, <2>3
<1>7. CASE Commit(t)
  <2>1. CASE Abort(t) /\ UNCHANGED <<state, initial>>
    <3>1. pc'[t] = "check" /\ routine'[t] = "abort"
      BY <1>0, <2>1, EnterMoves DEF Abort
    <3>2. Turns
      BY <3>1 DEF EndsPast
    <3> QED
      BY <1>2, <1>7, <2>1, <3>2 DEF Commit
  <2>2. CASE /\ Enter(t, "answer", cur[t], "send", 200)
             /\ state' = [state EXCEPT ![cur[t]] = "ANSWERED"]
    <3>1. pc'[t] = "send" /\ routine'[t] = "answer" /\ cur'[t] = cur[t]
      BY <1>0, <2>2, EnterMoves
    <3>2. Remembers(t, cur[t])' /\ Turns
      BY <1>0, <3>1 DEF Remembers, EndsPast
    <3>3. \A c \in Calls : Past(c)' => Past(c) \/ Remembers(t, c)'
      BY <1>0, <2>2, <3>1, <3>2 DEF Past
    <3>4. \A c : ~Remembers(t, c)
      BY <1>1, <1>7 DEF Commit
    <3> QED
      BY <1>0, <3>2, <3>3, <3>4, SettledStays, EndingStays
  <2> QED
    BY <1>7, <2>1, <2>2 DEF Commit
<1>8. CASE Check(t) \/ Keep(t)
  <2>1. /\ state' = state /\ routine[t] = "abort" /\ pc[t] \in {"check", "keep"}
        /\ UNCHANGED <<routine, cur>>
    BY <1>0, <1>8 DEF Check, Keep, EndingInv, lifeVars, frameVars
  <2>2. cur[t] \in Calls /\ state[cur[t]] # "NONE" /\ inv[cur[t]] \in Invites
    BY <1>0, <2>1 DEF IInv, FrameInv, CallRoutines, BuiltInv, InviteInv
  <2>3. \/ pc'[t] = "keep"
        \/ pc'[t] = "media" /\ cache'[inv[cur[t]]] # 0
    <3>1. CASE Check(t)
      <4>1. /\ pc'[t] = IF cache[inv[cur[t]]] = 0 THEN "keep" ELSE "media"
            /\ cache' = cache
        BY <1>0, <3>1, GoOnly DEF Check, registryVars
      <4> QED
        BY <4>1
    <3>2. CASE Keep(t)
      <4>1. pc'[t] = "media" /\ cache' = [cache EXCEPT ![inv[cur[t]]] = 500]
        BY <1>0, <3>2, GoOnly DEF Keep
      <4> QED
        BY <1>0, <2>2, <4>1
    <3> QED
      BY <1>8, <3>1, <3>2
  <2>4. Turns
    BY <1>0, <2>1, <2>3 DEF EndsPast
  <2>5. \A c \in Calls : Remembers(t, c) => c = cur[t]
    BY <1>0 DEF Remembers
  <2>6. Remembers(t, cur[t])' \/ cache'[inv[cur[t]]] # 0
    BY <1>0, <2>1, <2>3 DEF Remembers
  <2>7. \A c \in Calls : Past(c)' => Past(c)
    BY <2>1 DEF Past
  <2>8. \A c \in Calls : Remembers(t, c) =>
            Remembers(t, c)' \/ cache'[inv'[c]] # 0
    BY <1>0, <2>1, <2>5, <2>6
  <2>9. SettledInv'
    BY <1>0, <2>7, <2>8, SettledStays
  <2>10. EndingInv'
    BY <1>0, <2>4, EndingStays
  <2> QED
    BY <2>9, <2>10
<1>9. CASE Unflag(t)
  <2>1. pc'[t] = "idle" /\ routine'[t] = "none" /\ pc[t] = "unflag" /\ state' = state
    BY <1>0, <1>9, EnterMoves DEF Unflag
  <2>2. Turns
    BY <2>1 DEF EndsPast
  <2> QED
    BY <1>2, <2>1, <2>2
<1>10. CASE StopNext(t)
  <2>1. /\ pc[t] = "next" /\ state' = state
        /\ \/ pc'[t] = "stopped" /\ routine'[t] = "none"
           \/ /\ pc'[t] \in {"hangup", "read2"} /\ routine'[t] = "finish"
              /\ pc'[t] = "hangup" => state[cur'[t]] = "ANSWERED"
    BY <1>0, <1>10, EnterMoves DEF StopNext, lifeVars
  <2>2. Turns
    BY <2>1 DEF EndsPast, Past
  <2> QED
    BY <1>2, <2>1, <2>2
<1>11. CASE StopRead2(t) \/ StopRead3(t) \/ StopReturn(t)
  <2>1. /\ pc[t] \in {"read2", "read3", "stopped"} /\ UNCHANGED <<state, routine, cur>>
        /\ pc'[t] \in {"read3", "fin", "deny", "force", "idle"}
        /\ pc'[t] = "force" => pc[t] = "read3" /\ state[cur[t]] # "RINGING"
    BY <1>0, <1>11, GoOnly DEF StopRead2, StopRead3, StopReturn, lifeVars
  <2>2. pc'[t] = "force" => Past(cur[t])
    BY <1>0, <2>1 DEF IInv, FrameInv, CallLabels, BuiltInv, States, Past
  <2>3. EndsPast(t)' => EndsPast(t) \/ pc'[t] = "force"
    BY <2>1 DEF EndsPast
  <2>4. Turns
    <3>1. EndsPast(t)' => Past(cur[t])
      BY <1>0, <2>2, <2>3 DEF EndingInv
    <3>2. Past(cur[t]) => Past(cur[t])'
      BY <2>1 DEF Past
    <3>3. pc'[t] \notin {"check", "keep", "media", "sendbye", "ended"}
      BY <2>1
    <3> QED
      BY <3>1, <3>2, <3>3
  <2> QED
    BY <1>2, <2>1, <2>4
<1>12. CASE StopHangup(t) \/ StopDeny(t)
  <2>1. cur[t] \in Calls /\ state[cur[t]] \in States \ {"NONE"}
    BY <1>0, <1>12 DEF StopHangup, StopDeny, IInv, FrameInv, CallLabels, BuiltInv
  <2>2. CASE StopHangup(t)
    BY <1>3, <2>1, <2>2 DEF StopHangup
  <2>3. CASE StopDeny(t)
    BY <1>3, <1>4, <2>1, <2>3 DEF StopDeny, States
  <2> QED
    BY <1>12, <2>2, <2>3
<1>13. CASE StopForce(t)
  <2>1. /\ pc[t] = "force" /\ pc'[t] = "ended" /\ routine'[t] = "force"
        /\ cur'[t] = cur[t] /\ state' = state
    BY <1>0, <1>13, EnterMoves DEF StopForce, lifeVars
  <2>2. Past(cur[t])
    BY <1>0, <2>1 DEF EndingInv, EndsPast
  <2>3. Turns
    BY <2>1, <2>2 DEF Past
  <2> QED
    BY <1>2, <2>1, <2>3
<1>14. CASE Stop(t)
  <2>1. /\ pc[t] = "idle" /\ pc'[t] = "next" /\ UNCHANGED <<state, routine, cur>>
    BY <1>0, <1>14, GoOnly DEF Stop, Idle, lifeVars
  <2>2. EndsPast(t)' => EndsPast(t)
    BY <2>1 DEF EndsPast
  <2>3. Turns
    <3>1. EndsPast(t)' => Past(cur[t])
      BY <1>0, <2>2 DEF EndingInv
    <3>2. Past(cur[t]) => Past(cur[t])'
      BY <2>1 DEF Past
    <3> QED
      BY <2>1, <3>1, <3>2
  <2> QED
    BY <1>2, <2>1, <2>3
<1>15. ASSUME NEW c \in Calls, Answer(t, c) PROVE SettledInv' /\ EndingInv'
  <2>1. pc[t] = "idle" /\ pc'[t] = "prepare" /\ routine'[t] = "answer" /\ state' = state
    BY <1>0, <1>15, EnterMoves DEF Answer, Idle
  <2>2. Turns
    BY <2>1 DEF EndsPast
  <2> QED
    BY <1>2, <2>1, <2>2
<1> HIDE DEF Turns
<1>16. ASSUME NEW c \in Calls, Deny(t, c) \/ Hangup(t, c) PROVE SettledInv' /\ EndingInv'
  BY <1>4, <1>5, <1>16 DEF Deny, Hangup, Idle
<1> QED
  BY <1>6, <1>7, <1>8, <1>9, <1>10, <1>11, <1>12, <1>13, <1>14, <1>15, <1>16
  DEF AppStep, Request

(* The receive thread: a CANCEL and the refusal of a new INVITE decide on  *)
(* a response that is to be remembered.                                    *)
LEMMA RecvSettled ==
    ASSUME IInv, InviteInv, CodeInv, SettledInv, EndingInv, [Next]_vars,
           RecvStep \/ Message
    PROVE  SettledInv' /\ EndingInv'
<1>0. /\ FrameType /\ Recv \in Threads /\ Recv \notin Apps
      /\ state \in [Calls -> States] /\ calls \in [Invites -> Calls \cup {None}]
      /\ cache \in [Invites -> Codes] /\ 0 \in Codes
      /\ pc[Recv] # "idle" => req \in Invites
  BY ConstantsAssumption
  DEF IInv, TypeOK, CallType, PhoneType, FrameInv, Threads, Codes
<1>1. pc[Recv] \notin {"media", "ended", "remember"}
  BY DEF RecvStep, Lookup, Retrans, Ring, Allocate, ReclaimNext, Reallocate, Register,
         Dispatch, Undispatch, Discard, Fail, Cancel, Bye, Message, RecvInvite,
         RecvCancel, RecvBye, Idle
<1>2. \A c : ~Remembers(Recv, c)
  BY <1>0, <1>1 DEF Remembers
<1>3. ASSUME Alone(Recv),
             \A c \in Calls : Past(c)' => Past(c) \/ Remembers(Recv, c)',
             pc'[Recv] \notin {"check", "keep"},
             routine'[Recv] = "abort" => pc'[Recv] \notin {"media", "sendbye", "ended"},
             EndsPast(Recv)' => Past(cur[Recv])'
      PROVE  SettledInv' /\ EndingInv'
  BY <1>0, <1>2, <1>3, SettledStays, EndingStays
<1>4. ASSUME NEW r, NEW d, NEW l, NEW k, Enter(Recv, r, d, l, k),
             r \notin {"abort", "deny", "cancelled"},
             l \notin {"check", "keep", "force", "hangup", "media", "sendbye", "ended"},
             \A c \in Calls : Past(c)' => Past(c) \/ Remembers(Recv, c)'
      PROVE  SettledInv' /\ EndingInv'
  <2>1. Alone(Recv) /\ pc'[Recv] = l /\ routine'[Recv] = r
    BY <1>0, <1>4, EnterMoves
  <2>2. ~EndsPast(Recv)'
    BY <1>4, <2>1 DEF EndsPast
  <2> QED
    BY <1>3, <1>4, <2>1, <2>2
<1>5. ASSUME NEW r, NEW d, NEW l, NEW k, Enter(Recv, r, d, l, k),
             r \notin {"abort", "deny", "cancelled"},
             l \notin {"check", "keep", "force", "hangup", "media", "sendbye", "ended"},
             state' = state
      PROVE  SettledInv' /\ EndingInv'
  <2>1. \A c \in Calls : Past(c)' => Past(c)
    BY <1>5 DEF Past
  <2> QED
    BY <1>4, <1>5, <2>1
<1>6. ASSUME NEW l, Go(Recv, l), UNCHANGED frameVars, state' = state,
             l \in {"idle", "dispatch", "undispatch"}
      PROVE  SettledInv' /\ EndingInv'
  <2>1. Alone(Recv) /\ pc'[Recv] = l /\ routine' = routine /\ cur' = cur
    BY <1>0, <1>6, GoOnly
  <2>2. \A c : Past(c)' <=> Past(c)
    BY <1>6 DEF Past
  <2>3. EndsPast(Recv)' => EndsPast(Recv)
    BY <1>6, <2>1 DEF EndsPast
  <2>4. EndsPast(Recv)' => Past(cur[Recv])'
    BY <1>0, <1>6, <2>1, <2>3 DEF EndingInv, Past
  <2> QED
    BY <1>3, <1>6, <2>1, <2>2, <2>4
<1>7. CASE Message
  BY <1>0, <1>5, <1>7 DEF Message, RecvInvite, RecvCancel, RecvBye, Unhandled, lifeVars
<1>8. CASE Lookup
  BY <1>5, <1>8 DEF Lookup, Unhandled, lifeVars
<1>9. CASE Retrans
  BY <1>5, <1>9 DEF Retrans, Unhandled, lifeVars
<1>10. CASE Ring \/ ReclaimNext \/ Discard
  BY <1>5, <1>10 DEF Ring, ReclaimNext, Discard, lifeVars
<1>11. CASE Fail
  BY <1>5, <1>11 DEF Fail, lifeVars
<1>12. CASE (Allocate \/ Reallocate) /\ \E p \in FreePorts : Take(p)
  <2>1. /\ Enter(Recv, "none", None, "register", 0)
        /\ state' = [state EXCEPT ![building] = "RINGING"]
    BY <1>12 DEF Take
  <2>2. \A c \in Calls : Past(c)' => Past(c)
    BY <1>0, <2>1 DEF Past
  <2> QED
    BY <1>4, <2>1, <2>2
<1>13. CASE Allocate /\ Reclaim
  BY <1>5, <1>13 DEF Reclaim, lifeVars
<1>14. CASE Reallocate /\ Refuse
  <2>1. /\ Enter(Recv, "refuse", None, "remember", 488) /\ building' = building
        /\ state' = [state EXCEPT ![building] = "ENDED"]
    BY <1>14 DEF Refuse, recvVars
  <2>2. Remembers(Recv, building)'
    BY <1>0, <2>1, EnterMoves DEF Remembers
  <2>3. \A c \in Calls : Past(c)' => Past(c) \/ Remembers(Recv, c)'
    BY <1>0, <2>1, <2>2 DEF Past, Remembers
  <2> QED
    BY <1>4, <2>1, <2>3
<1>15. CASE Register \/ Dispatch
  BY <1>6, <1>15 DEF Register, Dispatch, lifeVars
<1>16. CASE Undispatch
  <2>1. state' = state
    BY <1>16 DEF Undispatch, Unhandled, lifeVars
  <2>2. CASE Enter(Recv, "lost", None, "remember", 486)
    BY <1>5, <2>1, <2>2
  <2>3. CASE Enter(Recv, "undispatched", building, "media", 486)
    <3>1. Alone(Recv) /\ pc'[Recv] = "media" /\ routine'[Recv] = "undispatched"
      BY <1>0, <2>3, EnterMoves
    <3>2. ~EndsPast(Recv)' /\ \A c \in Calls : Past(c)' => Past(c)
      BY <2>1, <3>1 DEF EndsPast, Past
    <3> QED
      BY <1>3, <3>1, <3>2
  <2> QED
    BY <1>16, <2>2, <2>3 DEF Undispatch
<1>17. CASE Cancel
  <2>1. CASE Enter(Recv, "none", None, "idle", 0) /\ UNCHANGED state
    BY <1>5, <2>1
  <2>2. CASE /\ calls[req] # None
             /\ Enter(Recv, "cancelled", calls[req], "media", 487)
             /\ state' = [state EXCEPT ![calls[req]] = "ENDED"]
    <3>1. /\ Alone(Recv) /\ pc'[Recv] = "media" /\ routine'[Recv] = "cancelled"
          /\ cur'[Recv] = calls[req]
      BY <1>0, <2>2, EnterMoves
    <3>2. calls[req] \in Calls
      BY <1>0, <1>17, <2>2 DEF Cancel
    <3>3. \A c \in Calls : Past(c)' => Past(c) \/ c = calls[req]
      BY <1>0, <2>2, <3>2 DEF Past
    <3>4. \A c \in Calls : c = calls[req] => Remembers(Recv, c)'
      BY <3>1 DEF Remembers
    <3>5. Past(cur[Recv])'
      BY <1>0, <2>2, <3>1, <3>2 DEF Past
    <3> QED
      BY <1>3, <3>1, <3>3, <3>4, <3>5
  <2> QED
    BY <1>17, <2>1, <2>2 DEF Cancel
<1>18. CASE Bye
  <2>1. state' = state
    BY <1>18 DEF Bye, Unhandled, lifeVars
  <2>2. CASE \/ Enter(Recv, "none", None, "idle", 0)
             \/ Enter(Recv, "bye", calls[req], "fin", 0)
    BY <1>5, <2>1, <2>2
  <2>3. CASE /\ Enter(Recv, "bye", calls[req], "media", 0)
             /\ state[calls[req]] = "ANSWERED"
    <3>1. /\ Alone(Recv) /\ pc'[Recv] = "media" /\ routine'[Recv] = "bye"
          /\ cur'[Recv] = calls[req]
      BY <1>0, <2>3, EnterMoves
    <3>2. Past(cur[Recv])' /\ \A c \in Calls : Past(c)' => Past(c)
      BY <2>1, <2>3, <3>1 DEF Past
    <3> QED
      BY <1>3, <3>1, <3>2
  <2> QED
    BY <1>18, <2>2, <2>3 DEF Bye
<1> QED
  BY <1>7, <1>8, <1>9, <1>10, <1>11, <1>12, <1>13, <1>14, <1>15, <1>16, <1>17, <1>18
  DEF RecvStep, Allocate, Reallocate

(* Every step keeps SettledInv and EndingInv.                              *)
LEMMA SettledStep ==
    ASSUME IInv, InviteInv, CodeInv, SettledInv, EndingInv, [Next]_vars
    PROVE  SettledInv' /\ EndingInv'
<1>1. ASSUME NEW t \in Threads, Step(t) PROVE SettledInv' /\ EndingInv'
  BY <1>1, EndingSettled, AppSettled, RecvSettled DEF Step
<1>2. ASSUME NEW t \in Apps, Request(t) PROVE SettledInv' /\ EndingInv'
  BY <1>2, AppSettled
<1>3. CASE Message
  BY <1>3, RecvSettled
<1>4. CASE (\E c \in Calls : CallbackRuns(c) \/ CallbackReturns(c)) \/ UNCHANGED vars
  <2>1. UNCHANGED <<state, inv, cache, pc, routine, cur, building>>
    BY <1>4 DEF CallbackRuns, CallbackReturns, lifeVars, mediaVars, registryVars,
                recvVars, frameVars, vars
  <2> QED
    BY <2>1 DEF SettledInv, EndingInv, Past, Remembers, EndsPast
<1> QED
  BY <1>1, <1>2, <1>3, <1>4 DEF Next

----------------------------------------------------------------------------
(* The theorems *)

(* RegistryInv holds initially.                                            *)
LEMMA InitRegistry ==
    ASSUME Init
    PROVE  RegistryInv
<1>1. Recv \in Threads /\ \A t \in Threads : pc[t] = "idle" /\ routine[t] = "none"
  BY DEF Init, Threads
<1>2. \A i \in Invites : calls[i] = None
  BY DEF Init
<1>3. TagInv
  BY <1>1, <1>2 DEF TagInv, TagOfRegisteredCall, Making, Constructing
<1>4. InviteInv
  BY <1>1, <1>2, ConstantsAssumption DEF Init, InviteInv, Constructing, Published
<1>5. CodeInv
  BY <1>1 DEF CodeInv
<1>6. SettledInv /\ EndingInv
  BY <1>1 DEF Init, SettledInv, EndingInv, Past, EndsPast
<1> QED
  BY <1>3, <1>4, <1>5, <1>6 DEF RegistryInv

(* The tag of a Call-ID, the INVITE of a call and of its registration, and *)
(* the response a call that was decided has or is about to have stay as    *)
(* RegistryInv says, with any number of threads, calls and faults.         *)
THEOREM RegistryInvariance == Spec => []RegistryInv
<1>1. IInv /\ RegistryInv /\ [Next]_vars => RegistryInv'
  BY TagStep, InviteStep, CodeStep, SettledStep DEF RegistryInv
<1> QED
  BY <1>1, InitRegistry, Invariance, PTL DEF Spec

(* Dialog matching: the tag kept for a Call-ID is that of its registered   *)
(* call, while an older call of the same Call-ID is being removed          *)
(* (_remove_call, VoIP.py), as well.                                       *)
THEOREM TagsOfCalls == Spec => []TagOfRegisteredCall
<1>1. RegistryInv => TagOfRegisteredCall
  BY DEF RegistryInv, TagInv
<1> QED
  BY <1>1, RegistryInvariance, PTL

(* Once no thread works on an ended call, a retransmission of its INVITE   *)
(* is answered with the final response remembered for it                   *)
(* (_remember_invite_response), whoever of answer(), deny(), CANCEL,       *)
(* stop() and a failing dispatch ended the call.                           *)
THEOREM EndedAnswered == Spec => []EndedIsRemembered
<1>1. ASSUME RegistryInv, NEW c \in Calls, state[c] = "ENDED", Quiet(c)
      PROVE  cache[inv[c]] # 0
  <2>1. \A t \in Threads : ~Remembers(t, c)
    BY <1>1 DEF Quiet, Remembers
  <2>2. Past(c)
    BY <1>1 DEF Past
  <2> QED
    BY <1>1, <2>1, <2>2 DEF RegistryInv, SettledInv
<1>2. RegistryInv => EndedIsRemembered
  BY <1>1 DEF EndedIsRemembered
<1> QED
  BY <1>2, RegistryInvariance, PTL
=============================================================================
