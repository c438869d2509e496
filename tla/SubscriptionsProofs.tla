------------------------ MODULE SubscriptionsProofs ------------------------
(***************************************************************************)
(* Proofs about Subscriptions: events reach the application in order and   *)
(* exactly when their NOTIFY was answered, repeated NOTIFYs are answered   *)
(* alike, and the table follows the outcome of every subscription.         *)
(***************************************************************************)
EXTENDS Subscriptions, SequenceTheorems, TLAPS

----------------------------------------------------------------------------
(* Runs and threads *)

(* start() makes the generation odd and keeps the callback queue; stop()   *)
(* makes it even and takes the next queue.                                 *)
LEMMA Generations ==
    ASSUME gen \in Nat
    PROVE  /\ Deque \in Nat
           /\ ~nsd => /\ (gen + 1) % 2 = 1 /\ (gen + 1) \div 2 = Deque
                      /\ gen + 1 = 2 * (Deque + 1) - 1
           /\ nsd => (gen + 1) % 2 # 1 /\ (gen + 1) \div 2 = Deque + 1
           /\ nsd => gen + 1 = 2 * (Deque + 1)
  BY DEF nsd, Deque

(* A step changes one thread.                                              *)
Moves(t) == /\ thread' \in [Threads -> ThreadType]
            /\ \A u \in Threads \ {t} : thread'[u] = thread[u]
Inner(t) == /\ Moves(t)
            /\ thread'[t].g = thread[t].g /\ thread'[t].sub = thread[t].sub
            /\ thread'[t].goal = thread[t].goal
            /\ thread'[t].held = thread[t].held

(* The forms in which the model changes a thread.                          *)
LEMMA GoMoves ==
    ASSUME DataType, NEW t \in Threads, NEW l \in Labels, Go(t, l)
    PROVE  /\ Inner(t) /\ thread'[t].at = l
           /\ thread'[t].note = thread[t].note /\ thread'[t].deque = thread[t].deque
           /\ thread'[t].res = thread[t].res
  BY DEF DataType, Go, Inner, Moves, ThreadType

(* Go, and the thread has nothing in hand any more.                        *)
LEMMA PutMoves ==
    ASSUME DataType, NEW t \in Threads, NEW l \in Labels, Put(t, l)
    PROVE  /\ Inner(t) /\ thread'[t].at = l
           /\ thread'[t].note = None /\ thread'[t].deque = thread[t].deque
           /\ thread'[t].res = thread[t].res
<1> DEFINE f == [thread[t] EXCEPT !.at = l, !.note = None]
<1>1. thread[t] \in ThreadType /\ thread \in [Threads -> ThreadType]
  BY DEF DataType
<1>2. /\ f \in ThreadType /\ f.at = l /\ f.note = None /\ f.res = thread[t].res
      /\ f.deque = thread[t].deque /\ f.g = thread[t].g /\ f.sub = thread[t].sub
      /\ f.goal = thread[t].goal /\ f.held = thread[t].held
  BY <1>1 DEF ThreadType
<1>3. thread' = [thread EXCEPT ![t] = f]
  BY DEF Put
<1> HIDE DEF f
<1> QED
  BY <1>1, <1>2, <1>3 DEF Inner, Moves

(* Put, and the outcome of the routine is kept.                            *)
LEMMA EndMoves ==
    ASSUME DataType, NEW t \in Threads, NEW l \in Labels,
           NEW r \in {"none", "ok", "raise"}, End(t, l, r)
    PROVE  /\ Inner(t) /\ thread'[t].at = l
           /\ thread'[t].note = None /\ thread'[t].deque = thread[t].deque
           /\ thread'[t].res = r
<1> DEFINE f == [thread[t] EXCEPT !.at = l, !.res = r, !.note = None]
<1>1. thread[t] \in ThreadType /\ thread \in [Threads -> ThreadType]
  BY DEF DataType
<1>2. /\ f \in ThreadType /\ f.at = l /\ f.note = None /\ f.res = r
      /\ f.deque = thread[t].deque /\ f.g = thread[t].g /\ f.sub = thread[t].sub
      /\ f.goal = thread[t].goal /\ f.held = thread[t].held
  BY <1>1 DEF ThreadType
<1>3. thread' = [thread EXCEPT ![t] = f]
  BY DEF End
<1> HIDE DEF f
<1> QED
  BY <1>1, <1>2, <1>3 DEF Inner, Moves

(* The thread is through with the callbacks.                               *)
LEMMA DrainedMoves ==
    ASSUME DataType, NEW t \in Threads, Drained(t)
    PROVE  /\ Inner(t) /\ thread'[t].at = IF t \in Apps THEN "leave" ELSE "loop"
           /\ thread'[t].note = thread[t].note /\ thread'[t].deque = 0
           /\ thread'[t].res = thread[t].res
<1>1. {"leave", "loop"} \subseteq Labels
  BY DEF Labels, RestLabels, AppLabels
<1> DEFINE l == IF t \in Apps THEN "leave" ELSE "loop"
           f == [thread[t] EXCEPT !.at = l, !.deque = 0]
<1>2. thread[t] \in ThreadType /\ thread \in [Threads -> ThreadType] /\ l \in Labels
  BY <1>1 DEF DataType
<1> HIDE DEF l
<1>3. /\ f \in ThreadType /\ f.at = l /\ f.deque = 0 /\ f.res = thread[t].res
      /\ f.note = thread[t].note /\ f.g = thread[t].g /\ f.sub = thread[t].sub
      /\ f.goal = thread[t].goal /\ f.held = thread[t].held
  BY <1>2 DEF ThreadType
<1>4. thread' = [thread EXCEPT ![t] = f]
  BY DEF Drained, l
<1> HIDE DEF f
<1> QED
  BY <1>2, <1>3, <1>4 DEF Inner, Moves, l

(* Where a thread may stand after a step of its own.                       *)
PlaceFits(t) ==
    /\ thread[t].at # "idle" /\ thread'[t].deque <= Deque
    /\ t \notin Apps => thread'[t].at \notin AppLabels
    /\ t \in Apps => thread[t].at \notin RestLabels /\ thread'[t].at \notin RestLabels

(* Then every thread stands where its routine may be.                      *)
LEMMA PlaceStays ==
    ASSUME PlaceInv, NEW t \in Threads, Inner(t), PlaceFits(t), gen' = gen
    PROVE  PlaceInv'
<1> SUFFICES ASSUME NEW u \in Threads PROVE Placed(u)'
  BY DEF PlaceInv
<1>1. Placed(u) /\ Deque' = Deque
  BY DEF PlaceInv, Deque
<1>2. CASE u # t
  BY <1>1, <1>2 DEF Placed, Inner, Moves
<1>3. CASE u = t
  BY <1>1, <1>3 DEF Placed, Inner, Moves, PlaceFits, RestLabels
<1> QED
  BY <1>2, <1>3

(* A step of t takes recvLock, keeps it, gives it back, or leaves it       *)
(* alone, and moves to a place where that is so.                           *)
LockFits(t) ==
    LET was == thread[t].at \in LockLabels
        is == thread'[t].at \in LockLabels
    IN  \/ recvLock' = recvLock /\ (was <=> is)
        \/ recvLock = None /\ recvLock' = t /\ is
        \/ recvLock' = None /\ was /\ ~is

(* Then the holder of recvLock is the thread in the code that it guards.   *)
LEMMA LockStays ==
    ASSUME ConstantsAssumption, LockInv, NEW t \in Threads, Moves(t), LockFits(t)
    PROVE  LockInv'
<1> SUFFICES ASSUME NEW u \in Threads
             PROVE  thread'[u].at \in LockLabels <=> recvLock' = u
  BY DEF LockInv
<1>1. /\ thread[u].at \in LockLabels <=> recvLock = u
      /\ thread[t].at \in LockLabels <=> recvLock = t
  BY DEF LockInv
<1>2. u # None /\ t # None
  BY ConstantsAssumption DEF Threads, Receivers
<1>3. CASE u # t
  BY <1>1, <1>2, <1>3 DEF Moves, LockFits
<1>4. CASE u = t
  BY <1>1, <1>2, <1>4 DEF Moves, LockFits
<1> QED
  BY <1>3, <1>4

(* Nobody else has a message in hand while a thread owns recvLock.         *)
LEMMA OneHand ==
    ASSUME LockInv, NEW t \in Threads, thread[t].at \in LockLabels
    PROVE  \A u \in Threads \ {t} : thread[u].at \notin LockLabels /\ ~InHand(u)
  BY DEF LockInv, InHand, LockLabels

----------------------------------------------------------------------------
(* Steps that leave a part of the state to itself *)

(* What a subscription remembers of the dialog grows, and keeps its run.   *)
Grows ==
    /\ DataType'
    /\ \A s \in Subs : /\ sub[s].local <= sub'[s].local
                       /\ sub[s].remote <= sub'[s].remote
                       /\ sub[s].run > 0 => sub'[s].run = sub[s].run

(* What has been answered stays so.                                        *)
LEMMA PastGrows ==
    ASSUME DataType, Grows, NEW k \in Notes, Past(k)
    PROVE  Past(k)'
  BY DEF DataType, Grows, Past, Notes, SubType

(* A NOTIFY belongs to a subscription that was asked for.                  *)
LEMMA PastRun ==
    ASSUME TableInv, DataType, NEW k \in Notes, sub[k.sub].local > 0
    PROVE  sub[k.sub].run > 0 /\ sub[k.sub].run \in Nat /\ sub[k.sub].run <= gen
<1>1. k.sub \in Subs
  BY DEF Notes
<1>2. Tabled(k.sub) /\ sub[k.sub] \in SubType
  BY <1>1 DEF TableInv, DataType
<1> QED
  BY <1>2 DEF Tabled, Unknown, SubType

(* What is reported: delivered, queued, or being called back.              *)
LEMMA Reporting ==
    ASSUME NEW k
    PROVE  k \in Reported <=>
              \/ \E i \in DOMAIN delivered : delivered[i] = k
              \/ \E i \in DOMAIN queue : queue[i] = k
              \/ \E t \in Threads : At(t, "call") /\ thread[t].note = k
  BY DEF Reported, ToSet

(* The same after a step.                                                  *)
LEMMA ReportingNext ==
    ASSUME NEW k
    PROVE  k \in Reported' <=>
              \/ \E i \in DOMAIN delivered' : delivered'[i] = k
              \/ \E i \in DOMAIN queue' : queue'[i] = k
              \/ \E t \in Threads : thread'[t].at = "call" /\ thread'[t].note = k
  BY DEF Reported, ToSet, At

(* Who calls back after the step did so before it, with the same event.    *)
SameCalls ==
    \A u \in Threads : thread'[u].at = "call" =>
        /\ thread[u].at = "call" /\ thread'[u].note = thread[u].note
        /\ thread'[u].deque = thread[u].deque
NewlyCurrent(k) == Past(k) /\ sub'[k.sub].run = gen'

(* Queue and deliveries stay; nothing that has been answered comes to      *)
(* belong to the run.                                                      *)
LEMMA OrderStays ==
    ASSUME DataType, Grows, OrderInv, SameCalls, UNCHANGED <<queue, delivered>>,
           queue \in Seq(Notes),
           \A k \in Notes : NewlyCurrent(k) => Current(k) /\ Deque' = Deque
    PROVE  OrderInv' /\ Reported' \subseteq Reported
<1>1. Reported' \subseteq Reported
  BY Reporting, ReportingNext DEF SameCalls, At
<1>2. Reported \subseteq Notes
  <2>1. \A i \in DOMAIN delivered : delivered[i] \in Notes
    BY ElementOfSeq DEF DataType
  <2>2. \A i \in DOMAIN queue : queue[i] \in Notes
    BY ElementOfSeq
  <2>3. \A t \in Threads : At(t, "call") => thread[t].note \in Notes
    BY DEF OrderInv
  <2> QED
    BY <2>1, <2>2, <2>3, Reporting
<1>3. \A k \in Reported' : Past(k)'
  BY <1>1, <1>2, PastGrows DEF OrderInv
<1>4. ASSUME NEW u \in Threads, thread'[u].at = "call",
             NEW c, c = thread'[u].note
      PROVE  /\ c \in Notes
             /\ \A j \in 1..Len(queue) : Above(queue[j], c)
             /\ Current(c)' => /\ thread'[u].deque = Deque'
                               /\ \A i \in 1..Len(delivered) : Above(c, delivered[i])
  <2>1. /\ At(u, "call") /\ c = thread[u].note
        /\ thread'[u].deque = thread[u].deque
    BY <1>4 DEF SameCalls, At
  <2>2. c \in Reported /\ c \in Notes /\ Past(c)
    BY <2>1, Reporting, <1>2 DEF OrderInv
  <2>3. Current(c)' => Current(c) /\ Deque' = Deque
    BY <2>2 DEF NewlyCurrent, Current
  <2> QED
    BY <2>1, <2>2, <2>3 DEF OrderInv
<1>5. /\ \A i, j \in 1..Len(delivered') :
             i < j => Above(delivered'[j], delivered'[i])
      /\ \A i, j \in 1..Len(queue') : i < j => Above(queue'[j], queue'[i])
      /\ \A i \in 1..Len(delivered'), j \in 1..Len(queue') :
             Above(queue'[j], delivered'[i])
  BY DEF OrderInv
<1> QED
  BY <1>1, <1>3, <1>4, <1>5 DEF OrderInv, At, Above

(* Who has a message in hand after the step had it before; what it knows   *)
(* of it holds on.                                                         *)
LEMMA HandStays ==
    ASSUME DataType, Grows, HandInv, Reported' \subseteq Reported,
           \A u \in Threads : InHand(u)' =>
               /\ thread'[u] = thread[u]
               /\ \A s \in Subs : sub'[s].remote = sub[s].remote,
           refused' \subseteq refused, answered \subseteq answered'
    PROVE  HandInv'
<1> SUFFICES ASSUME NEW u \in Threads, InHand(u)', NEW e, e = thread'[u].note
             PROVE  /\ e \in Notes /\ e.n > 0 /\ sub'[e.sub].local > 0
                    /\ ~At(u, "emit")' => e.n > sub'[e.sub].remote /\ e \notin refused'
                    /\ At(u, "emit")' => /\ e.n <= sub'[e.sub].remote
                                         /\ \A k \in Reported' : Above(e, k)
                    /\ ~At(u, "answer")' => e \in answered'
  BY DEF HandInv, Above
<1>1. /\ InHand(u) /\ thread'[u] = thread[u]
      /\ \A s \in Subs : sub'[s].remote = sub[s].remote
  BY DEF InHand
<1>2. /\ e \in Notes /\ e.n > 0 /\ sub[e.sub].local > 0
      /\ ~At(u, "emit") => e.n > sub[e.sub].remote /\ e \notin refused
      /\ At(u, "emit") => e.n <= sub[e.sub].remote /\ \A k \in Reported : Above(e, k)
      /\ ~At(u, "answer") => e \in answered
  BY <1>1 DEF HandInv
<1>3. e.sub \in Subs /\ sub'[e.sub].local > 0
  BY <1>2 DEF Notes, Grows, DataType, SubType
<1> QED
  BY <1>1, <1>2, <1>3 DEF At

(* A NOTIFY that was refused would be refused again.                       *)
LEMMA RefusedStays ==
    ASSUME DataType, Grows, CacheInv, \A s \in subs' \ subs : sub[s].local = 0
    PROVE  \A k \in refused :
              /\ sub'[k.sub].local > 0
              /\ k.sub \notin subs' \/ k.n <= sub'[k.sub].remote
<1> SUFFICES ASSUME NEW k \in refused
             PROVE  /\ sub'[k.sub].local > 0
                    /\ k.sub \notin subs' \/ k.n <= sub'[k.sub].remote
  OBVIOUS
<1>1. k \in Notes /\ k.sub \in Subs /\ k.n \in Nat
  BY DEF DataType, Notes
<1>2. sub[k.sub].local > 0 /\ (k.sub \notin subs \/ k.n <= sub[k.sub].remote)
  BY DEF CacheInv
<1>3. sub[k.sub] \in SubType /\ sub'[k.sub] \in SubType
  BY <1>1 DEF DataType, Grows
<1>4. sub[k.sub].local <= sub'[k.sub].local /\ sub[k.sub].remote <= sub'[k.sub].remote
  BY <1>1 DEF Grows
<1>5. k.sub \notin subs => k.sub \notin subs'
  BY <1>2, <1>3 DEF SubType
<1> QED
  BY <1>1, <1>2, <1>3, <1>4, <1>5 DEF SubType

(* The replay cache stays.                                                 *)
LEMMA CacheStays ==
    ASSUME DataType, Grows, CacheInv, cache \in Seq(Notes),
           UNCHANGED <<cache, kept, refused>>,
           \A s \in subs' \ subs : sub[s].local = 0
    PROVE  CacheInv'
<1>1. \A i \in 1..Len(cache) : cache[i] \in Notes
  OBVIOUS
<1>2. \A i \in 1..Len(cache) : Past(cache[i])'
  BY <1>1, PastGrows DEF CacheInv
<1> QED
  BY <1>2, RefusedStays DEF CacheInv, Past

(* What was answered stays reported, or in the hand that will report it.   *)
LEMMA AnswerStays ==
    ASSUME DataType, Grows, AnswerInv, answered' = answered,
           \A k \in Reported' : k \in Reported,
           \A k \in Notes : Current(k)' /\ sub[k.sub].run > 0 =>
               Current(k) /\ (k \in Reported => k \in Reported'),
           \A u \in Threads : thread[u].at \in {"remember", "emit"} =>
               \/ thread'[u].note = thread[u].note
                  /\ thread'[u].at \in {"remember", "emit"}
               \/ thread[u].note \in Reported'
    PROVE  AnswerInv'
<1>1. \A k \in Reported' : k.n > 0 => k \in answered'
  BY DEF AnswerInv
<1>2. ASSUME NEW k \in answered
      PROVE  /\ sub'[k.sub].run > 0
             /\ Current(k)' => \/ k \in Reported'
                               \/ \E u \in Threads : /\ thread'[u].note = k
                                                     /\ thread'[u].at \in {"remember", "emit"}
  <2>1. k \in Notes /\ k.sub \in Subs
    BY DEF DataType, Notes
  <2>2. sub[k.sub].run > 0 /\ sub'[k.sub].run > 0
    BY <2>1 DEF AnswerInv, Grows
  <2>3. CASE Current(k)'
    BY <1>2, <2>1, <2>2, <2>3 DEF AnswerInv
  <2> QED
    BY <2>2, <2>3
<1> QED
  BY <1>1, <1>2 DEF AnswerInv, Current

(* The threads that drain stay.                                            *)
LEMMA DrainStays ==
    ASSUME DrainInv, draining' = draining,
           \A u \in Threads : Drains(u)' => Drains(u)
    PROVE  DrainInv'
  BY DEF DrainInv, Drains

(* Somebody looks after the queue of the first run.                        *)
LookLabels == LockLabels \cup DrainLabels \cup {"drain", "claim"}
(* A thread that looks after it goes on doing so while it is not empty.    *)
LEMMA LeftStays ==
    ASSUME DrainLeft, gen' = gen, NEW t \in Threads, Moves(t),
           draining' => draining,
           thread[t].at \in DrainLabels => thread'[t].at \in DrainLabels,
           queue' # <<>> => /\ queue # <<>>
                            /\ thread[t].at \in LookLabels =>
                                  thread'[t].at \in LookLabels
    PROVE  DrainLeft'
<1> SUFFICES ASSUME gen <= 1
             PROVE  /\ draining' => \E u \in Threads : thread'[u].at \in DrainLabels
                    /\ queue' # <<>> => \E u \in Threads : thread'[u].at \in LookLabels
  BY DEF DrainLeft, LookLabels
<1>1. ASSUME NEW u \in Threads
      PROVE  /\ thread[u].at \in DrainLabels => thread'[u].at \in DrainLabels
             /\ queue' # <<>> /\ thread[u].at \in LookLabels =>
                   thread'[u].at \in LookLabels
  BY DEF Moves
<1> QED
  BY <1>1 DEF DrainLeft, LookLabels

----------------------------------------------------------------------------
(* The table of subscriptions *)

(* Thread t goes on with its routine; the subscriptions in D, which have    *)
(* been asked for, leave the table for good.                               *)
TableFits(t, D) ==
    /\ Inner(t) /\ gen' = gen /\ live' = live
    /\ {thread[t].at, thread'[t].at} \cap {"create", "clear"} = {}
    /\ \A s \in Subs : /\ sub'[s].run = sub[s].run
                       /\ sub'[s].local = sub[s].local \/ s = thread[t].sub
    /\ subs' = subs \ D /\ tags' = tags \ D /\ ended' = ended \cup D
    /\ \A s \in D : s \in Subs /\ sub[s].local > 0

(* Then the table, the tags and the outcomes go on telling the same.       *)
LEMMA TableStays ==
    ASSUME DataType, TableInv, NEW t \in Threads, NEW D, TableFits(t, D)
    PROVE  TableInv'
<1> SUFFICES ASSUME NEW s \in Subs PROVE Tabled(s)'
  BY DEF TableInv
<1>1. Tabled(s)
  BY DEF TableInv
<1>2. /\ \A u \in Threads : /\ thread'[u].sub = thread[u].sub
                            /\ thread'[u].held = thread[u].held
                            /\ Subscribing(u, s)' <=> Subscribing(u, s)
                            /\ At(u, "create")' <=> At(u, "create")
                            /\ At(u, "clear")' <=> At(u, "clear")
  BY DEF TableFits, Inner, Moves, Subscribing, At
<1>3. gen' = gen /\ live' = live /\ nsd' = nsd /\ sub'[s].run = sub[s].run
  BY DEF TableFits, nsd
<1>4. subs' = subs \ D /\ tags' = tags \ D /\ ended' = ended \cup D
  BY DEF TableFits
<1>5. ASSUME Unknown(s), \A u \in Threads : thread[u].sub = s => At(u, "create")
      PROVE  Unknown(s)' /\ s \notin D
  <2>1. sub'[s].local = sub[s].local
    BY <1>5 DEF TableFits, At
  <2>2. s \notin D
    BY <1>5 DEF TableFits, Unknown
  <2> QED
    BY <1>3, <1>4, <1>5, <2>1, <2>2 DEF Unknown
<1>6. sub'[s].run = 0 => Unknown(s)' /\ \A u \in Threads : thread'[u].sub # s
  BY <1>1, <1>2, <1>3, <1>5 DEF Tabled
<1>7. \A u \in Threads : Subscribing(u, s)' =>
         /\ s \notin live'
         /\ ~At(u, "create")' => s \in subs' \cup ended'
         /\ At(u, "create")' =>
               Unknown(s)' /\ \A v \in Threads : thread'[v].sub = s => v = u
  <2> SUFFICES ASSUME NEW u \in Threads, Subscribing(u, s)'
               PROVE  /\ s \notin live'
                      /\ ~At(u, "create")' => s \in subs' \cup ended'
                      /\ At(u, "create")' =>
                            Unknown(s)' /\ \A v \in Threads : thread'[v].sub = s => v = u
    OBVIOUS
  <2>1. Subscribing(u, s)
    BY <1>2
  <2>2. s \notin live' /\ (~At(u, "create")' => s \in subs' \cup ended')
    BY <1>1, <1>2, <1>3, <1>4, <2>1 DEF Tabled
  <2>3. CASE At(u, "create")
    <3>1. Unknown(s) /\ \A v \in Threads : thread[v].sub = s => v = u
      BY <1>1, <2>1, <2>3 DEF Tabled
    <3> QED
      BY <1>2, <1>5, <2>2, <2>3, <3>1
  <2> QED
    BY <1>2, <2>2, <2>3
<1>8. s \in subs' => /\ s \in tags' /\ s \notin ended'
                     /\ s \in live' \/ \E u \in Threads : Subscribing(u, s)'
  BY <1>1, <1>2, <1>3, <1>4 DEF Tabled
<1>9. /\ s \in live' => s \in subs' \cup ended'
      /\ s \in live' \cap subs' => nsd'
      /\ s \in tags' \ subs' =>
            \E u \in Threads : At(u, "clear")' /\ s \in thread'[u].held
      /\ \A u \in Threads : s \in thread'[u].held => s \in ended'
      /\ sub'[s].run <= gen'
      /\ \A u, v \in Threads : Subscribing(u, s)' /\ Subscribing(v, s)' => u = v
      /\ \A u \in Threads : At(u, "create")' /\ thread'[u].sub = s => Subscribing(u, s)'
  BY <1>1, <1>2, <1>3, <1>4 DEF Tabled
<1> QED
  BY <1>6, <1>7, <1>8, <1>9 DEF Tabled

----------------------------------------------------------------------------
(* Steps away from the events *)

(* What the actions write is of its kind.                                  *)
LEMMA TypesStay ==
    ASSUME LockInv', recvLock' \in Threads \cup {None}, gen' \in 0..2 * MaxStarts,
           subs' \subseteq Subs, tags' \subseteq Subs,
           \A s \in Subs : /\ sub'[s].answered <= sub'[s].local
                           /\ sub'[s].remote <= MaxNotify,
           cache' \in Seq(Notes), Len(cache') <= CacheSize,
           queue' \in Seq(Notes), draining' \in BOOLEAN
    PROVE  TypeOK'
<1>1. recvLock' # None =>
         thread'[recvLock'].at \in {"ask", "wait", "answer", "remember", "emit",
                                    "release"}
  BY DEF LockInv, LockLabels
<1> QED
  BY <1>1 DEF TypeOK

(* Nobody begins or ends to call back: the events on their way are the     *)
(* same.                                                                   *)
LEMMA SameReports ==
    ASSUME IInv, Grows, SameCalls, UNCHANGED <<gen, queue, delivered>>,
           \A u \in Threads : thread[u].at = "call" =>
               thread'[u].at = "call" /\ thread'[u].note = thread[u].note
    PROVE  OrderInv' /\ Reported' \subseteq Reported /\ Reported \subseteq Reported'
<1>0. DataType /\ TableInv /\ OrderInv /\ queue \in Seq(Notes)
  BY DEF IInv, TypeOK
<1>1. \A k \in Notes : sub[k.sub].run > 0 => sub'[k.sub].run = sub[k.sub].run
  BY DEF Grows, Notes
<1>2. \A k \in Notes : NewlyCurrent(k) => Current(k) /\ Deque' = Deque
  BY <1>0, <1>1, PastRun DEF NewlyCurrent, Past, Current, Deque
<1>3. OrderInv' /\ Reported' \subseteq Reported
  BY <1>0, <1>2, OrderStays
<1>4. Reported \subseteq Reported'
  <2> SUFFICES ASSUME NEW k \in Reported PROVE k \in Reported'
    OBVIOUS
  <2>1. CASE \E u \in Threads : At(u, "call") /\ thread[u].note = k
    BY <2>1, ReportingNext DEF At
  <2>2. CASE ~ \E u \in Threads : At(u, "call") /\ thread[u].note = k
    BY <2>2, Reporting, ReportingNext
  <2> QED
    BY <2>1, <2>2
<1> QED
  BY <1>3, <1>4

(* A thread that neither drains before the step nor after it, and keeps an *)
(* answered NOTIFY in hand, leaves what is reported as it is.              *)
Away(t) ==
    /\ Moves(t)
    /\ thread[t].at \notin DrainLabels /\ thread'[t].at \notin DrainLabels
    /\ thread[t].at \in {"remember", "emit"} =>
          thread'[t].note = thread[t].note /\ thread'[t].at \in {"remember", "emit"}
    /\ queue # <<>> /\ thread[t].at \in LookLabels => thread'[t].at \in LookLabels

(* Then the order, the flag and what was answered stay as they are said to *)
(* be.                                                                     *)
LEMMA AwayKeeps ==
    ASSUME IInv, NEW t \in Threads, Away(t), Grows,
           UNCHANGED <<gen, queue, draining, delivered>>
    PROVE  /\ OrderInv' /\ DrainInv' /\ DrainLeft'
           /\ Reported' \subseteq Reported /\ Reported \subseteq Reported'
           /\ answered' = answered => AnswerInv'
<1>0. DataType /\ DrainInv /\ AnswerInv /\ DrainLeft
  BY DEF IInv
<1>1. \A u \in Threads :
         /\ thread'[u].at \in DrainLabels => thread'[u] = thread[u]
         /\ thread[u].at \in DrainLabels => thread'[u] = thread[u]
         /\ thread[u].at \in {"remember", "emit"} =>
               thread'[u].note = thread[u].note /\ thread'[u].at \in {"remember", "emit"}
  BY DEF Away, Moves
<1>2. SameCalls /\ \A u \in Threads : thread[u].at = "call" =>
                      thread'[u].at = "call" /\ thread'[u].note = thread[u].note
  BY <1>1 DEF SameCalls, DrainLabels
<1>3. OrderInv' /\ Reported' \subseteq Reported /\ Reported \subseteq Reported'
  BY <1>2, SameReports
<1>4. answered' = answered => AnswerInv'
  <2>1. \A k \in Notes : Current(k)' /\ sub[k.sub].run > 0 =>
           Current(k) /\ (k \in Reported => k \in Reported')
    BY <1>3 DEF Current, Grows, Notes
  <2> QED
    BY <1>0, <1>1, <1>3, <2>1, AnswerStays
<1>5. DrainInv'
  <2>1. \A u \in Threads : Drains(u)' => Drains(u)
    BY <1>1 DEF Drains, Deque
  <2> QED
    BY <1>0, <2>1, DrainStays
<1>6. DrainLeft'
  BY <1>0, LeftStays DEF Away
<1> QED
  BY <1>3, <1>4, <1>5, <1>6

(* A thread that has no event in hand either leaves all that is said of    *)
(* events as it is.                                                        *)
Aside(t) ==
    /\ Moves(t)
    /\ thread[t].at \notin {"remember", "emit"} \cup DrainLabels
    /\ thread'[t].at \notin HandLabels \cup DrainLabels
    /\ queue # <<>> /\ thread[t].at \in LookLabels => thread'[t].at \in LookLabels

(* Then the cache and what is in hand do, too.                             *)
LEMMA AsideKeeps ==
    ASSUME IInv, NEW t \in Threads, Aside(t), Grows,
           UNCHANGED <<gen, cache, queue, draining, delivered, answered, refused,
                       kept>>,
           \A s \in Subs : sub'[s].remote = sub[s].remote,
           \A s \in subs' \ subs : sub[s].local = 0
    PROVE  HandInv' /\ CacheInv' /\ OrderInv' /\ DrainInv' /\ AnswerInv' /\ DrainLeft'
<1>0. DataType /\ HandInv /\ CacheInv /\ cache \in Seq(Notes)
  BY DEF IInv, TypeOK
<1>1. Away(t)
  BY DEF Aside, Away
<1>2. /\ OrderInv' /\ DrainInv' /\ AnswerInv' /\ DrainLeft'
      /\ Reported' \subseteq Reported
  BY <1>1, AwayKeeps
<1>3. HandInv'
  <2>1. \A u \in Threads : InHand(u)' => thread'[u] = thread[u]
    BY DEF InHand, HandLabels, Aside, Moves
  <2> QED
    BY <1>0, <1>2, <2>1, HandStays
<1>4. CacheInv'
  BY <1>0, CacheStays
<1> QED
  BY <1>2, <1>3, <1>4

(* A step of a routine that leaves the events alone.                       *)
LEMMA CalmKeeps ==
    ASSUME ConstantsAssumption, IInv, NEW t \in Threads, NEW D,
           Aside(t), PlaceFits(t), LockFits(t), TableFits(t, D),
           UNCHANGED <<cache, queue, draining, delivered, answered, refused, kept>>,
           sub' \in [Subs -> SubType],
           \A s \in Subs : /\ sub'[s].remote = sub[s].remote
                           /\ sub[s].local <= sub'[s].local
                           /\ sub'[s].answered <= sub'[s].local
    PROVE  IInv'
<1>0. /\ TypeOK /\ DataType /\ PlaceInv /\ LockInv /\ TableInv
      /\ cache \in Seq(Notes) /\ queue \in Seq(Notes)
  BY DEF IInv, TypeOK
<1>1. /\ Inner(t) /\ Moves(t) /\ gen' = gen /\ live' = live
      /\ subs' = subs \ D /\ tags' = tags \ D /\ ended' = ended \cup D
      /\ \A s \in D : s \in Subs
      /\ \A s \in Subs : sub'[s].run = sub[s].run
  BY DEF TableFits, Inner
<1>2. DataType'
  BY <1>0, <1>1 DEF DataType, Moves
<1>3. Grows
  <2>1. \A s \in Subs : sub[s].remote \in Nat
    BY <1>0 DEF DataType, SubType
  <2> QED
    BY <1>1, <1>2, <2>1 DEF Grows
<1>4. PlaceInv' /\ LockInv' /\ TableInv'
  BY <1>0, <1>1, PlaceStays, LockStays, TableStays
<1>5. HandInv' /\ CacheInv' /\ OrderInv' /\ DrainInv' /\ AnswerInv' /\ DrainLeft'
  BY <1>1, <1>3, AsideKeeps
<1>6. TypeOK'
  <2>1. recvLock' \in Threads \cup {None}
    BY <1>0 DEF LockFits, TypeOK
  <2>2. gen' \in 0..2 * MaxStarts /\ subs' \subseteq Subs /\ tags' \subseteq Subs
    BY <1>0, <1>1 DEF TypeOK
  <2>3. \A s \in Subs : sub'[s].remote <= MaxNotify
    BY <1>0 DEF TypeOK
  <2>4. Len(cache') <= CacheSize /\ draining' \in BOOLEAN
    BY <1>0 DEF TypeOK
  <2> QED
    BY <1>0, <1>4, <2>1, <2>2, <2>3, <2>4, TypesStay
<1> QED
  BY <1>2, <1>4, <1>5, <1>6 DEF IInv

(* The labels are told apart.                                              *)
LEMMA InThreads ==
    ASSUME IInv, NEW t \in Threads
    PROVE  /\ thread[t] \in ThreadType /\ thread \in [Threads -> ThreadType]
           /\ Placed(t) /\ gen \in Nat /\ Deque \in Nat
           /\ thread[t].at \in Labels /\ thread[t].deque <= Deque
           /\ thread[t].at \in LockLabels <=> recvLock = t
           /\ t \notin Apps => thread[t].at \notin AppLabels
           /\ t \in Apps /\ thread[t].at \notin RestLabels =>
                 thread[t].sub \in Subs /\ thread[t].goal # "none"
<1>1. /\ thread[t] \in ThreadType /\ thread \in [Threads -> ThreadType]
      /\ Placed(t) /\ gen \in Nat
      /\ thread[t].at \in LockLabels <=> recvLock = t
  BY DEF IInv, TypeOK, DataType, PlaceInv, LockInv
<1>2. Deque \in Nat
  BY <1>1, Generations
<1> QED
  BY <1>1, <1>2 DEF ThreadType, Placed

(* What every SIPSubscription object satisfies.                            *)
LEMMA InSubs ==
    ASSUME IInv
    PROVE  /\ sub \in [Subs -> SubType]
           /\ \A s \in Subs : /\ sub[s] \in SubType /\ sub[s].local \in Nat
                              /\ sub[s].remote \in Nat /\ sub[s].answered \in Nat
                              /\ sub[s].run \in Nat
                              /\ sub[s].answered <= sub[s].local
                              /\ sub[s].remote <= MaxNotify
  BY DEF IInv, TypeOK, DataType, SubType

(* A routine goes on, with nothing but its place and recvLock changed.     *)
LEMMA OnwardKeeps ==
    ASSUME ConstantsAssumption, IInv, NEW t \in Threads, Inner(t), Aside(t),
           PlaceFits(t), LockFits(t),
           {thread[t].at, thread'[t].at} \cap {"create", "clear"} = {},
           UNCHANGED <<gen, subs, tags, sub, cache, queue, draining, history>>
    PROVE  IInv'
<1>1. UNCHANGED <<delivered, answered, refused, kept, live, ended>>
  BY DEF history
<1>2. TableFits(t, {})
  BY <1>1 DEF TableFits
<1>3. \A s \in Subs : /\ sub'[s].remote = sub[s].remote
                      /\ sub[s].local <= sub'[s].local
                      /\ sub'[s].answered <= sub'[s].local
  BY InSubs
<1> QED
  BY <1>1, <1>2, <1>3, InSubs, CalmKeeps

(* The steps of a routine that leaves the events alone, by their labels.    *)
CalmFrom == {"transact", "ask", "wait", "answer", "release", "loop", "drain"}
CalmTo == {"ask", "wait", "release", "drain", "idle", "claim"}
CalmEdge(t) ==
    LET from == thread[t].at
        to == thread'[t].at
    IN  /\ from \in CalmFrom /\ to \in CalmTo
        /\ thread'[t].deque <= Deque
        /\ t \in Apps => from # "loop" /\ to # "idle"
        /\ t \notin Apps => to # "ask"
        /\ from = "loop" \/ to # "idle"
        /\ \/ recvLock' = recvLock /\ from \in LockLabels /\ to \in LockLabels
           \/ recvLock' = recvLock /\ from \notin LockLabels /\ to \notin LockLabels
           \/ recvLock = None /\ recvLock' = t /\ to \in LockLabels
           \/ recvLock' = None /\ from \in LockLabels /\ to \notin LockLabels

(* Such a step leaves the events aside and stays in its routine.           *)
LEMMA CalmEdges ==
    ASSUME IInv, NEW t \in Threads, Inner(t), CalmEdge(t)
    PROVE  /\ Aside(t) /\ PlaceFits(t) /\ LockFits(t)
           /\ {thread[t].at, thread'[t].at} \cap {"create", "clear"} = {}
<1>1. thread[t].at \in CalmFrom /\ thread'[t].at \in CalmTo
  BY DEF CalmEdge
<1>2. /\ thread[t].at \notin {"remember", "emit", "create", "clear", "idle"}
      /\ thread[t].at \notin DrainLabels
  BY <1>1 DEF CalmFrom, DrainLabels
<1>3. /\ thread'[t].at \notin {"create", "clear"} /\ thread'[t].at \notin HandLabels
      /\ thread'[t].at \notin DrainLabels
  BY <1>1 DEF CalmTo, HandLabels, DrainLabels
<1>4. thread[t].at \in LookLabels => thread'[t].at \in LookLabels
  <2>1. thread'[t].at # "idle" => thread'[t].at \in LookLabels
    BY <1>1 DEF CalmTo, LookLabels, LockLabels
  <2>2. "loop" \notin LookLabels
    BY DEF LookLabels, LockLabels, DrainLabels
  <2> QED
    BY <2>1, <2>2 DEF CalmEdge
<1>5. Aside(t)
  BY <1>2, <1>3, <1>4 DEF Aside, Inner
<1>6. LockFits(t)
  BY DEF CalmEdge, LockFits
<1>7. PlaceFits(t)
  <2>1. t \notin Apps => thread'[t].at \notin AppLabels
    BY <1>1 DEF CalmEdge, CalmTo, AppLabels
  <2>2. t \in Apps => thread[t].at \notin RestLabels /\ thread'[t].at \notin RestLabels
    BY <1>1, <1>2, <1>3 DEF CalmEdge, CalmFrom, CalmTo, RestLabels
  <2> QED
    BY <1>2, <2>1, <2>2 DEF PlaceFits, CalmEdge
<1> QED
  BY <1>2, <1>3, <1>5, <1>6, <1>7

(* Taking recvLock, giving it back, and waiting in vain.                   *)
LEMMA CalmStepKeeps ==
    ASSUME ConstantsAssumption, IInv, NEW t \in Threads,
           \/ Transact(t) \/ TimeOut(t) \/ Release(t) \/ Loop(t) \/ ReadNothing(t)
    PROVE  IInv'
<1>0. UNCHANGED <<gen, subs, tags, sub, cache, queue, draining, history>>
  BY DEF Transact, TimeOut, Release, Loop, ReadNothing
<1>1. {"ask", "drain", "release", "wait", "idle"} \subseteq Labels
  BY DEF Labels, LockLabels, RestLabels
<1>2. DataType /\ thread[t].deque <= Deque
  BY InThreads DEF IInv
<1>3. t \notin Apps => thread[t].at # "transact"
  BY InThreads DEF AppLabels
<1>4. t \in Apps => thread[t].at # "loop"
  BY InThreads DEF Placed
<1>5. {"ask", "release", "wait"} \subseteq LockLabels
      /\ {"transact", "drain", "loop", "idle"} \cap LockLabels = {}
  BY DEF LockLabels
<1>6. Inner(t) /\ CalmEdge(t)
  <2>1. CASE Transact(t)
    <3>1. thread[t].at = "transact"
      BY <2>1 DEF Transact, At
    <3>2. CASE Go(t, "ask") /\ recvLock = None /\ recvLock' = t
      <4>1. Inner(t) /\ thread'[t].at = "ask" /\ thread'[t].deque = thread[t].deque
        BY <1>1, <1>2, <3>2, GoMoves
      <4> QED
        BY <1>2, <1>3, <1>5, <3>1, <3>2, <4>1 DEF CalmEdge, CalmFrom, CalmTo
    <3>3. CASE End(t, "drain", "raise") /\ recvLock' = recvLock
      <4>1. Inner(t) /\ thread'[t].at = "drain" /\ thread'[t].deque = thread[t].deque
        BY <1>1, <1>2, <3>3, EndMoves
      <4> QED
        BY <1>2, <1>5, <3>1, <3>3, <4>1 DEF CalmEdge, CalmFrom, CalmTo
    <3> QED
      BY <2>1, <3>2, <3>3 DEF Transact
  <2>2. CASE TimeOut(t)
    <3>1. thread[t].at = "wait" /\ recvLock' = recvLock
      BY <2>2 DEF TimeOut, At
    <3>2. Inner(t) /\ thread'[t].at = "release" /\ thread'[t].deque = thread[t].deque
      BY <1>1, <1>2, <2>2, EndMoves DEF TimeOut, Raises
    <3> QED
      BY <1>2, <1>5, <3>1, <3>2 DEF CalmEdge, CalmFrom, CalmTo
  <2>3. CASE Release(t)
    <3>1. thread[t].at = "release" /\ recvLock' = None
      BY <2>3 DEF Release, At
    <3>2. Inner(t) /\ thread'[t].at = "drain" /\ thread'[t].deque = thread[t].deque
      BY <1>1, <1>2, <2>3, GoMoves DEF Release
    <3> QED
      BY <1>2, <1>5, <3>1, <3>2 DEF CalmEdge, CalmFrom, CalmTo
  <2>4. CASE Loop(t)
    <3>1. thread[t].at = "loop"
      BY <2>4 DEF Loop, At
    <3>2. CASE Go(t, "wait") /\ recvLock = None /\ recvLock' = t
      <4>1. Inner(t) /\ thread'[t].at = "wait" /\ thread'[t].deque = thread[t].deque
        BY <1>1, <1>2, <3>2, GoMoves
      <4> QED
        BY <1>2, <1>4, <1>5, <3>1, <3>2, <4>1 DEF CalmEdge, CalmFrom, CalmTo
    <3>3. CASE (Go(t, "idle") \/ Go(t, "drain")) /\ recvLock' = recvLock
      <4>1. /\ Inner(t) /\ thread'[t].deque = thread[t].deque
            /\ thread'[t].at \in {"idle", "drain"}
        BY <1>1, <1>2, <3>3, GoMoves
      <4> QED
        BY <1>2, <1>4, <1>5, <3>1, <3>3, <4>1 DEF CalmEdge, CalmFrom, CalmTo
    <3> QED
      BY <2>4, <3>2, <3>3 DEF Loop
  <2>5. CASE ReadNothing(t)
    <3>1. thread[t].at = "wait" /\ recvLock' = recvLock
      BY <2>5 DEF ReadNothing, At
    <3>2. Inner(t) /\ thread'[t].at = "release" /\ thread'[t].deque = thread[t].deque
      BY <1>1, <1>2, <2>5, GoMoves DEF ReadNothing
    <3> QED
      BY <1>2, <1>5, <3>1, <3>2 DEF CalmEdge, CalmFrom, CalmTo
  <2> QED
    BY <2>1, <2>2, <2>3, <2>4, <2>5
<1> QED
  BY <1>0, <1>6, CalmEdges, OnwardKeeps

(* A SUBSCRIBE is sent, with the next CSeq of its subscription.            *)
LEMMA AskKeeps ==
    ASSUME ConstantsAssumption, IInv, NEW t \in Threads, Ask(t)
    PROVE  IInv'
<1> DEFINE s == thread[t].sub
<1>1. /\ thread[t].at = "ask" /\ t \in Apps /\ s \in Subs
      /\ UNCHANGED <<gen, recvLock, subs, tags, cache, queue, draining, history>>
      /\ sub' = [sub EXCEPT ![s].local = @ + 1]
  BY InThreads DEF Ask, At, AppLabels, RestLabels
<1>2. {"wait", "release"} \subseteq Labels /\ {"ask", "wait", "release"} \subseteq LockLabels
  BY DEF Labels, LockLabels
<1>3. DataType /\ thread[t].deque <= Deque
  BY InThreads DEF IInv
<1>4. /\ Inner(t) /\ thread'[t].at \in {"wait", "release"}
      /\ thread'[t].deque = thread[t].deque
  <2>1. CASE Go(t, "wait")
    BY <1>2, <1>3, <2>1, GoMoves
  <2>2. CASE Raises(t)
    BY <1>1, <1>2, <1>3, <2>2, EndMoves DEF Raises
  <2> QED
    BY <2>1, <2>2 DEF Ask
<1>5. CalmEdge(t)
  BY <1>1, <1>2, <1>3, <1>4 DEF CalmEdge, CalmFrom, CalmTo
<1>6. /\ Aside(t) /\ PlaceFits(t) /\ LockFits(t)
      /\ {thread[t].at, thread'[t].at} \cap {"create", "clear"} = {}
  BY <1>4, <1>5, CalmEdges
<1>7. /\ sub' \in [Subs -> SubType]
      /\ \A r \in Subs : /\ sub'[r].remote = sub[r].remote /\ sub'[r].run = sub[r].run
                         /\ sub[r].local <= sub'[r].local
                         /\ sub'[r].answered <= sub'[r].local
                         /\ sub'[r].local = sub[r].local \/ r = s
  <2>1. sub \in [Subs -> SubType] /\ \A r \in Subs : sub[r].answered <= sub[r].local
    BY InSubs
  <2>2. sub[s] \in SubType /\ sub[s].local + 1 \in Nat
    BY <1>1, <2>1 DEF SubType
  <2> DEFINE o == [sub[s] EXCEPT !.local = sub[s].local + 1]
  <2>3. /\ o \in SubType /\ o.remote = sub[s].remote /\ o.run = sub[s].run
        /\ o.local = sub[s].local + 1 /\ o.answered = sub[s].answered
    BY <2>2 DEF SubType
  <2>4. sub' = [sub EXCEPT ![s] = o]
    BY <1>1
  <2>5. \A r \in Subs : sub[r].local \in Nat /\ sub[r].answered \in Nat
    BY InSubs
  <2> HIDE DEF o
  <2> QED
    BY <1>1, <2>1, <2>3, <2>4, <2>5
<1>8. TableFits(t, {})
  BY <1>1, <1>4, <1>6, <1>7 DEF TableFits, history
<1> QED
  BY <1>1, <1>6, <1>7, <1>8, CalmKeeps DEF history

(* A response to SUBSCRIBE is applied to its subscription.                 *)
LEMMA ApplyType ==
    ASSUME IInv, NEW s \in Subs, NEW code \in Codes, Apply(s, code)
    PROVE  /\ sub' \in [Subs -> SubType]
           /\ \A r \in Subs : /\ sub'[r].remote = sub[r].remote /\ sub'[r].run = sub[r].run
                              /\ sub'[r].local = sub[r].local
                              /\ sub'[r].answered <= sub'[r].local
<1>1. /\ sub \in [Subs -> SubType] /\ sub[s] \in SubType
      /\ \A r \in Subs : sub[r].answered <= sub[r].local /\ sub[r].local \in Nat
  BY InSubs
<1>2. Status(s, code) \in {"pending", "active", "cancelling", "terminated", "failed"}
  BY <1>1 DEF Status, SubType
<1> DEFINE o == [sub[s] EXCEPT !.answered = sub[s].local, !.status = Status(s, code)]
<1>3. /\ o \in SubType /\ o.remote = sub[s].remote /\ o.run = sub[s].run
      /\ o.local = sub[s].local /\ o.answered = sub[s].local
  BY <1>1, <1>2 DEF SubType
<1>4. sub' = [sub EXCEPT ![s] = o]
  BY DEF Apply
<1> HIDE DEF o
<1> QED
  BY <1>1, <1>3, <1>4

(* The response that a transaction waits for.                              *)
LEMMA AnsweredKeeps ==
    ASSUME ConstantsAssumption, IInv, NEW t \in Threads, NEW s \in Subs,
           NEW code \in Codes, ReadResponse(t, s, code),
           t \in Apps, thread[t].sub = s
    PROVE  IInv'
<1>1. /\ thread[t].at = "wait" /\ sub[s].local > 0
      /\ UNCHANGED <<gen, recvLock, cache, queue, draining, delivered, answered,
                     refused, kept, live>>
      /\ Answered(t, code)
  BY DEF ReadResponse, Reads, At, Matches
<1>2. {"ask", "release"} \subseteq Labels /\ {"ask", "wait", "release"} \subseteq LockLabels
  BY DEF Labels, LockLabels
<1>3. DataType /\ thread[t].deque <= Deque /\ thread[t] \in ThreadType
  BY InThreads DEF IInv
<1>4. /\ Inner(t) /\ thread'[t].at \in {"ask", "release"}
      /\ thread'[t].deque = thread[t].deque
  <2>1. CASE thread' = [thread EXCEPT ![t].at = "ask", ![t].tries = @ + 1]
    <3> DEFINE f == [thread[t] EXCEPT !.at = "ask", !.tries = thread[t].tries + 1]
    <3>0. thread[t].tries \in Nat /\ thread[t].tries + 1 \in Nat
      BY <1>3 DEF ThreadType
    <3>1. f \in ThreadType
      BY <1>2, <1>3, <3>0 DEF ThreadType
    <3>3. /\ f.at = "ask" /\ f.deque = thread[t].deque
          /\ f.g = thread[t].g /\ f.sub = thread[t].sub
          /\ f.goal = thread[t].goal /\ f.held = thread[t].held
      BY <1>3 DEF ThreadType
    <3>2. thread' = [thread EXCEPT ![t] = f]
      BY <2>1
    <3> HIDE DEF f
    <3> QED
      BY <1>3, <3>1, <3>2, <3>3 DEF Inner, Moves, DataType
  <2>2. ASSUME NEW r \in {"ok", "raise"}, End(t, "release", r)
        PROVE  /\ Inner(t) /\ thread'[t].at = "release"
               /\ thread'[t].deque = thread[t].deque
    BY <1>2, <1>3, <2>2, EndMoves
  <2> QED
    BY <1>1, <2>1, <2>2 DEF Answered
<1>5. CalmEdge(t)
  BY <1>1, <1>2, <1>3, <1>4 DEF CalmEdge, CalmFrom, CalmTo
<1>6. /\ Aside(t) /\ PlaceFits(t) /\ LockFits(t)
      /\ {thread[t].at, thread'[t].at} \cap {"create", "clear"} = {}
  BY <1>4, <1>5, CalmEdges
<1>7. /\ sub' \in [Subs -> SubType]
      /\ \A r \in Subs : /\ sub'[r].remote = sub[r].remote /\ sub'[r].run = sub[r].run
                         /\ sub'[r].local = sub[r].local
                         /\ sub'[r].answered <= sub'[r].local
  <2>1. sub' = sub \/ Apply(s, code)
    BY <1>1 DEF Answered
  <2> QED
    BY <2>1, InSubs, ApplyType
<1>8. \A r \in Subs : sub[r].local <= sub'[r].local
  BY <1>7, InSubs
<1>9. CASE UNCHANGED <<subs, tags, ended>>
  <2>1. TableFits(t, {})
    BY <1>1, <1>4, <1>6, <1>7, <1>9 DEF TableFits
  <2> QED
    BY <1>1, <1>6, <1>7, <1>8, <2>1, CalmKeeps
<1>10. CASE Discard(s) /\ ended' = ended \cup {s}
  <2>1. TableFits(t, {s})
    BY <1>1, <1>4, <1>6, <1>7, <1>10 DEF TableFits, Discard
  <2> QED
    BY <1>1, <1>6, <1>7, <1>8, <2>1, CalmKeeps
<1> QED
  BY <1>1, <1>9, <1>10 DEF Answered

----------------------------------------------------------------------------
(* Events *)

(* The holder of recvLock puts an event into the queue, later than every    *)
(* one that is on its way, and has nothing in hand any more.               *)
LEMMA EnqueueKeeps ==
    ASSUME IInv, NEW t \in Threads, NEW k \in Notes, Moves(t), Enqueue(k),
           thread[t].at \in LockLabels,
           thread'[t].at \in LockLabels, thread'[t].at \notin HandLabels,
           DataType',
           UNCHANGED <<gen, draining, delivered, cache, kept, refused, answered>>,
           subs' \subseteq subs,
           \A s \in Subs : /\ sub'[s].remote = sub[s].remote
                           /\ sub'[s].local = sub[s].local
                           /\ sub'[s].run = sub[s].run,
           Past(k), \A j \in Reported : Above(k, j), k.n > 0 => k \in answered,
           thread[t].at \in {"remember", "emit"} => thread[t].note = k
    PROVE  HandInv' /\ CacheInv' /\ OrderInv' /\ DrainInv' /\ AnswerInv' /\ DrainLeft'
<1>0. /\ DataType /\ TableInv /\ CacheInv /\ OrderInv /\ DrainInv
      /\ AnswerInv /\ DrainLeft /\ cache \in Seq(Notes) /\ queue \in Seq(Notes)
      /\ LockInv
  BY DEF IInv, TypeOK
<1>1. Grows
  <2>1. \A s \in Subs : sub[s].remote \in Nat /\ sub[s].local \in Nat
    BY InSubs
  <2> QED
    BY <2>1 DEF Grows
<1>2. \A j \in Notes : /\ Past(j)' <=> Past(j)
                       /\ Current(j)' <=> Current(j)
  BY DEF Past, Current, Notes
<1>3. /\ queue' = Append(queue, k) /\ Len(queue') = Len(queue) + 1
      /\ \A i \in 1..Len(queue') : \/ i \in 1..Len(queue) /\ queue'[i] = queue[i]
                                   \/ i = Len(queue) + 1 /\ queue'[i] = k
      /\ \A i \in 1..Len(queue) : i \in 1..Len(queue') /\ queue'[i] = queue[i]
      /\ Len(queue') \in 1..Len(queue') /\ queue'[Len(queue')] = k
      /\ Len(queue) \in Nat /\ queue' \in Seq(Notes)
  BY <1>0 DEF Enqueue
<1>4. \A u \in Threads :
         /\ thread'[u].at \in HandLabels \cup DrainLabels =>
               thread'[u] = thread[u] /\ u # t
         /\ thread[u].at \in DrainLabels => thread'[u] = thread[u]
  BY DEF Moves, LockLabels, DrainLabels
<1>5. \A j : j \in Reported' <=> j \in Reported \/ j = k
  <2> SUFFICES ASSUME NEW j PROVE j \in Reported' <=> j \in Reported \/ j = k
    OBVIOUS
  <2>1. (\E u \in Threads : At(u, "call") /\ thread[u].note = j)
           <=> \E u \in Threads : thread'[u].at = "call" /\ thread'[u].note = j
    BY <1>4 DEF At, DrainLabels
  <2>2. DOMAIN queue = 1..Len(queue) /\ DOMAIN queue' = 1..Len(queue')
    BY <1>0, <1>3
  <2>3. (\E i \in DOMAIN queue' : queue'[i] = j) <=>
           j = k \/ \E i \in DOMAIN queue : queue[i] = j
    BY <1>3, <2>2
  <2> QED
    BY <2>1, <2>3, Reporting, ReportingNext
<1>6. Reported \subseteq Notes
  <2>1. \A i \in DOMAIN delivered : delivered[i] \in Notes
    BY <1>0, ElementOfSeq DEF DataType
  <2>2. \A i \in DOMAIN queue : queue[i] \in Notes
    BY <1>0, ElementOfSeq
  <2>3. \A u \in Threads : At(u, "call") => thread[u].note \in Notes
    BY <1>0 DEF OrderInv
  <2> QED
    BY <2>1, <2>2, <2>3, Reporting
<1>7. OrderInv'
  <2>1. \A j \in Reported' : Past(j)'
    BY <1>0, <1>2, <1>5, <1>6 DEF OrderInv
  <2>2. \A i, j \in 1..Len(queue') : i < j => Above(queue'[j], queue'[i])
    <3> SUFFICES ASSUME NEW i \in 1..Len(queue'), NEW j \in 1..Len(queue'), i < j
                 PROVE  Above(queue'[j], queue'[i])
      OBVIOUS
    <3>1. i \in 1..Len(queue) /\ queue'[i] = queue[i]
      BY <1>3
    <3>2. queue[i] \in Reported
      BY <1>0, <3>1, Reporting
    <3>3. CASE j \in 1..Len(queue)
      BY <1>0, <1>3, <3>1, <3>3 DEF OrderInv
    <3>4. CASE queue'[j] = k
      BY <3>1, <3>2, <3>4
    <3> QED
      BY <1>3, <3>3, <3>4
  <2>3. \A i \in 1..Len(delivered), j \in 1..Len(queue') :
           Above(queue'[j], delivered[i])
    <3> SUFFICES ASSUME NEW i \in 1..Len(delivered), NEW j \in 1..Len(queue')
                 PROVE  Above(queue'[j], delivered[i])
      OBVIOUS
    <3>1. delivered[i] \in Reported
      BY <1>0, Reporting DEF DataType
    <3> QED
      BY <1>0, <1>3, <3>1 DEF OrderInv
  <2>4. ASSUME NEW u \in Threads, thread'[u].at = "call", NEW c, c = thread'[u].note
        PROVE  /\ c \in Notes
               /\ \A j \in 1..Len(queue') : Above(queue'[j], c)
               /\ Current(c)' => /\ thread'[u].deque = Deque'
                                 /\ \A i \in 1..Len(delivered) : Above(c, delivered[i])
    <3>1. At(u, "call") /\ c = thread[u].note /\ thread'[u] = thread[u]
      BY <1>4, <2>4 DEF At, DrainLabels
    <3>2. c \in Notes /\ c \in Reported
      BY <1>0, <3>1, Reporting DEF OrderInv
    <3>3. \A j \in 1..Len(queue') : Above(queue'[j], c)
      BY <1>0, <1>3, <3>1, <3>2 DEF OrderInv
    <3>4. Deque' = Deque
      BY DEF Deque
    <3> QED
      BY <1>0, <1>2, <3>1, <3>2, <3>3, <3>4 DEF OrderInv
  <2> QED
    BY <1>0, <2>1, <2>2, <2>3, <2>4 DEF OrderInv, At, Above
<1>8. HandInv'
  <2>1. \A u \in Threads : ~InHand(u)'
    BY <1>0, <1>4, OneHand DEF InHand, HandLabels
  <2> QED
    BY <2>1 DEF HandInv
<1>9. CacheInv'
  BY <1>0, <1>1, CacheStays
<1>10. DrainInv'
  <2>1. \A u \in Threads : Drains(u)' => Drains(u)
    BY <1>4 DEF Drains, Deque
  <2> QED
    BY <1>0, <2>1, DrainStays
<1>11. AnswerInv'
  <2>1. \A j \in Reported' : j.n > 0 => j \in answered'
    BY <1>0, <1>5 DEF AnswerInv
  <2>2. ASSUME NEW j \in answered
        PROVE  /\ sub'[j.sub].run > 0
               /\ Current(j)' => j \in Reported'
    <3>1. j \in Notes /\ sub'[j.sub].run = sub[j.sub].run
      BY <1>0 DEF DataType, Notes
    <3>2. sub[j.sub].run > 0
      BY <1>0 DEF AnswerInv
    <3>3. ASSUME Current(j) PROVE j \in Reported'
      <4>1. CASE j \in Reported
        BY <1>5, <4>1
      <4>2. CASE \E u \in Threads : thread[u].note = j
                                    /\ thread[u].at \in {"remember", "emit"}
        <5>1. PICK u \in Threads : thread[u].note = j
                                   /\ thread[u].at \in {"remember", "emit"}
          BY <4>2
        <5>2. u = t
          BY <1>0, <5>1, OneHand DEF InHand
        <5> QED
          BY <1>5, <5>1, <5>2
      <4> QED
        BY <1>0, <3>3, <4>1, <4>2 DEF AnswerInv
    <3> QED
      BY <1>2, <3>1, <3>2, <3>3
  <2> QED
    BY <2>1, <2>2 DEF AnswerInv, Current
<1>12. DrainLeft'
  <2>1. gen <= 1 /\ draining => \E u \in Threads : thread'[u].at \in DrainLabels
    BY <1>0, <1>4 DEF DrainLeft
  <2> QED
    BY <2>1 DEF DrainLeft
<1> QED
  BY <1>7, <1>8, <1>9, <1>10, <1>11, <1>12

(* The rest of the invariant under a step of thread t that drops D.        *)
LEMMA FrameKeeps ==
    ASSUME ConstantsAssumption, IInv, NEW t \in Threads, NEW D,
           PlaceFits(t), LockFits(t), TableFits(t, D),
           sub' \in [Subs -> SubType],
           \A s \in Subs : /\ sub'[s].answered <= sub'[s].local
                           /\ sub'[s].remote <= MaxNotify,
           cache' \in Seq(Notes), Len(cache') <= CacheSize,
           queue' \in Seq(Notes), draining' \in BOOLEAN,
           delivered' \in Seq(Notes), answered' \subseteq Notes,
           refused' \subseteq Notes, kept' \in Seq(Notes)
    PROVE  TypeOK' /\ DataType' /\ PlaceInv' /\ LockInv' /\ TableInv'
<1>0. TypeOK /\ DataType /\ PlaceInv /\ LockInv /\ TableInv
  BY DEF IInv
<1>1. /\ Inner(t) /\ Moves(t) /\ gen' = gen /\ live' = live
      /\ subs' = subs \ D /\ tags' = tags \ D /\ ended' = ended \cup D
      /\ \A s \in D : s \in Subs
  BY DEF TableFits, Inner
<1>2. DataType'
  BY <1>0, <1>1 DEF DataType, Moves
<1>3. PlaceInv' /\ LockInv' /\ TableInv'
  BY <1>0, <1>1, PlaceStays, LockStays, TableStays
<1>4. recvLock' \in Threads \cup {None}
  BY <1>0 DEF LockFits, TypeOK
<1>5. gen' \in 0..2 * MaxStarts /\ subs' \subseteq Subs /\ tags' \subseteq Subs
  BY <1>0, <1>1 DEF TypeOK
<1> QED
  BY <1>2, <1>3, <1>4, <1>5, TypesStay

(* A thread that holds recvLock goes on holding it.                        *)
LEMMA HolderGoesOn ==
    ASSUME IInv, NEW t \in Threads, Inner(t), thread[t].at \in LockLabels,
           thread'[t].at \in LockLabels \ {"ask"}, recvLock' = recvLock,
           thread'[t].deque = thread[t].deque
    PROVE  /\ PlaceFits(t) /\ LockFits(t)
           /\ {thread[t].at, thread'[t].at} \cap {"create", "clear"} = {}
<1>1. LockLabels \cap RestLabels = {} /\ (LockLabels \ {"ask"}) \cap AppLabels = {}
  BY DEF LockLabels, RestLabels, AppLabels
<1>2. "idle" \notin LockLabels /\ "create" \notin LockLabels /\ "clear" \notin LockLabels
  BY DEF LockLabels
<1>3. thread[t].deque <= Deque
  BY InThreads
<1> QED
  BY <1>1, <1>2, <1>3 DEF PlaceFits, LockFits

(* Handling a message ends, well or not.                                   *)
LEMMA HandledMoves ==
    ASSUME IInv, NEW t \in Threads, Handled(t) \/ Raises(t)
    PROVE  /\ Inner(t) /\ thread'[t].deque = thread[t].deque
           /\ thread'[t].at \in {"wait", "release"}
           /\ thread'[t].at \in LockLabels \ {"ask"}
<1>1. DataType /\ {"wait", "release"} \subseteq Labels
      /\ {"wait", "release"} \subseteq LockLabels \ {"ask"}
  BY DEF IInv, Labels, LockLabels
<1>2. CASE Handled(t)
  BY <1>1, <1>2, PutMoves DEF Handled
<1>3. CASE Raises(t)
  <2>1. PICK r \in {"none", "ok", "raise"} : End(t, "release", r)
    BY <1>3 DEF Raises
  <2> QED
    BY <1>1, <2>1, EndMoves
<1> QED
  BY <1>2, <1>3

(* A response that nobody waits for.                                       *)
LEMMA LateKeeps ==
    ASSUME ConstantsAssumption, IInv, NEW t \in Threads, NEW s \in Subs,
           NEW code \in Codes, ReadResponse(t, s, code),
           ~(t \in Apps /\ thread[t].sub = s)
    PROVE  IInv'
<1>1. /\ thread[t].at = "wait" /\ sub[s].local > 0
      /\ UNCHANGED <<gen, recvLock, cache, draining, delivered, answered,
                     refused, kept, live>>
      /\ Late(t, s, code) /\ Handled(t)
  BY DEF ReadResponse, Reads, At, Matches, Late
<1>2. /\ Inner(t) /\ Moves(t) /\ thread'[t].deque = thread[t].deque
      /\ thread'[t].at \in {"wait", "release"}
      /\ thread'[t].at \in LockLabels \ {"ask"}
  BY <1>1, HandledMoves DEF Inner
<1>3. thread[t].at \in LockLabels /\ thread[t].at \notin HandLabels \cup DrainLabels
      /\ thread'[t].at \notin HandLabels \cup DrainLabels
  BY <1>1, <1>2 DEF LockLabels, HandLabels, DrainLabels
<1>4. /\ PlaceFits(t) /\ LockFits(t)
      /\ {thread[t].at, thread'[t].at} \cap {"create", "clear"} = {}
  BY <1>1, <1>2, <1>3, HolderGoesOn
<1>5. CASE s \notin subs
  <2>1. UNCHANGED <<subs, tags, sub, queue, ended>>
    BY <1>1, <1>5 DEF Late
  <2>2. Aside(t)
    BY <1>2, <1>3 DEF Aside, HandLabels, LookLabels
  <2>3. history' = history
    BY <1>1, <2>1 DEF history
  <2> QED
    BY <1>1, <1>2, <1>4, <2>1, <2>2, <2>3, OnwardKeeps
<1>6. CASE s \in subs
  <2> DEFINE k == Note(s, 0)
  <2>1. /\ Apply(s, code) /\ Enqueue(k)
        /\ \/ Discard(s) /\ ended' = ended \cup {s}
           \/ UNCHANGED <<subs, tags, ended>>
    BY <1>1, <1>6 DEF Late
  <2>2. k \in Notes /\ k.n = 0 /\ k.sub = s
    BY DEF Notes, Note, ConstantsAssumption
  <2>3. /\ sub' \in [Subs -> SubType]
        /\ \A r \in Subs : /\ sub'[r].remote = sub[r].remote /\ sub'[r].run = sub[r].run
                           /\ sub'[r].local = sub[r].local
                           /\ sub'[r].answered <= sub'[r].local
                           /\ sub'[r].remote <= MaxNotify
    BY <2>1, ApplyType, InSubs
  <2>4. \E D : TableFits(t, D)
    <3>1. CASE UNCHANGED <<subs, tags, ended>>
      <4>1. TableFits(t, {})
        BY <1>1, <1>2, <1>4, <2>3, <3>1 DEF TableFits
      <4> QED
        BY <4>1
    <3>2. CASE Discard(s) /\ ended' = ended \cup {s}
      <4>1. TableFits(t, {s})
        BY <1>1, <1>2, <1>4, <2>3, <3>2 DEF TableFits, Discard
      <4> QED
        BY <4>1
    <3> QED
      BY <2>1, <3>1, <3>2
  <2>5. PICK D : TableFits(t, D)
    BY <2>4
  <2>6. /\ DataType /\ TypeOK /\ queue' \in Seq(Notes) /\ subs' \subseteq subs
        /\ cache \in Seq(Notes) /\ Len(cache) <= CacheSize /\ draining \in BOOLEAN
    BY <2>1, <2>2, <2>5 DEF IInv, TypeOK, Enqueue, TableFits
  <2>7. TypeOK' /\ DataType' /\ PlaceInv' /\ LockInv' /\ TableInv'
    <3>1. /\ delivered' \in Seq(Notes) /\ answered' \subseteq Notes
          /\ refused' \subseteq Notes /\ kept' \in Seq(Notes)
          /\ cache' \in Seq(Notes) /\ Len(cache') <= CacheSize
          /\ draining' \in BOOLEAN
      BY <1>1, <2>6 DEF DataType
    <3> QED
      BY <1>4, <2>3, <2>5, <2>6, <3>1, FrameKeeps
  <2>8. Past(k) /\ \A j \in Reported : Above(k, j)
    <3>1. sub[s].remote \in Nat
      BY InSubs
    <3> QED
      BY <1>1, <2>2, <3>1 DEF Past, Above
  <2>9. HandInv' /\ CacheInv' /\ OrderInv' /\ DrainInv' /\ AnswerInv' /\ DrainLeft'
    <3>1. thread[t].at \notin {"remember", "emit"}
      BY <1>1
    <3> HIDE DEF k
    <3> QED
      BY <1>1, <1>2, <1>3, <2>1, <2>2, <2>3, <2>6, <2>7, <2>8, <3>1, EnqueueKeeps
  <2> QED
    BY <2>7, <2>9 DEF IInv
<1> QED
  BY <1>5, <1>6

(* The event of a NOTIFY is queued; a terminal one drops its subscription. *)
LEMMA EmitKeeps ==
    ASSUME ConstantsAssumption, IInv, NEW t \in Threads, Emit(t)
    PROVE  IInv'
<1> DEFINE k == thread[t].note
<1>1. /\ thread[t].at = "emit" /\ Handled(t) /\ Enqueue(k)
      /\ \/ Discard(k.sub) /\ ended' = ended \cup {k.sub}
         \/ UNCHANGED <<subs, tags, ended>>
      /\ UNCHANGED <<gen, recvLock, sub, cache, draining, reads, delivered,
                     answered, refused, kept, live>>
  BY DEF Emit, At
<1>2. /\ Inner(t) /\ Moves(t) /\ thread'[t].deque = thread[t].deque
      /\ thread'[t].at \in {"wait", "release"}
      /\ thread'[t].at \in LockLabels \ {"ask"}
  BY <1>1, HandledMoves DEF Inner
<1>3. thread[t].at \in LockLabels /\ thread'[t].at \notin HandLabels
  BY <1>1, <1>2 DEF LockLabels, HandLabels
<1>4. /\ PlaceFits(t) /\ LockFits(t)
      /\ {thread[t].at, thread'[t].at} \cap {"create", "clear"} = {}
  BY <1>1, <1>2, <1>3, HolderGoesOn
<1>5. /\ k \in Notes /\ sub[k.sub].local > 0 /\ k.n <= sub[k.sub].remote
      /\ k \in answered /\ \A j \in Reported : Above(k, j)
  <2>1. InHand(t) /\ HandInv
    BY <1>1 DEF InHand, IInv
  <2> QED
    BY <1>1, <2>1 DEF HandInv, At
<1>6. \E D : TableFits(t, D)
  <2>1. k.sub \in Subs
    BY <1>5 DEF Notes
  <2>2. CASE UNCHANGED <<subs, tags, ended>>
    <3>1. TableFits(t, {})
      BY <1>1, <1>2, <1>4, <2>2 DEF TableFits
    <3> QED
      BY <3>1
  <2>3. CASE Discard(k.sub) /\ ended' = ended \cup {k.sub}
    <3>1. TableFits(t, {k.sub})
      BY <1>1, <1>2, <1>4, <1>5, <2>1, <2>3 DEF TableFits, Discard
    <3> QED
      BY <3>1
  <2> QED
    BY <1>1, <2>2, <2>3
<1>7. PICK D : TableFits(t, D)
  BY <1>6
<1>8. /\ DataType /\ TypeOK /\ queue' \in Seq(Notes) /\ subs' \subseteq subs
      /\ cache' \in Seq(Notes) /\ Len(cache') <= CacheSize /\ draining' \in BOOLEAN
  BY <1>1, <1>5, <1>7 DEF IInv, TypeOK, Enqueue, TableFits
<1>9. TypeOK' /\ DataType' /\ PlaceInv' /\ LockInv' /\ TableInv'
  <2>1. /\ delivered' \in Seq(Notes) /\ answered' \subseteq Notes
        /\ refused' \subseteq Notes /\ kept' \in Seq(Notes)
    BY <1>1, <1>8 DEF DataType
  <2>2. sub' \in [Subs -> SubType]
        /\ \A s \in Subs : /\ sub'[s].answered <= sub'[s].local
                           /\ sub'[s].remote <= MaxNotify
    BY <1>1, InSubs
  <2> QED
    BY <1>4, <1>7, <1>8, <2>1, <2>2, FrameKeeps
<1>10. HandInv' /\ CacheInv' /\ OrderInv' /\ DrainInv' /\ AnswerInv' /\ DrainLeft'
  <2>1. Past(k) /\ k.sub \in Subs
    BY <1>5 DEF Past, Notes
  <2>2. \A s \in Subs : /\ sub'[s].remote = sub[s].remote
                        /\ sub'[s].local = sub[s].local
                        /\ sub'[s].run = sub[s].run
    BY <1>1
  <2>3. thread[t].note = k
    OBVIOUS
  <2> HIDE DEF k
  <2> QED
    BY <1>1, <1>2, <1>3, <1>5, <1>8, <1>9, <2>1, <2>2, <2>3, EnqueueKeeps
<1> QED
  BY <1>9, <1>10 DEF IInv

(* The thread that owns recvLock is the only one with a NOTIFY in hand.    *)
LEMMA OnlyHand ==
    ASSUME LockInv, NEW t \in Threads, Moves(t), thread[t].at \in LockLabels,
           NEW e, e = thread'[t].note,
           thread'[t].at \in HandLabels =>
               /\ e \in Notes /\ e.n > 0 /\ sub'[e.sub].local > 0
               /\ thread'[t].at # "emit" => e.n > sub'[e.sub].remote /\ e \notin refused'
               /\ thread'[t].at = "emit" => /\ e.n <= sub'[e.sub].remote
                                            /\ \A k \in Reported' : Above(e, k)
               /\ thread'[t].at # "answer" => e \in answered'
    PROVE  HandInv'
<1> SUFFICES ASSUME NEW u \in Threads, InHand(u)', NEW d, d = thread'[u].note
             PROVE  /\ d \in Notes /\ d.n > 0 /\ sub'[d.sub].local > 0
                    /\ ~At(u, "emit")' => d.n > sub'[d.sub].remote /\ d \notin refused'
                    /\ At(u, "emit")' => /\ d.n <= sub'[d.sub].remote
                                         /\ \A k \in Reported' : Above(d, k)
                    /\ ~At(u, "answer")' => d \in answered'
  BY DEF HandInv, Above
<1>1. thread'[u].at \in HandLabels
  BY DEF InHand, HandLabels
<1>2. u = t
  BY <1>1, OneHand DEF Moves, InHand, HandLabels
<1> QED
  BY <1>1, <1>2 DEF At

(* A NOTIFY is read: accepted, or refused, or answered from the cache.     *)
LEMMA ReadNotifyKeeps ==
    ASSUME ConstantsAssumption, IInv, NEW t \in Threads, NEW s \in Subs,
           NEW n \in 1..MaxNotify, ReadNotify(t, s, n)
    PROVE  IInv'
<1> DEFINE k == Note(s, n)
<1>0. /\ k \in Notes /\ k.sub = s /\ k.n = n /\ n > 0 /\ n \in Nat
      /\ sub[s].local > 0 /\ thread[t].at = "wait"
      /\ UNCHANGED <<gen, recvLock, subs, tags, cache, queue, draining, delivered,
                     answered, kept, live, ended>>
  BY DEF ConstantsAssumption, Notes, Note, ReadNotify, Reads, At
<1>1. /\ DataType /\ TypeOK /\ LockInv /\ CacheInv
      /\ cache \in Seq(Notes) /\ Len(cache) <= CacheSize
      /\ queue \in Seq(Notes) /\ draining \in BOOLEAN
      /\ thread[t].at \in LockLabels
  BY <1>0 DEF IInv, TypeOK, LockLabels
<1> DEFINE Accepts == /\ s \in subs /\ n > sub[s].remote
                      /\ sub' = [sub EXCEPT ![s].state = StateOf(n),
                                            ![s].status = StateOf(n)]
                      /\ thread' = [thread EXCEPT ![t].at = "answer", ![t].note = k]
                      /\ refused' = refused
           Refuses == /\ k \in ToSet(cache) \/ s \notin subs \/ n <= sub[s].remote
                      /\ Handled(t) \/ Raises(t)
                      /\ \/ refused' = refused
                         \/ k \notin ToSet(cache) /\ refused' = refused \cup {k}
                      /\ sub' = sub
<1>2. Accepts \/ Refuses
  BY DEF ReadNotify
<1>3. /\ Inner(t) /\ thread'[t].deque = thread[t].deque
      /\ thread'[t].at \in LockLabels \ {"ask"}
      /\ thread'[t].at \in {"answer", "wait", "release"}
      /\ thread'[t].at = "answer" => Accepts /\ thread'[t].note = k
  <2>1. CASE Accepts
    <3> DEFINE f == [thread[t] EXCEPT !.at = "answer", !.note = k]
    <3>1. thread[t] \in ThreadType /\ "answer" \in Labels
      BY InThreads DEF Labels, LockLabels
    <3>2. /\ f \in ThreadType /\ f.at = "answer" /\ f.note = k
          /\ f.deque = thread[t].deque /\ f.g = thread[t].g /\ f.sub = thread[t].sub
          /\ f.goal = thread[t].goal /\ f.held = thread[t].held
      BY <1>0, <3>1 DEF ThreadType
    <3>3. thread' = [thread EXCEPT ![t] = f]
      BY <2>1
    <3>4. "answer" \in LockLabels \ {"ask"}
      BY DEF LockLabels
    <3> HIDE DEF f, Accepts, Refuses, k
    <3>5. /\ Inner(t) /\ thread'[t].deque = thread[t].deque
          /\ thread'[t].at = "answer" /\ thread'[t].note = k
      BY <1>1, <3>2, <3>3 DEF Inner, Moves, DataType
    <3> QED
      BY <2>1, <3>4, <3>5
  <2>2. CASE Refuses
    <3>1. /\ Inner(t) /\ thread'[t].deque = thread[t].deque
          /\ thread'[t].at \in {"wait", "release"}
          /\ thread'[t].at \in LockLabels \ {"ask"}
      BY <2>2, HandledMoves
    <3> QED
      BY <3>1
  <2> QED
    BY <1>2, <2>1, <2>2
<1>4. /\ PlaceFits(t) /\ LockFits(t)
      /\ {thread[t].at, thread'[t].at} \cap {"create", "clear"} = {}
  BY <1>0, <1>1, <1>3, HolderGoesOn
<1>5. /\ sub' \in [Subs -> SubType]
      /\ \A r \in Subs : /\ sub'[r].remote = sub[r].remote /\ sub'[r].run = sub[r].run
                         /\ sub'[r].local = sub[r].local
                         /\ sub'[r].answered <= sub'[r].local
                         /\ sub'[r].remote <= MaxNotify
  <2>1. CASE Accepts
    <3> DEFINE o == [sub[s] EXCEPT !.state = StateOf(n), !.status = StateOf(n)]
    <3>1. /\ o \in SubType /\ o.remote = sub[s].remote /\ o.run = sub[s].run
          /\ o.local = sub[s].local /\ o.answered = sub[s].answered
      BY InSubs DEF SubType, StateOf
    <3>2. sub' = [sub EXCEPT ![s] = o]
      BY <2>1
    <3> HIDE DEF o
    <3> QED
      BY InSubs, <3>1, <3>2
  <2>2. CASE Refuses
    BY <2>2, InSubs
  <2> QED
    BY <1>2, <2>1, <2>2
<1>6. /\ refused' \subseteq refused \cup {k} /\ refused' \subseteq Notes
      /\ k \in refused' \ refused =>
            k \notin ToSet(cache) /\ (s \notin subs \/ n <= sub[s].remote)
  BY <1>0, <1>1, <1>2 DEF DataType
<1> HIDE DEF k, Refuses
<1>7. TableFits(t, {})
  BY <1>0, <1>3, <1>4, <1>5 DEF TableFits
<1>8. TypeOK' /\ DataType' /\ PlaceInv' /\ LockInv' /\ TableInv'
  <2>1. /\ delivered' \in Seq(Notes) /\ answered' \subseteq Notes
        /\ kept' \in Seq(Notes) /\ cache' \in Seq(Notes) /\ Len(cache') <= CacheSize
        /\ queue' \in Seq(Notes) /\ draining' \in BOOLEAN
    BY <1>0, <1>1 DEF DataType
  <2> QED
    BY <1>4, <1>5, <1>6, <1>7, <2>1, FrameKeeps
<1>9. Grows
  BY <1>5, <1>8, InSubs DEF Grows
<1>10. Away(t)
  BY <1>0, <1>3 DEF Away, Inner, DrainLabels, LockLabels, LookLabels
<1>11. OrderInv' /\ DrainInv' /\ DrainLeft' /\ AnswerInv'
  BY <1>0, <1>9, <1>10, AwayKeeps
<1>12. HandInv'
  <2>1. Accepts => k \notin refused'
    BY <1>0, <1>1, InSubs DEF CacheInv
  <2>2. Moves(t)
    BY <1>3 DEF Inner
  <2>3. thread'[t].at \in HandLabels => thread'[t].at = "answer"
    BY <1>3 DEF HandLabels
  <2>4. Accepts => n > sub'[s].remote /\ sub'[s].local > 0
    BY <1>0, <1>5
  <2> HIDE DEF Accepts
  <2> QED
    BY <1>0, <1>1, <1>3, <2>1, <2>2, <2>3, <2>4, OnlyHand
<1>13. CacheInv'
  <2>1. \A i \in 1..Len(cache) : cache[i] \in Notes /\ cache[i] \in ToSet(cache)
    BY <1>1 DEF ToSet
  <2>2. \A i \in 1..Len(cache) : Past(cache[i])' /\ cache[i] \notin refused'
    <3> SUFFICES ASSUME NEW i \in 1..Len(cache), NEW c, c = cache[i]
                 PROVE  Past(c)' /\ c \notin refused'
      BY <1>0 DEF Past
    <3>1. c \in Notes /\ c \in ToSet(cache) /\ Past(c) /\ c \notin refused
      BY <1>1, <2>1 DEF CacheInv
    <3> QED
      BY <1>1, <1>6, <1>9, <3>1, PastGrows
  <2>3. \A j \in refused : /\ sub'[j.sub].local > 0
                           /\ j.sub \notin subs' \/ j.n <= sub'[j.sub].remote
    BY <1>0, <1>1, <1>9, RefusedStays
  <2>4. \A j \in refused' : /\ sub'[j.sub].local > 0
                            /\ j.sub \notin subs' \/ j.n <= sub'[j.sub].remote
    BY <1>0, <1>5, <1>6, <2>3
  <2> QED
    BY <1>0, <1>1, <2>2, <2>4 DEF CacheInv, Past
<1> QED
  BY <1>8, <1>11, <1>12, <1>13 DEF IInv

(* A NOTIFY is answered with 200, or the answer cannot be sent.            *)
LEMMA AnswerKeeps ==
    ASSUME ConstantsAssumption, IInv, NEW t \in Threads, Answer(t)
    PROVE  IInv'
<1> DEFINE k == thread[t].note
<1>1. /\ thread[t].at = "answer"
      /\ UNCHANGED <<gen, recvLock, subs, tags, sub, cache, queue, draining,
                     delivered, refused, kept, live, ended>>
  BY DEF Answer, At
<1>2. /\ DataType /\ TypeOK /\ LockInv /\ HandInv /\ CacheInv /\ TableInv /\ AnswerInv
      /\ cache \in Seq(Notes) /\ Len(cache) <= CacheSize
      /\ queue \in Seq(Notes) /\ draining \in BOOLEAN
      /\ thread[t].at \in LockLabels
  BY <1>1 DEF IInv, TypeOK, LockLabels
<1>3. CASE Raises(t) /\ answered' = answered
  <2>1. /\ Inner(t) /\ Moves(t) /\ thread'[t].deque = thread[t].deque
        /\ thread'[t].at \in {"wait", "release"}
        /\ thread'[t].at \in LockLabels \ {"ask"}
    BY <1>3, HandledMoves DEF Inner
  <2>2. /\ PlaceFits(t) /\ LockFits(t)
        /\ {thread[t].at, thread'[t].at} \cap {"create", "clear"} = {}
    BY <1>1, <1>2, <2>1, HolderGoesOn
  <2>3. Aside(t)
    BY <1>1, <2>1 DEF Aside, HandLabels, DrainLabels, LookLabels
  <2>4. history' = history
    BY <1>1, <1>3 DEF history
  <2> QED
    BY <1>1, <2>1, <2>2, <2>3, <2>4, OnwardKeeps
<1>4. CASE Go(t, "remember") /\ answered' = answered \cup {k}
  <2>1. "remember" \in Labels /\ "remember" \in LockLabels \ {"ask"}
    BY DEF Labels, LockLabels
  <2>2. /\ Inner(t) /\ Moves(t) /\ thread'[t].deque = thread[t].deque
        /\ thread'[t].at = "remember" /\ thread'[t].note = k
    BY <1>2, <1>4, <2>1, GoMoves DEF Inner
  <2>3. /\ PlaceFits(t) /\ LockFits(t)
        /\ {thread[t].at, thread'[t].at} \cap {"create", "clear"} = {}
    BY <1>1, <1>2, <2>1, <2>2, HolderGoesOn
  <2>4. /\ k \in Notes /\ k.n > 0 /\ sub[k.sub].local > 0
        /\ k.n > sub[k.sub].remote /\ k \notin refused /\ k.sub \in Subs
    BY <1>1, <1>2 DEF HandInv, InHand, At, Notes
  <2> HIDE DEF k
  <2>5. TableFits(t, {})
    BY <1>1, <2>2, <2>3 DEF TableFits
  <2>6. TypeOK' /\ DataType' /\ PlaceInv' /\ LockInv' /\ TableInv'
    <3>1. /\ delivered' \in Seq(Notes) /\ answered' \subseteq Notes
          /\ refused' \subseteq Notes /\ kept' \in Seq(Notes)
          /\ cache' \in Seq(Notes) /\ Len(cache') <= CacheSize
          /\ queue' \in Seq(Notes) /\ draining' \in BOOLEAN
      BY <1>1, <1>2, <1>4, <2>4 DEF DataType
    <3>2. /\ sub' \in [Subs -> SubType]
          /\ \A s \in Subs : /\ sub'[s].answered <= sub'[s].local
                             /\ sub'[s].remote <= MaxNotify
      BY <1>1, InSubs
    <3> QED
      BY <2>3, <2>5, <3>1, <3>2, FrameKeeps
  <2>7. Grows
    BY <1>1, <2>6, InSubs DEF Grows
  <2>8. Away(t)
    BY <1>1, <2>2 DEF Away, DrainLabels, LockLabels, LookLabels
  <2>9. /\ OrderInv' /\ DrainInv' /\ DrainLeft'
        /\ Reported' \subseteq Reported /\ Reported \subseteq Reported'
    BY <1>1, <2>7, <2>8, AwayKeeps
  <2>10. HandInv'
    BY <1>1, <1>2, <1>4, <2>2, <2>4, OnlyHand
  <2>11. CacheInv'
    BY <1>1, <1>2, <2>7, CacheStays
  <2>12. AnswerInv'
    <3>1. \A j \in Reported' : j.n > 0 => j \in answered'
      BY <1>2, <1>4, <2>9 DEF AnswerInv
    <3>2. ASSUME NEW j \in answered'
          PROVE  /\ sub'[j.sub].run > 0
                 /\ Current(j)' =>
                       \/ j \in Reported'
                       \/ \E u \in Threads : /\ thread'[u].note = j
                                             /\ thread'[u].at \in {"remember", "emit"}
      <4>1. CASE j = k
        <5>1. sub[k.sub].run > 0
          BY <1>2, <2>4, PastRun
        <5> QED
          BY <1>1, <2>2, <4>1, <5>1
      <4>2. CASE j \in answered
        <5>1. /\ sub[j.sub].run > 0
              /\ Current(j) =>
                    \/ j \in Reported
                    \/ \E u \in Threads : /\ thread[u].note = j
                                          /\ thread[u].at \in {"remember", "emit"}
          BY <1>2, <4>2 DEF AnswerInv
        <5>2. \A u \in Threads : thread[u].at \in {"remember", "emit"} =>
                 thread'[u] = thread[u]
          BY <1>1, <2>2 DEF Moves
        <5> QED
          BY <1>1, <2>9, <5>1, <5>2 DEF Current
      <4> QED
        BY <1>4, <3>2, <4>1, <4>2
    <3> QED
      BY <3>1, <3>2 DEF AnswerInv, Current
  <2> QED
    BY <2>6, <2>9, <2>10, <2>11, <2>12 DEF IInv
<1> QED
  BY <1>3, <1>4 DEF Answer

(* The sequence c is the end of q: it stays so when both get an entry, and  *)
(* when c loses its first one.                                             *)
EndOf(c, q) ==
    /\ Len(c) <= Len(q)
    /\ \A i \in 1..Len(c) : c[i] = q[Len(q) - Len(c) + i]

(* Both get an entry.                                                      *)
LEMMA AppendEndOf ==
    ASSUME NEW k \in Notes, NEW c \in Seq(Notes), NEW q \in Seq(Notes), EndOf(c, q)
    PROVE  EndOf(Append(c, k), Append(q, k))
<1>1. PICK m \in Nat, l \in Nat : m = Len(c) /\ l = Len(q)
  OBVIOUS
<1>2. m <= l /\ \A i \in 1..m : c[i] = q[l - m + i]
  BY <1>1 DEF EndOf
<1>0. PICK a, b : a = Append(c, k) /\ b = Append(q, k)
  OBVIOUS
<1>3. /\ Len(a) = m + 1 /\ a[m + 1] = k
      /\ \A i \in 1..m : a[i] = c[i]
  BY <1>0, <1>1
<1>4. /\ Len(b) = l + 1 /\ b[l + 1] = k
      /\ \A i \in 1..l : b[i] = q[i]
  BY <1>0, <1>1
<1>5. ASSUME NEW i \in 1..(m + 1)
      PROVE  a[i] = b[l + 1 - (m + 1) + i]
  <2>1. CASE i = m + 1
    <3>1. l + 1 - (m + 1) + i = l + 1
      BY <2>1
    <3> QED
      BY <1>3, <1>4, <2>1, <3>1
  <2>2. CASE i \in 1..m
    <3>1. l + 1 - (m + 1) + i = l - m + i /\ l - m + i \in 1..l
      BY <1>2, <2>2
    <3> QED
      BY <1>2, <1>3, <1>4, <2>2, <3>1
  <2>3. i = m + 1 \/ i \in 1..m
    OBVIOUS
  <2> QED
    BY <2>1, <2>2, <2>3
<1>6. m + 1 <= l + 1
  BY <1>2
<1>7. EndOf(a, b)
  BY <1>3, <1>4, <1>5, <1>6 DEF EndOf
<1> QED
  BY <1>0, <1>7

(* The end loses its first entry.                                          *)
LEMMA TailEndOf ==
    ASSUME NEW c \in Seq(Notes), NEW q \in Seq(Notes), EndOf(c, q), Len(c) > 0
    PROVE  EndOf(Tail(c), q)
<1>1. PICK m \in Nat, l \in Nat : m = Len(c) /\ l = Len(q) /\ m > 0
  OBVIOUS
<1>2. m <= l /\ \A i \in 1..m : c[i] = q[l - m + i]
  BY <1>1 DEF EndOf
<1>3. Len(Tail(c)) = m - 1 /\ \A i \in 1..(m - 1) : Tail(c)[i] = c[i + 1]
  BY <1>1
<1>4. ASSUME NEW i \in 1..(m - 1) PROVE Tail(c)[i] = q[l - (m - 1) + i]
  <2>1. i + 1 \in 1..m /\ l - m + (i + 1) = l - (m - 1) + i
    BY <1>1
  <2> QED
    BY <1>2, <1>3, <2>1
<1>5. m - 1 <= l
  BY <1>2
<1> QED
  BY <1>1, <1>3, <1>4, <1>5 DEF EndOf

(* A NOTIFY that was answered is remembered.                               *)
LEMMA RememberKeeps ==
    ASSUME ConstantsAssumption, IInv, NEW t \in Threads, Remember(t)
    PROVE  IInv'
<1> DEFINE k == thread[t].note
           all == IF k \in ToSet(cache) THEN cache ELSE Append(cache, k)
<1>1. /\ thread[t].at = "remember" /\ Go(t, "emit")
      /\ sub' = [sub EXCEPT ![k.sub].remote = k.n]
      /\ cache' = (IF Len(all) > CacheSize THEN Tail(all) ELSE all)
      /\ kept' = Append(kept, k)
      /\ UNCHANGED <<gen, recvLock, subs, tags, queue, draining,
                     delivered, answered, refused, live, ended>>
  BY DEF Remember, At
<1>2. /\ DataType /\ TypeOK /\ LockInv /\ HandInv /\ CacheInv /\ OrderInv
      /\ cache \in Seq(Notes) /\ Len(cache) <= CacheSize
      /\ queue \in Seq(Notes) /\ draining \in BOOLEAN
      /\ thread[t].at \in LockLabels
  BY <1>1 DEF IInv, TypeOK, LockLabels
<1>3. "emit" \in Labels /\ "emit" \in LockLabels \ {"ask"}
  BY DEF Labels, LockLabels
<1>4. /\ Inner(t) /\ Moves(t) /\ thread'[t].deque = thread[t].deque
      /\ thread'[t].at = "emit" /\ thread'[t].note = k
  BY <1>1, <1>2, <1>3, GoMoves DEF Inner
<1>5. /\ PlaceFits(t) /\ LockFits(t)
      /\ {thread[t].at, thread'[t].at} \cap {"create", "clear"} = {}
  BY <1>1, <1>2, <1>3, <1>4, HolderGoesOn
<1>6. /\ k \in Notes /\ k.n > 0 /\ sub[k.sub].local > 0 /\ k.sub \in Subs
      /\ k.n > sub[k.sub].remote /\ k \notin refused /\ k \in answered
      /\ k.n \in 0..MaxNotify
  BY <1>1, <1>2 DEF HandInv, InHand, At, Notes
<1> HIDE DEF k
<1>7. k \notin ToSet(cache)
  <2> SUFFICES ASSUME NEW i \in 1..Len(cache), cache[i] = k PROVE FALSE
    BY <1>2 DEF ToSet
  <2>1. Past(k)
    BY <1>2 DEF CacheInv
  <2> QED
    BY <1>6, <2>1, InSubs DEF Past
<1>8. all = Append(cache, k)
  BY <1>7
<1> HIDE DEF all
<1>9. /\ sub' \in [Subs -> SubType]
      /\ \A s \in Subs : /\ sub'[s].run = sub[s].run /\ sub'[s].local = sub[s].local
                         /\ sub'[s].answered <= sub'[s].local
                         /\ sub[s].remote <= sub'[s].remote
                         /\ sub'[s].remote <= MaxNotify
      /\ sub'[k.sub].remote = k.n
  <2> DEFINE o == [sub[k.sub] EXCEPT !.remote = k.n]
  <2>1. k.n \in Nat /\ k.n <= MaxNotify /\ sub[k.sub].remote \in Nat
    BY <1>6, InSubs DEF ConstantsAssumption
  <2>2. /\ o \in SubType /\ o.remote = k.n /\ o.run = sub[k.sub].run
        /\ o.local = sub[k.sub].local /\ o.answered = sub[k.sub].answered
    BY <1>6, <2>1, InSubs DEF SubType
  <2>3. sub' = [sub EXCEPT ![k.sub] = o]
    BY <1>1
  <2> HIDE DEF o
  <2> QED
    BY <1>6, <2>1, <2>2, <2>3, InSubs
<1>10. /\ cache' \in Seq(Notes) /\ Len(cache') <= CacheSize
       /\ EndOf(cache', kept')
       /\ Len(cache') = CacheSize \/ Len(cache') = Len(kept')
       /\ \A i \in 1..Len(cache') :
             cache'[i] = k \/ \E j \in 1..Len(cache) : cache'[i] = cache[j]
  <2>1. CacheSize \in Nat /\ kept \in Seq(Notes) /\ Len(cache) \in Nat
    BY <1>2 DEF ConstantsAssumption, DataType
  <2>2. /\ Len(cache) = CacheSize \/ Len(cache) = Len(kept)
        /\ EndOf(cache, kept)
    BY <1>2 DEF CacheInv, EndOf
  <2>3. EndOf(all, kept')
    BY <1>1, <1>2, <1>6, <1>8, <2>1, <2>2, AppendEndOf
  <2>4. /\ all \in Seq(Notes) /\ Len(all) = Len(cache) + 1
        /\ kept' \in Seq(Notes) /\ Len(kept') = Len(kept) + 1
        /\ \A i \in 1..Len(all) : all[i] = k \/ \E j \in 1..Len(cache) : all[i] = cache[j]
    BY <1>1, <1>2, <1>6, <1>8, <2>1
  <2>5. CASE Len(all) > CacheSize
    <3>1. cache' = Tail(all) /\ Len(all) > 0
      BY <1>1, <2>1, <2>4, <2>5
    <3>2. EndOf(cache', kept')
      BY <2>3, <2>4, <3>1, TailEndOf
    <3>3. /\ cache' \in Seq(Notes) /\ Len(cache') = Len(cache)
          /\ \A i \in 1..Len(cache') : cache'[i] = all[i + 1] /\ i + 1 \in 1..Len(all)
      BY <2>4, <3>1
    <3>4. Len(cache) = CacheSize
      BY <1>2, <2>1, <2>4, <2>5
    <3>5. \A i \in 1..Len(cache') :
             cache'[i] = k \/ \E j \in 1..Len(cache) : cache'[i] = cache[j]
      BY <2>4, <3>3
    <3>6. Len(cache') = CacheSize /\ Len(cache') <= CacheSize
      BY <2>1, <3>3, <3>4
    <3>7. cache' \in Seq(Notes)
      BY <3>3
    <3> QED
      BY <3>2, <3>5, <3>6, <3>7
  <2>6. CASE ~(Len(all) > CacheSize)
    <3>1. cache' = all /\ Len(all) <= CacheSize
      BY <1>1, <2>1, <2>4, <2>6
    <3>2. Len(all) = Len(kept')
      BY <2>1, <2>2, <2>4, <3>1
    <3> QED
      BY <2>3, <2>4, <3>1, <3>2
  <2> QED
    BY <2>5, <2>6
<1>11. TableFits(t, {})
  BY <1>1, <1>4, <1>5, <1>9 DEF TableFits
<1>12. TypeOK' /\ DataType' /\ PlaceInv' /\ LockInv' /\ TableInv'
  <2>1. /\ delivered' \in Seq(Notes) /\ answered' \subseteq Notes
        /\ refused' \subseteq Notes /\ kept' \in Seq(Notes)
        /\ queue' \in Seq(Notes) /\ draining' \in BOOLEAN
    BY <1>1, <1>2, <1>6 DEF DataType
  <2> QED
    BY <1>5, <1>9, <1>10, <1>11, <2>1, FrameKeeps
<1>13. Grows
  BY <1>9, <1>12, InSubs DEF Grows
<1>14. Away(t)
  BY <1>1, <1>4 DEF k, Away, DrainLabels, LockLabels, LookLabels
<1>15. /\ OrderInv' /\ DrainInv' /\ DrainLeft' /\ AnswerInv'
       /\ Reported' \subseteq Reported
  BY <1>1, <1>13, <1>14, AwayKeeps
<1>16. HandInv'
  <2>1. \A j \in Reported' : Above(k, j)
    <3> SUFFICES ASSUME NEW j \in Reported', j.sub = k.sub PROVE j.n < k.n
      BY DEF Above
    <3>1. Past(j)
      BY <1>2, <1>15 DEF OrderInv
    <3>2. j \in Notes
      <4>1. ASSUME NEW i \in DOMAIN delivered PROVE delivered[i] \in Notes
        BY <1>2, ElementOfSeq DEF DataType
      <4>2. ASSUME NEW i \in DOMAIN queue PROVE queue[i] \in Notes
        BY <1>2, ElementOfSeq
      <4>3. \A u \in Threads : At(u, "call") => thread[u].note \in Notes
        BY <1>2 DEF OrderInv
      <4> QED
        BY <1>15, <4>1, <4>2, <4>3, Reporting
    <3> QED
      BY <1>6, <3>1, <3>2, InSubs DEF Past, Notes
  <2>2. k.n <= sub'[k.sub].remote /\ sub'[k.sub].local > 0
    BY <1>6, <1>9 DEF ConstantsAssumption
  <2> QED
    BY <1>1, <1>2, <1>4, <1>6, <2>1, <2>2, OnlyHand
<1>17. CacheInv'
  <2>1. ASSUME NEW i \in 1..Len(cache'), NEW c, c = cache'[i]
        PROVE  sub'[c.sub].local > 0 /\ c.n <= sub'[c.sub].remote /\ c \notin refused'
    <3>1. CASE c = k
      BY <1>1, <1>6, <1>9, <3>1 DEF ConstantsAssumption
    <3>2. CASE \E j \in 1..Len(cache) : c = cache[j]
      <4>1. c \in Notes /\ Past(c) /\ c \notin refused
        BY <1>2, <3>2 DEF CacheInv
      <4>2. Past(c)'
        BY <1>2, <1>13, <4>1, PastGrows
      <4> QED
        BY <1>1, <4>1, <4>2 DEF Past
    <3> QED
      BY <1>10, <2>1, <3>1, <3>2
  <2>2. \A j \in refused : /\ sub'[j.sub].local > 0
                           /\ j.sub \notin subs' \/ j.n <= sub'[j.sub].remote
    BY <1>1, <1>2, <1>13, RefusedStays
  <2> QED
    BY <1>1, <1>10, <2>1, <2>2 DEF CacheInv, EndOf, Past
<1> QED
  BY <1>12, <1>15, <1>16, <1>17 DEF IInv

----------------------------------------------------------------------------
(* Calling back *)

(* Steps of the thread that calls back: what belongs to the run stays      *)
(* reported, and nothing is reported anew.                                 *)
LEMMA CallbackKeeps ==
    ASSUME ConstantsAssumption, IInv, NEW t \in Threads, Inner(t),
           PlaceFits(t), LockFits(t),
           {thread[t].at, thread'[t].at} \cap ({"create", "clear"} \cup HandLabels) = {},
           UNCHANGED <<gen, subs, tags, sub, cache, answered, refused, kept, live,
                       ended>>,
           queue' \in Seq(Notes), delivered' \in Seq(Notes), draining' \in BOOLEAN,
           Reported' \subseteq Reported,
           \A k \in Reported : Current(k) => k \in Reported',
           OrderInv' /\ DrainInv' /\ DrainLeft'
    PROVE  IInv'
<1>0. /\ DataType /\ TypeOK /\ HandInv /\ CacheInv /\ AnswerInv
      /\ cache \in Seq(Notes) /\ Len(cache) <= CacheSize
  BY DEF IInv, TypeOK
<1>1. TableFits(t, {})
  BY DEF TableFits
<1>2. TypeOK' /\ DataType' /\ PlaceInv' /\ LockInv' /\ TableInv'
  <2>1. /\ answered' \subseteq Notes /\ refused' \subseteq Notes /\ kept' \in Seq(Notes)
        /\ cache' \in Seq(Notes) /\ Len(cache') <= CacheSize
    BY <1>0 DEF DataType
  <2>2. /\ sub' \in [Subs -> SubType]
        /\ \A s \in Subs : /\ sub'[s].answered <= sub'[s].local
                           /\ sub'[s].remote <= MaxNotify
    BY InSubs
  <2> QED
    BY <1>1, <2>1, <2>2, FrameKeeps
<1>3. Grows
  BY <1>2, InSubs DEF Grows
<1>4. HandInv'
  <2>1. \A u \in Threads : InHand(u)' => thread'[u] = thread[u]
    BY DEF InHand, HandLabels, Inner, Moves
  <2> QED
    BY <1>0, <1>3, <2>1, HandStays
<1>5. CacheInv'
  BY <1>0, <1>3, CacheStays
<1>6. AnswerInv'
  <2>1. \A u \in Threads : thread[u].at \in {"remember", "emit"} =>
           thread'[u].note = thread[u].note /\ thread'[u].at \in {"remember", "emit"}
    BY DEF HandLabels, Inner, Moves
  <2>2. \A k \in Notes : Current(k)' /\ sub[k.sub].run > 0 =>
           Current(k) /\ (k \in Reported => k \in Reported')
    BY DEF Current
  <2> QED
    BY <1>0, <1>3, <2>1, <2>2, AnswerStays
<1> QED
  BY <1>2, <1>4, <1>5, <1>6 DEF IInv

(* A thread that is through with the callbacks goes on.                    *)
LEMMA DrainedFits ==
    ASSUME IInv, NEW t \in Threads, Drained(t), recvLock' = recvLock,
           thread[t].at \in {"drain", "claim", "yield"}
    PROVE  /\ Inner(t) /\ PlaceFits(t) /\ LockFits(t)
           /\ thread'[t].at \in {"leave", "loop"}
           /\ {thread[t].at, thread'[t].at} \cap ({"create", "clear"} \cup HandLabels) = {}
<1>1. /\ Inner(t) /\ thread'[t].deque = 0
      /\ thread'[t].at = IF t \in Apps THEN "leave" ELSE "loop"
  BY DrainedMoves DEF IInv
<1>2. Deque >= 0
  BY InThreads
<1>3. PlaceFits(t)
  BY <1>1, <1>2 DEF PlaceFits, AppLabels, RestLabels
<1>4. LockFits(t)
  BY <1>1 DEF LockFits, LockLabels
<1> QED
  BY <1>1, <1>3, <1>4 DEF HandLabels

(* A routine looks at the queue.                                           *)
LEMMA DrainKeeps ==
    ASSUME ConstantsAssumption, IInv, NEW t \in Threads, Drain(t)
    PROVE  IInv'
<1>1. /\ thread[t].at = "drain"
      /\ UNCHANGED <<gen, recvLock, subs, tags, sub, cache, queue, draining, history>>
  BY DEF Drain, At
<1>2. CASE queue = <<>> /\ Drained(t)
  <2>1. /\ Inner(t) /\ PlaceFits(t) /\ LockFits(t)
        /\ thread'[t].at \in {"leave", "loop"}
        /\ {thread[t].at, thread'[t].at} \cap {"create", "clear"} = {}
    BY <1>1, <1>2, DrainedFits
  <2>2. Aside(t)
    BY <1>1, <1>2, <2>1 DEF Aside, Inner, HandLabels, DrainLabels
  <2> QED
    BY <1>1, <2>1, <2>2, OnwardKeeps
<1>3. CASE thread' = [thread EXCEPT ![t].at = "claim", ![t].deque = Deque]
  <2> DEFINE f == [thread[t] EXCEPT !.at = "claim", !.deque = Deque]
  <2>1. thread[t] \in ThreadType /\ Deque \in Nat /\ "claim" \in Labels
    BY InThreads DEF Labels
  <2>2. /\ f \in ThreadType /\ f.at = "claim" /\ f.deque = Deque
        /\ f.g = thread[t].g /\ f.sub = thread[t].sub
        /\ f.goal = thread[t].goal /\ f.held = thread[t].held
    BY <2>1 DEF ThreadType
  <2>3. thread' = [thread EXCEPT ![t] = f]
    BY <1>3
  <2> HIDE DEF f
  <2>4. Inner(t) /\ thread'[t].at = "claim" /\ thread'[t].deque = Deque
    BY InThreads, <2>2, <2>3 DEF Inner, Moves
  <2>5. CalmEdge(t)
    BY <1>1, <2>1, <2>4 DEF CalmEdge, CalmFrom, CalmTo, LockLabels
  <2> QED
    BY <1>1, <2>4, <2>5, CalmEdges, OnwardKeeps
<1> QED
  BY <1>2, <1>3 DEF Drain

(* Facts that the steps of _drain_subscription_callbacks() share.          *)
LEMMA InDrain ==
    ASSUME ConstantsAssumption, IInv, sub' = sub,
           thread' \in [Threads -> ThreadType],
           UNCHANGED <<answered, refused, kept, live, ended>>,
           delivered' \in Seq(Notes)
    PROVE  /\ Grows /\ queue \in Seq(Notes) /\ delivered \in Seq(Notes)
           /\ DataType /\ OrderInv /\ DrainInv /\ DrainLeft /\ LockInv /\ TypeOK
           /\ Reported \subseteq Notes
<1>0. /\ queue \in Seq(Notes) /\ delivered \in Seq(Notes)
      /\ DataType /\ OrderInv /\ DrainInv /\ DrainLeft /\ LockInv /\ TypeOK
  BY DEF IInv, TypeOK, DataType
<1>1. DataType'
  BY <1>0 DEF DataType
<1>2. Grows
  BY <1>1, InSubs DEF Grows
<1>3. Reported \subseteq Notes
  <2>1. \A i \in DOMAIN delivered : delivered[i] \in Notes
    BY <1>0, ElementOfSeq
  <2>2. \A i \in DOMAIN queue : queue[i] \in Notes
    BY <1>0, ElementOfSeq
  <2>3. \A u \in Threads : At(u, "call") => thread[u].note \in Notes
    BY <1>0 DEF OrderInv
  <2> QED
    BY <2>1, <2>2, <2>3, Reporting
<1> QED
  BY <1>0, <1>2, <1>3

(* A thread sets the flag of the queue, or finds it set.                   *)
LEMMA ClaimKeeps ==
    ASSUME ConstantsAssumption, IInv, NEW t \in Threads, Claim(t)
    PROVE  IInv'
<1>1. /\ thread[t].at = "claim" /\ draining' = TRUE
      /\ \/ draining /\ Drained(t)
         \/ ~draining /\ Go(t, "take")
      /\ UNCHANGED <<gen, recvLock, subs, tags, sub, cache, queue,
                     delivered, answered, refused, kept, live, ended>>
  BY DEF Claim, At, history
<1>2. /\ Inner(t) /\ PlaceFits(t) /\ LockFits(t)
      /\ {thread[t].at, thread'[t].at} \cap ({"create", "clear"} \cup HandLabels) = {}
      /\ thread'[t].at \in {"leave", "loop", "take"}
      /\ draining => thread'[t].at \in {"leave", "loop"}
      /\ ~draining => thread'[t].at = "take"
  <2>1. CASE draining /\ Drained(t)
    BY <1>1, <2>1, DrainedFits
  <2>2. CASE ~draining /\ Go(t, "take")
    <3>1. "take" \in Labels /\ DataType /\ thread[t].deque <= Deque
      BY InThreads DEF Labels, DrainLabels, IInv
    <3>2. Inner(t) /\ thread'[t].at = "take" /\ thread'[t].deque = thread[t].deque
      BY <2>2, <3>1, GoMoves
    <3>3. PlaceFits(t) /\ LockFits(t)
      BY <1>1, <3>1, <3>2 DEF PlaceFits, LockFits, LockLabels, AppLabels, RestLabels
    <3> QED
      BY <1>1, <2>2, <3>2, <3>3 DEF HandLabels
  <2> QED
    BY <1>1, <2>1, <2>2
<1>3. thread' \in [Threads -> ThreadType] /\ \A u \in Threads \ {t} : thread'[u] = thread[u]
  BY <1>2 DEF Inner, Moves
<1>4. /\ Grows /\ queue \in Seq(Notes) /\ delivered \in Seq(Notes)
      /\ DataType /\ OrderInv /\ DrainInv /\ DrainLeft /\ LockInv /\ TypeOK
  <2>1. delivered' \in Seq(Notes)
    BY <1>1 DEF IInv, DataType
  <2> QED
    BY <1>1, <1>3, <2>1, InDrain
<1>5. OrderInv' /\ Reported' \subseteq Reported /\ Reported \subseteq Reported'
  <2>1. SameCalls /\ \A u \in Threads : thread[u].at = "call" =>
                        thread'[u].at = "call" /\ thread'[u].note = thread[u].note
    BY <1>1, <1>2, <1>3 DEF SameCalls
  <2> QED
    BY <1>1, <1>4, <2>1, SameReports
<1>6. DrainInv'
  <2>1. \A u \in Threads \ {t} : Drains(u)' => Drains(u)
    BY <1>1, <1>3 DEF Drains, Deque
  <2>2. ~draining => \A u \in Threads : ~Drains(u)
    BY <1>4 DEF DrainInv
  <2>3. draining => ~Drains(t)'
    BY <1>2 DEF Drains, DrainLabels
  <2> QED
    BY <1>1, <1>4, <2>1, <2>2, <2>3 DEF DrainInv, Drains
<1>7. DrainLeft'
  <2> SUFFICES ASSUME gen <= 1
               PROVE  \E u \in Threads : thread'[u].at \in DrainLabels
    BY <1>1 DEF DrainLeft
  <2>1. CASE draining
    <3>1. PICK u \in Threads : thread[u].at \in DrainLabels
      BY <1>4, <2>1 DEF DrainLeft
    <3>2. u # t
      BY <1>1, <3>1 DEF DrainLabels
    <3> QED
      BY <1>3, <3>1, <3>2
  <2>2. CASE ~draining
    BY <1>2, <2>2 DEF DrainLabels
  <2> QED
    BY <2>1, <2>2
<1> QED
  BY <1>1, <1>2, <1>4, <1>5, <1>6, <1>7, CallbackKeeps

(* A thread finds the queue drained, or replaced.                          *)
LEMMA TakeNothingKeeps ==
    ASSUME ConstantsAssumption, IInv, NEW t \in Threads, thread[t].at = "take",
           Go(t, "yield"),
           UNCHANGED <<gen, recvLock, subs, tags, sub, cache, queue, draining, history>>
    PROVE  IInv'
<1>1. /\ "yield" \in Labels /\ DataType /\ thread[t].deque <= Deque
      /\ UNCHANGED <<delivered, answered, refused, kept, live, ended>>
      /\ draining \in BOOLEAN
  BY InThreads DEF Labels, DrainLabels, IInv, history, TypeOK
<1>2. Inner(t) /\ thread'[t].at = "yield" /\ thread'[t].deque = thread[t].deque
  BY <1>1, GoMoves
<1>3. /\ PlaceFits(t) /\ LockFits(t)
      /\ {thread[t].at, thread'[t].at} \cap ({"create", "clear"} \cup HandLabels) = {}
  BY <1>1, <1>2 DEF PlaceFits, LockFits, LockLabels, AppLabels, RestLabels, HandLabels
<1>4. Moves(t) /\ thread' \in [Threads -> ThreadType]
      /\ \A u \in Threads \ {t} : thread'[u] = thread[u]
  BY <1>2 DEF Inner, Moves
<1>5. /\ Grows /\ queue \in Seq(Notes) /\ delivered \in Seq(Notes)
      /\ DrainInv /\ DrainLeft
  <2>1. delivered' \in Seq(Notes)
    BY <1>1 DEF DataType
  <2> QED
    BY <1>1, <1>4, <2>1, InDrain
<1>6. OrderInv' /\ Reported' \subseteq Reported /\ Reported \subseteq Reported'
  <2>1. SameCalls /\ \A u \in Threads : thread[u].at = "call" =>
                        thread'[u].at = "call" /\ thread'[u].note = thread[u].note
    BY <1>2, <1>4 DEF SameCalls
  <2> QED
    BY <1>1, <1>5, <2>1, SameReports
<1>7. DrainInv'
  <2>1. \A u \in Threads : Drains(u)' => Drains(u)
    BY <1>2, <1>4 DEF Drains, Deque, DrainLabels
  <2> QED
    BY <1>5, <2>1, DrainStays
<1>8. DrainLeft'
  <2>1. thread'[t].at \in DrainLabels /\ thread'[t].at \in LookLabels
    BY <1>2 DEF DrainLabels, LookLabels
  <2> QED
    BY <1>4, <1>5, <2>1, LeftStays
<1> QED
  BY <1>1, <1>2, <1>3, <1>5, <1>6, <1>7, <1>8, CallbackKeeps

(* A thread takes the first event of the queue.                            *)
LEMMA TakeEventKeeps ==
    ASSUME ConstantsAssumption, IInv, NEW t \in Threads, Take(t),
           ~(thread[t].deque # Deque \/ queue = <<>>)
    PROVE  IInv'
<1> DEFINE c == Head(queue)
           f == [thread[t] EXCEPT !.at = "call", !.note = c]
<1>0. /\ thread[t].at = "take" /\ thread[t].deque = Deque /\ queue # <<>>
      /\ queue' = Tail(queue)
      /\ UNCHANGED <<gen, recvLock, subs, tags, sub, cache, draining, history>>
  BY DEF Take, At
<1>1. /\ "call" \in Labels /\ DataType /\ thread[t].deque <= Deque
      /\ thread[t] \in ThreadType
      /\ UNCHANGED <<delivered, answered, refused, kept, live, ended>>
      /\ draining \in BOOLEAN /\ queue \in Seq(Notes) /\ delivered \in Seq(Notes)
  BY <1>0, InThreads DEF Labels, DrainLabels, IInv, history, TypeOK, DataType
<1>2. /\ c \in Notes /\ c = queue[1] /\ queue' \in Seq(Notes)
      /\ Len(queue') = Len(queue) - 1 /\ Len(queue) \in Nat \ {0}
      /\ \A j \in 1..Len(queue') : queue'[j] = queue[j + 1] /\ j + 1 \in 1..Len(queue)
      /\ 1 \in 1..Len(queue)
  BY <1>0, <1>1
<1>3. /\ f \in ThreadType /\ f.at = "call" /\ f.note = c
      /\ f.deque = thread[t].deque /\ f.g = thread[t].g /\ f.sub = thread[t].sub
      /\ f.goal = thread[t].goal /\ f.held = thread[t].held
  BY <1>1, <1>2 DEF ThreadType
<1>4. thread' = [thread EXCEPT ![t] = f]
  BY DEF Take
<1> HIDE DEF c, f
<1>5. /\ Inner(t) /\ Moves(t) /\ thread'[t].at = "call"
      /\ thread'[t].deque = thread[t].deque /\ thread'[t].note = c
      /\ thread' \in [Threads -> ThreadType]
      /\ \A u \in Threads \ {t} : thread'[u] = thread[u]
  BY InThreads, <1>3, <1>4 DEF Inner, Moves
<1>6. /\ PlaceFits(t) /\ LockFits(t)
      /\ {thread[t].at, thread'[t].at} \cap ({"create", "clear"} \cup HandLabels) = {}
  BY <1>0, <1>1, <1>5 DEF PlaceFits, LockFits, LockLabels, AppLabels, RestLabels, HandLabels
<1>7. /\ Grows /\ OrderInv /\ DrainInv /\ DrainLeft /\ Reported \subseteq Notes
  BY <1>0, <1>1, <1>5, InDrain
<1>8. \A k : k \in Reported' <=> k \in Reported
  <2> SUFFICES ASSUME NEW k PROVE k \in Reported' <=> k \in Reported
    OBVIOUS
  <2>1. (\E u \in Threads : thread'[u].at = "call" /\ thread'[u].note = k)
           <=> k = c \/ \E u \in Threads : At(u, "call") /\ thread[u].note = k
    BY <1>0, <1>5 DEF At
  <2>2. (\E i \in DOMAIN queue : queue[i] = k) <=>
           k = c \/ \E i \in DOMAIN queue' : queue'[i] = k
    <3>1. DOMAIN queue = 1..Len(queue) /\ DOMAIN queue' = 1..Len(queue')
      BY <1>1, <1>2
    <3>2. \A i \in 1..Len(queue) : i = 1 \/ \E j \in 1..Len(queue') : i = j + 1
      <4> SUFFICES ASSUME NEW i \in 1..Len(queue), i # 1
                   PROVE  \E j \in 1..Len(queue') : i = j + 1
        OBVIOUS
      <4>1. i - 1 \in 1..Len(queue') /\ i = (i - 1) + 1
        BY <1>2
      <4> QED
        BY <4>1
    <3>3. queue[1] = c
      BY <1>2
    <3>4. ASSUME NEW i \in 1..Len(queue), queue[i] = k
          PROVE  k = c \/ \E j \in 1..Len(queue') : queue'[j] = k
      <4>1. CASE i = 1
        BY <3>3, <3>4, <4>1
      <4>2. CASE \E j \in 1..Len(queue') : i = j + 1
        BY <1>2, <3>4, <4>2
      <4> QED
        BY <3>2, <4>1, <4>2
    <3>5. ASSUME k = c \/ \E j \in 1..Len(queue') : queue'[j] = k
          PROVE  \E i \in 1..Len(queue) : queue[i] = k
      <4>1. CASE k = c
        BY <1>2, <4>1
      <4>2. CASE \E j \in 1..Len(queue') : queue'[j] = k
        BY <1>2, <4>2
      <4> QED
        BY <3>5, <4>1, <4>2
    <3> QED
      BY <3>1, <3>4, <3>5
  <2>3. delivered' = delivered
    BY <1>1
  <2> QED
    BY <2>1, <2>2, <2>3, Reporting, ReportingNext
<1>9. OrderInv'
  <2>1. \A k \in Reported' : Past(k)'
    BY <1>1, <1>7, <1>8, PastGrows DEF OrderInv
  <2>2. \A i, j \in 1..Len(delivered') : i < j => Above(delivered'[j], delivered'[i])
    BY <1>1, <1>7 DEF OrderInv
  <2>3. \A i, j \in 1..Len(queue') : i < j => Above(queue'[j], queue'[i])
    <3> SUFFICES ASSUME NEW i \in 1..Len(queue'), NEW j \in 1..Len(queue'), i < j
                 PROVE  Above(queue'[j], queue'[i])
      OBVIOUS
    <3>1. i + 1 < j + 1
      OBVIOUS
    <3> QED
      BY <1>2, <1>7, <3>1 DEF OrderInv
  <2>4. \A i \in 1..Len(delivered'), j \in 1..Len(queue') :
           Above(queue'[j], delivered'[i])
    BY <1>1, <1>2, <1>7 DEF OrderInv
  <2>5. ASSUME NEW u \in Threads, thread'[u].at = "call", NEW d, d = thread'[u].note
        PROVE  /\ d \in Notes
               /\ \A j \in 1..Len(queue') : Above(queue'[j], d)
               /\ Current(d)' => /\ thread'[u].deque = Deque'
                                 /\ \A i \in 1..Len(delivered') : Above(d, delivered'[i])
    <3>0. Deque' = Deque /\ (Current(d)' <=> Current(d))
      BY <1>0 DEF Deque, Current
    <3>1. CASE u = t
      <4>1. d = c /\ d = queue[1]
        BY <1>2, <1>5, <2>5, <3>1
      <4>2. \A j \in 1..Len(queue') : Above(queue'[j], d)
        <5> SUFFICES ASSUME NEW j \in 1..Len(queue') PROVE Above(queue'[j], d)
          OBVIOUS
        <5>1. 1 < j + 1
          OBVIOUS
        <5>2. queue'[j] = queue[j + 1] /\ j + 1 \in 1..Len(queue) /\ 1 \in 1..Len(queue)
          BY <1>2
        <5>3. \A i, m \in 1..Len(queue) : i < m => Above(queue[m], queue[i])
          BY <1>7 DEF OrderInv
        <5> QED
          BY <4>1, <5>1, <5>2, <5>3
      <4>3. \A i \in 1..Len(delivered') : Above(d, delivered'[i])
        <5>1. 1 \in 1..Len(queue)
          BY <1>2
        <5> QED
          BY <1>1, <1>7, <4>1, <5>1 DEF OrderInv
      <4> QED
        BY <1>0, <1>2, <1>5, <3>0, <3>1, <4>1, <4>2, <4>3
    <3>2. CASE u # t
      <4>1. At(u, "call") /\ d = thread[u].note /\ thread'[u] = thread[u]
        BY <1>5, <2>5, <3>2 DEF At
      <4>2. \A j \in 1..Len(queue') : Above(queue'[j], d)
        BY <1>2, <1>7, <4>1 DEF OrderInv
      <4> QED
        BY <1>1, <1>7, <3>0, <4>1, <4>2 DEF OrderInv
    <3> QED
      BY <3>1, <3>2
  <2> QED
    BY <2>1, <2>2, <2>3, <2>4, <2>5 DEF OrderInv, At, Above
<1>10. DrainInv'
  <2>1. \A u \in Threads : Drains(u)' => Drains(u)
    BY <1>0, <1>5 DEF Drains, Deque, DrainLabels
  <2> QED
    BY <1>0, <1>7, <2>1, DrainStays
<1>11. DrainLeft'
  <2>1. thread'[t].at \in DrainLabels /\ thread'[t].at \in LookLabels
    BY <1>5 DEF DrainLabels, LookLabels
  <2> QED
    BY <1>0, <1>5, <1>7, <2>1, LeftStays
<1> QED
  BY <1>0, <1>1, <1>2, <1>5, <1>6, <1>8, <1>9, <1>10, <1>11, CallbackKeeps

(* The application is called back.                                         *)
LEMMA CallKeeps ==
    ASSUME ConstantsAssumption, IInv, NEW t \in Threads, Call(t)
    PROVE  IInv'
<1> DEFINE c == thread[t].note
<1>1. /\ thread[t].at = "call" /\ Put(t, "take")
      /\ delivered' = IF Current(c) THEN Append(delivered, c) ELSE delivered
      /\ UNCHANGED <<gen, recvLock, subs, tags, sub, cache, queue, draining,
                     answered, refused, kept, live, ended>>
  BY DEF Call, At, Current
<1>2. /\ "take" \in Labels /\ DataType /\ thread[t].deque <= Deque
      /\ draining \in BOOLEAN /\ queue \in Seq(Notes) /\ delivered \in Seq(Notes)
      /\ OrderInv
  BY InThreads DEF Labels, DrainLabels, IInv, TypeOK, DataType
<1>3. /\ c \in Notes /\ \A j \in 1..Len(queue) : Above(queue[j], c)
      /\ Current(c) => /\ thread[t].deque = Deque
                       /\ \A i \in 1..Len(delivered) : Above(c, delivered[i])
  BY <1>1, <1>2 DEF OrderInv, At
<1>4. /\ Inner(t) /\ Moves(t) /\ thread'[t].at = "take"
      /\ thread'[t].deque = thread[t].deque
      /\ thread' \in [Threads -> ThreadType]
      /\ \A u \in Threads \ {t} : thread'[u] = thread[u]
  BY <1>1, <1>2, PutMoves DEF Inner, Moves
<1>5. thread[t].note = c
  OBVIOUS
<1> HIDE DEF c
<1>6. /\ PlaceFits(t) /\ LockFits(t)
      /\ {thread[t].at, thread'[t].at} \cap ({"create", "clear"} \cup HandLabels) = {}
  BY <1>1, <1>2, <1>4 DEF PlaceFits, LockFits, LockLabels, AppLabels, RestLabels, HandLabels
<1>7. /\ delivered' \in Seq(Notes) /\ Len(delivered) \in Nat
      /\ \A i \in 1..Len(delivered') : \/ i \in 1..Len(delivered) /\ delivered'[i] = delivered[i]
                                       \/ /\ Current(c) /\ i = Len(delivered) + 1
                                          /\ delivered'[i] = c
      /\ \A i \in 1..Len(delivered) : i \in 1..Len(delivered') /\ delivered'[i] = delivered[i]
      /\ Current(c) => Len(delivered') \in 1..Len(delivered')
                       /\ delivered'[Len(delivered')] = c
  BY <1>1, <1>2, <1>3
<1>8. /\ Grows /\ DrainInv /\ DrainLeft /\ Reported \subseteq Notes
  BY <1>1, <1>4, <1>7, InDrain
<1>9. \A k : /\ k \in Reported' => k \in Reported
             /\ k \in Reported /\ Current(k) => k \in Reported'
  <2> SUFFICES ASSUME NEW k
               PROVE  /\ k \in Reported' => k \in Reported
                      /\ k \in Reported /\ Current(k) => k \in Reported'
    OBVIOUS
  <2>1. (\E u \in Threads : At(u, "call") /\ thread[u].note = k)
           <=> k = c \/ \E u \in Threads : thread'[u].at = "call" /\ thread'[u].note = k
    BY <1>1, <1>4, <1>5 DEF At
  <2>2. DOMAIN delivered = 1..Len(delivered) /\ DOMAIN delivered' = 1..Len(delivered')
    BY <1>2, <1>7
  <2>3. (\E i \in DOMAIN delivered : delivered[i] = k) =>
           \E i \in DOMAIN delivered' : delivered'[i] = k
    BY <1>7, <2>2
  <2>4. (\E i \in DOMAIN delivered' : delivered'[i] = k) =>
           k = c \/ \E i \in DOMAIN delivered : delivered[i] = k
    BY <1>7, <2>2
  <2>5. k = c /\ Current(k) => \E i \in DOMAIN delivered' : delivered'[i] = k
    BY <1>7, <2>2
  <2> QED
    BY <1>1, <2>1, <2>3, <2>4, <2>5, Reporting, ReportingNext
<1>10. OrderInv'
  <2>1. \A k \in Reported' : Past(k)'
    BY <1>2, <1>8, <1>9, PastGrows DEF OrderInv
  <2>2. \A i, j \in 1..Len(delivered') : i < j => Above(delivered'[j], delivered'[i])
    <3> SUFFICES ASSUME NEW i \in 1..Len(delivered'), NEW j \in 1..Len(delivered'), i < j
                 PROVE  Above(delivered'[j], delivered'[i])
      OBVIOUS
    <3>0. ~(i = Len(delivered) + 1 /\ j \in 1..Len(delivered)) /\ i # j
      BY <1>7
    <3>1. i \in 1..Len(delivered) /\ delivered'[i] = delivered[i]
      BY <1>7, <3>0
    <3>2. CASE j \in 1..Len(delivered) /\ delivered'[j] = delivered[j]
      BY <1>2, <3>1, <3>2 DEF OrderInv
    <3>3. CASE Current(c) /\ delivered'[j] = c
      BY <1>3, <3>1, <3>3
    <3> QED
      BY <1>7, <3>2, <3>3
  <2>3. \A i, j \in 1..Len(queue') : i < j => Above(queue'[j], queue'[i])
    BY <1>1, <1>2 DEF OrderInv
  <2>4. \A i \in 1..Len(delivered'), j \in 1..Len(queue') :
           Above(queue'[j], delivered'[i])
    <3> SUFFICES ASSUME NEW i \in 1..Len(delivered'), NEW j \in 1..Len(queue)
                 PROVE  Above(queue[j], delivered'[i])
      BY <1>1
    <3> QED
      BY <1>2, <1>3, <1>7 DEF OrderInv
  <2>5. ASSUME NEW u \in Threads, thread'[u].at = "call", NEW d, d = thread'[u].note
        PROVE  /\ d \in Notes
               /\ \A j \in 1..Len(queue') : Above(queue'[j], d)
               /\ Current(d)' => /\ thread'[u].deque = Deque'
                                 /\ \A i \in 1..Len(delivered') : Above(d, delivered'[i])
    <3>0. Deque' = Deque /\ (Current(d)' <=> Current(d))
      BY <1>1 DEF Deque, Current
    <3>1. u # t /\ At(u, "call") /\ d = thread[u].note /\ thread'[u] = thread[u]
      BY <1>4, <2>5 DEF At
    <3>2. /\ d \in Notes /\ \A j \in 1..Len(queue) : Above(queue[j], d)
          /\ Current(d) => /\ thread[u].deque = Deque
                           /\ \A i \in 1..Len(delivered) : Above(d, delivered[i])
      BY <1>2, <3>1 DEF OrderInv
    <3>3. Current(d) => ~Current(c)
      <4>1. Current(d) => Drains(u)
        BY <3>1, <3>2 DEF Drains, At, DrainLabels
      <4>2. Current(c) => Drains(t)
        BY <1>1, <1>3 DEF Drains, DrainLabels
      <4> QED
        BY <1>8, <3>1, <4>1, <4>2 DEF DrainInv
    <3>4. Current(d) => \A i \in 1..Len(delivered') : Above(d, delivered'[i])
      BY <1>7, <3>2, <3>3
    <3> QED
      BY <1>1, <3>0, <3>1, <3>2, <3>4
  <2> QED
    BY <2>1, <2>2, <2>3, <2>4, <2>5 DEF OrderInv, At, Above
<1>11. DrainInv'
  <2>1. \A u \in Threads : Drains(u)' => Drains(u)
    BY <1>1, <1>4 DEF Drains, Deque, DrainLabels
  <2> QED
    BY <1>1, <1>8, <2>1, DrainStays
<1>12. DrainLeft'
  <2>1. thread'[t].at \in DrainLabels /\ thread'[t].at \in LookLabels
    BY <1>4 DEF DrainLabels, LookLabels
  <2> QED
    BY <1>1, <1>4, <1>8, <2>1, LeftStays
<1> QED
  BY <1>1, <1>2, <1>4, <1>6, <1>7, <1>9, <1>10, <1>11, <1>12, CallbackKeeps

(* A thread gives up the queue it drained.                                 *)
LEMMA YieldKeeps ==
    ASSUME ConstantsAssumption, IInv, NEW t \in Threads, Yield(t)
    PROVE  IInv'
<1>1. /\ thread[t].at = "yield"
      /\ UNCHANGED <<gen, recvLock, subs, tags, sub, cache, queue,
                     delivered, answered, refused, kept, live, ended>>
  BY DEF Yield, At, history
<1>2. /\ "drain" \in Labels /\ DataType /\ thread[t].deque <= Deque
      /\ thread[t].deque \in Nat /\ gen \in Nat
      /\ draining \in BOOLEAN /\ queue \in Seq(Notes) /\ delivered \in Seq(Notes)
      /\ LockInv /\ recvLock \in Threads \cup {None}
  BY InThreads DEF Labels, IInv, TypeOK, DataType, ThreadType
<1>3. /\ Inner(t) /\ PlaceFits(t) /\ LockFits(t)
      /\ {thread[t].at, thread'[t].at} \cap ({"create", "clear"} \cup HandLabels) = {}
      /\ thread'[t].at \in {"leave", "loop", "drain"}
  <2>1. CASE Drained(t)
    BY <1>1, <2>1, DrainedFits
  <2>2. CASE Go(t, "drain")
    <3>1. Inner(t) /\ thread'[t].at = "drain" /\ thread'[t].deque = thread[t].deque
      BY <1>2, <2>2, GoMoves
    <3>2. PlaceFits(t) /\ LockFits(t)
      BY <1>1, <1>2, <3>1 DEF PlaceFits, LockFits, LockLabels, AppLabels, RestLabels
    <3> QED
      BY <1>1, <3>1, <3>2 DEF HandLabels
  <2> QED
    BY <2>1, <2>2 DEF Yield
<1>4. Moves(t) /\ thread' \in [Threads -> ThreadType]
      /\ \A u \in Threads \ {t} : thread'[u] = thread[u]
  BY <1>3 DEF Inner, Moves
<1>5. Grows /\ DrainInv /\ DrainLeft
  <2>1. delivered' \in Seq(Notes)
    BY <1>1, <1>2
  <2> QED
    BY <1>1, <1>4, <2>1, InDrain
<1>6. OrderInv' /\ Reported' \subseteq Reported /\ Reported \subseteq Reported'
  <2>1. SameCalls /\ \A u \in Threads : thread[u].at = "call" =>
                        thread'[u].at = "call" /\ thread'[u].note = thread[u].note
    BY <1>1, <1>3, <1>4 DEF SameCalls
  <2> QED
    BY <1>1, <1>5, <2>1, SameReports
<1>7. \A u \in Threads : Drains(u)' => Drains(u) /\ u # t
  BY <1>1, <1>3, <1>4 DEF Drains, Deque, DrainLabels
<1>8. CASE thread[t].deque # Deque
  <2>1. draining' = draining
    BY <1>8 DEF Yield
  <2>2. DrainInv'
    BY <1>5, <1>7, <2>1, DrainStays
  <2>3. gen > 1
    <3>1. gen \in 0..1 => Deque = 0
      BY DEF Deque
    <3> QED
      BY <1>2, <1>8, <3>1
  <2>4. DrainLeft'
    BY <1>1, <1>2, <2>3 DEF DrainLeft
  <2> QED
    BY <1>1, <1>2, <1>3, <1>6, <2>1, <2>2, <2>4, CallbackKeeps
<1>9. CASE thread[t].deque = Deque
  <2>1. /\ draining' = FALSE
        /\ queue # <<>> /\ recvLock = None => Go(t, "drain")
    BY <1>9 DEF Yield
  <2>2. Drains(t)
    BY <1>1, <1>9 DEF Drains, DrainLabels
  <2>3. \A u \in Threads : ~Drains(u)'
    BY <1>5, <1>7, <2>2 DEF DrainInv
  <2>4. DrainInv'
    BY <2>3 DEF DrainInv
  <2>5. DrainLeft'
    <3>1. ASSUME queue # <<>>
          PROVE  \E u \in Threads : thread'[u].at \in LookLabels
      <4>1. CASE recvLock = None
        <5>1. thread'[t].at = "drain"
          BY <1>2, <2>1, <3>1, <4>1, GoMoves
        <5> QED
          BY <5>1 DEF LookLabels
      <4>2. CASE recvLock \in Threads
        <5>1. thread[recvLock].at \in LockLabels
          BY <1>2, <4>2 DEF LockInv
        <5>2. recvLock # t
          BY <1>1, <5>1 DEF LockLabels
        <5>3. thread'[recvLock].at \in LookLabels
          BY <1>4, <4>2, <5>1, <5>2 DEF LookLabels
        <5> QED
          BY <4>2, <5>3
      <4> QED
        BY <1>2, <4>1, <4>2
    <3> QED
      BY <1>1, <2>1, <3>1 DEF DrainLeft, LookLabels
  <2> QED
    BY <1>1, <1>2, <1>3, <1>6, <2>1, <2>4, <2>5, CallbackKeeps
<1> QED
  BY <1>8, <1>9

----------------------------------------------------------------------------
(* What the application asks for *)

(* A thread is given another record.                                       *)
LEMMA SetMoves ==
    ASSUME IInv, NEW t \in Threads, NEW f \in ThreadType,
           thread' = [thread EXCEPT ![t] = f]
    PROVE  Moves(t) /\ thread'[t] = f /\ thread' \in [Threads -> ThreadType]
  BY InThreads DEF Moves

(* Nobody else's place changes with the place of one thread.               *)
LEMMA PlaceOne ==
    ASSUME PlaceInv, NEW t \in Threads, Moves(t), gen' = gen, Placed(t)'
    PROVE  PlaceInv'
<1> SUFFICES ASSUME NEW u \in Threads, u # t PROVE Placed(u)'
  BY DEF PlaceInv
<1>1. Placed(u) /\ Deque' = Deque /\ thread'[u] = thread[u]
  BY DEF PlaceInv, Deque, Moves
<1> QED
  BY <1>1 DEF Placed

(* A thread without an event in hand changes the table in its own way.     *)
LEMMA TableChanges ==
    ASSUME ConstantsAssumption, IInv, NEW t \in Threads, Aside(t), LockFits(t),
           PlaceInv', TableInv',
           UNCHANGED <<gen, cache, queue, draining, delivered, answered, refused,
                       kept>>,
           sub' \in [Subs -> SubType],
           \A s \in Subs : /\ sub'[s].remote = sub[s].remote
                           /\ sub'[s].local = sub[s].local
                           /\ sub'[s].answered = sub[s].answered
                           /\ sub[s].run > 0 => sub'[s].run = sub[s].run,
           subs' \subseteq Subs, tags' \subseteq Subs,
           live' \subseteq Subs, ended' \subseteq Subs,
           \A s \in subs' \ subs : sub[s].local = 0
    PROVE  IInv'
<1>0. TypeOK /\ DataType /\ LockInv
  BY DEF IInv
<1>1. DataType'
  BY <1>0 DEF DataType, Aside, Moves
<1>2. Grows
  BY <1>1, InSubs DEF Grows
<1>3. LockInv'
  BY <1>0, LockStays DEF Aside
<1>4. HandInv' /\ CacheInv' /\ OrderInv' /\ DrainInv' /\ AnswerInv' /\ DrainLeft'
  BY <1>2, AsideKeeps
<1>5. TypeOK'
  <2>1. recvLock' \in Threads \cup {None} /\ gen' \in 0..2 * MaxStarts
    BY <1>0 DEF LockFits, TypeOK
  <2>2. \A s \in Subs : sub'[s].answered <= sub'[s].local /\ sub'[s].remote <= MaxNotify
    BY InSubs
  <2>3. /\ cache' \in Seq(Notes) /\ Len(cache') <= CacheSize
        /\ queue' \in Seq(Notes) /\ draining' \in BOOLEAN
    BY <1>0 DEF TypeOK
  <2> QED
    BY <1>3, <2>1, <2>2, <2>3, TypesStay
<1> QED
  BY <1>1, <1>3, <1>4, <1>5 DEF IInv

(* subscribe_to() takes a number for what it is called for.                *)
LEMMA SubscribeKeeps ==
    ASSUME ConstantsAssumption, IInv, NEW a \in Apps, NEW s \in Subs, Subscribe(a, s)
    PROVE  IInv'
<1> DEFINE f == [Idle EXCEPT !.at = "create", !.g = gen,
                             !.sub = s, !.goal = "subscribe"]
<1>0. /\ thread[a].at = "idle" /\ nsd /\ sub[s].run = 0 /\ a \in Threads
      /\ sub' = [sub EXCEPT ![s].run = gen] /\ thread' = [thread EXCEPT ![a] = f]
      /\ UNCHANGED <<gen, recvLock, subs, tags, cache, queue, draining, history>>
      /\ UNCHANGED <<delivered, answered, refused, kept, live, ended>>
  BY DEF Subscribe, At, Threads, history
<1>1. gen \in Nat /\ gen # 0 /\ Deque \in Nat /\ gen % 2 = 1
  BY <1>0, InThreads DEF nsd
<1>2. /\ f \in ThreadType /\ f.at = "create" /\ f.g = gen /\ f.sub = s
      /\ f.goal = "subscribe" /\ f.deque = 0 /\ f.held = {}
  BY <1>1, ConstantsAssumption DEF Idle, ThreadType, Labels, AppLabels
<1> HIDE DEF f
<1>3. /\ Moves(a) /\ thread'[a] = f /\ thread' \in [Threads -> ThreadType]
      /\ \A u \in Threads \ {a} : thread'[u] = thread[u]
  BY <1>0, <1>2, SetMoves DEF Moves
<1>4. Aside(a) /\ LockFits(a)
  BY <1>0, <1>2, <1>3 DEF Aside, LockFits, LockLabels, HandLabels, DrainLabels, LookLabels
<1>5. PlaceInv'
  <2>1. Placed(a)'
    <3>1. Deque' = Deque
      BY <1>0 DEF Deque
    <3> QED
      BY <1>0, <1>1, <1>2, <1>3, <3>1 DEF Placed, RestLabels
  <2> QED
    BY <1>0, <1>3, <2>1, PlaceOne DEF IInv
<1>6. /\ sub' \in [Subs -> SubType]
      /\ \A r \in Subs : /\ sub'[r].remote = sub[r].remote
                         /\ sub'[r].local = sub[r].local
                         /\ sub'[r].answered = sub[r].answered
                         /\ r # s => sub'[r].run = sub[r].run
      /\ sub'[s].run = gen
  <2> DEFINE o == [sub[s] EXCEPT !.run = gen]
  <2>1. /\ o \in SubType /\ o.remote = sub[s].remote /\ o.run = gen
        /\ o.local = sub[s].local /\ o.answered = sub[s].answered
    BY <1>1, InSubs DEF SubType
  <2>2. sub' = [sub EXCEPT ![s] = o]
    BY <1>0
  <2> HIDE DEF o
  <2> QED
    BY <2>1, <2>2, InSubs
<1>7. TableInv'
  <2> SUFFICES ASSUME NEW r \in Subs PROVE Tabled(r)'
    BY DEF TableInv
  <2>1. Tabled(r)
    BY DEF IInv, TableInv
  <2>2. thread[a].goal = "none" /\ thread[a].sub = None /\ s # None
    BY <1>0, InThreads DEF Placed, RestLabels, ConstantsAssumption
  <2>3. nsd' = nsd /\ subs' = subs /\ tags' = tags /\ live' = live /\ ended' = ended
    BY <1>0 DEF nsd
  <2>4. Unknown(r)' <=> Unknown(r)
    BY <1>6, <2>3 DEF Unknown
  <2>5. \A u \in Threads : /\ At(u, "clear")' /\ r \in thread'[u].held
                                <=> At(u, "clear") /\ r \in thread[u].held
                           /\ r \in thread'[u].held => r \in thread[u].held
    BY <1>0, <1>2, <1>3 DEF At
  <2>6. CASE r # s
    <3>1. \A u \in Threads : /\ thread'[u].sub = r <=> thread[u].sub = r
                             /\ thread'[u].sub = r => thread'[u] = thread[u]
                             /\ Subscribing(u, r)' <=> Subscribing(u, r)
      BY <1>2, <1>3, <2>2, <2>6 DEF Subscribing
    <3>2. sub'[r].run = sub[r].run /\ gen' = gen
      BY <1>0, <1>6, <2>6
    <3> QED
      BY <2>1, <2>3, <2>4, <2>5, <3>1, <3>2 DEF Tabled, Subscribing, At
  <2>7. CASE r = s
    <3>1. Unknown(s) /\ \A u \in Threads : thread[u].sub # s
      BY <1>0, <2>1, <2>7 DEF Tabled
    <3>2. \A u \in Threads : thread'[u].sub = s => u = a
      BY <1>3, <3>1
    <3>3. /\ At(a, "create")' /\ Subscribing(a, s)'
          /\ \A u \in Threads : Subscribing(u, s)' => u = a
      BY <1>2, <1>3, <3>2 DEF Subscribing, At
    <3>4. sub'[s].run <= gen' /\ sub'[s].run # 0
      BY <1>0, <1>1, <1>6
    <3>5. s \notin subs \cup tags \cup live \cup ended
      BY <3>1 DEF Unknown
    <3>6. \A u \in Threads : s \notin thread'[u].held
      BY <2>1, <2>5, <2>7, <3>5 DEF Tabled
    <3> QED
      BY <2>3, <2>4, <2>7, <3>1, <3>2, <3>3, <3>4, <3>5, <3>6 DEF Tabled
  <2> QED
    BY <2>6, <2>7
<1>8. /\ subs' \subseteq Subs /\ tags' \subseteq Subs
      /\ live' \subseteq Subs /\ ended' \subseteq Subs
  BY <1>0 DEF IInv, TypeOK, DataType
<1>9. \A r \in Subs : sub[r].run > 0 => sub'[r].run = sub[r].run
  BY <1>0, <1>6
<1> QED
  BY <1>0, <1>4, <1>5, <1>6, <1>7, <1>8, <1>9, TableChanges

(* _create_subscription() enters it.                                       *)
LEMMA CreateKeeps ==
    ASSUME ConstantsAssumption, IInv, NEW a \in Threads, Create(a)
    PROVE  IInv'
<1> DEFINE s == thread[a].sub
<1>0. /\ thread[a].at = "create" /\ Go(a, "transact")
      /\ subs' = subs \cup {s} /\ tags' = tags \cup {s}
      /\ UNCHANGED <<gen, recvLock, sub, cache, queue, draining, history>>
      /\ UNCHANGED <<delivered, answered, refused, kept, live, ended>>
  BY DEF Create, At, history
<1>1. /\ a \in Apps /\ s \in Subs /\ "transact" \in Labels /\ DataType
      /\ thread[a].deque <= Deque
  BY <1>0, InThreads DEF AppLabels, RestLabels, Labels, IInv
<1>2. /\ Inner(a) /\ Moves(a) /\ thread'[a].at = "transact"
      /\ thread'[a].deque = thread[a].deque
  BY <1>0, <1>1, GoMoves DEF Inner
<1>3. Aside(a) /\ LockFits(a) /\ PlaceFits(a)
  BY <1>0, <1>1, <1>2 DEF Aside, LockFits, PlaceFits, LockLabels, HandLabels,
                          DrainLabels, LookLabels, RestLabels
<1>4. PlaceInv'
  BY <1>0, <1>2, <1>3, PlaceStays DEF IInv
<1>5. Unknown(s) /\ \A u \in Threads : thread[u].sub = s => u = a
  <2>1. Tabled(s) /\ At(a, "create")
    BY <1>0, <1>1 DEF IInv, TableInv, At
  <2> QED
    BY <2>1 DEF Tabled
<1>6. TableInv'
  <2> SUFFICES ASSUME NEW r \in Subs PROVE Tabled(r)'
    BY DEF TableInv
  <2>1. Tabled(r)
    BY DEF IInv, TableInv
  <2>2. /\ nsd' = nsd /\ live' = live /\ ended' = ended /\ sub' = sub /\ gen' = gen
        /\ \A u \in Threads : /\ thread'[u].sub = thread[u].sub
                              /\ thread'[u].held = thread[u].held
                              /\ Subscribing(u, r)' <=> Subscribing(u, r)
                              /\ u # a => thread'[u] = thread[u]
                              /\ At(u, "clear")' <=> At(u, "clear")
                              /\ At(u, "create")' <=> At(u, "create") /\ u # a
    BY <1>0, <1>2 DEF nsd, Inner, Moves, Subscribing, At
  <2> HIDE DEF s
  <2>3. CASE r # s
    <3>1. /\ r \in subs' <=> r \in subs
          /\ r \in tags' <=> r \in tags
      BY <1>0, <2>3
    <3>2. Unknown(r)' <=> Unknown(r)
      BY <2>2, <3>1 DEF Unknown
    <3>3. \A u \in Threads : thread[u].sub = r => u # a
      BY <2>3 DEF s
    <3> QED
      BY <2>1, <2>2, <3>1, <3>2, <3>3 DEF Tabled, Subscribing
  <2>4. CASE r = s
    <3>1. s \in subs' /\ s \in tags' /\ s \notin live /\ s \notin ended
      BY <1>0, <1>5 DEF Unknown
    <3>2. sub[s].run # 0 /\ Subscribing(a, s)
      <4>1. At(a, "create") /\ thread[a].sub = s
        BY <1>0 DEF s, At
      <4> QED
        BY <2>1, <2>4, <4>1 DEF Tabled
    <3>3. \A u \in Threads : thread[u].sub = s => ~At(u, "create")'
      BY <1>5, <2>2
    <3> QED
      BY <2>1, <2>2, <2>4, <3>1, <3>2, <3>3 DEF Tabled, Subscribing
  <2> QED
    BY <2>3, <2>4
<1>7. sub[s].local = 0
  BY <1>5 DEF Unknown
<1>8. /\ subs' \subseteq Subs /\ tags' \subseteq Subs
      /\ live' \subseteq Subs /\ ended' \subseteq Subs
      /\ \A r \in subs' \ subs : r = s
  BY <1>0, <1>1 DEF IInv, TypeOK, DataType
<1> HIDE DEF s
<1> QED
  BY <1>0, <1>3, <1>4, <1>6, <1>7, <1>8, InSubs, TableChanges

(* unsubscribe_from() begins a transaction of its own.                     *)
LEMMA UnsubscribeKeeps ==
    ASSUME ConstantsAssumption, IInv, NEW a \in Apps, NEW s \in Subs, Unsubscribe(a, s)
    PROVE  IInv'
<1> DEFINE f == [Idle EXCEPT !.at = "transact", !.g = gen, !.sub = s,
                             !.goal = "unsubscribe", !.zero = sub[s].zero]
<1>0. /\ thread[a].at = "idle" /\ nsd /\ s \in subs /\ a \in Threads
      /\ sub' = [sub EXCEPT ![s].zero = TRUE] /\ thread' = [thread EXCEPT ![a] = f]
      /\ UNCHANGED <<gen, recvLock, subs, tags, cache, queue, draining, history>>
      /\ UNCHANGED <<delivered, answered, refused, kept, live, ended>>
  BY DEF Unsubscribe, At, Threads, history
<1>1. gen \in Nat /\ Deque \in Nat /\ gen % 2 = 1 /\ sub[s].zero \in BOOLEAN
  BY <1>0, InThreads, InSubs DEF nsd, SubType
<1>2. /\ f \in ThreadType /\ f.at = "transact" /\ f.g = gen /\ f.sub = s
      /\ f.goal = "unsubscribe" /\ f.deque = 0 /\ f.held = {}
  BY <1>1, ConstantsAssumption DEF Idle, ThreadType, Labels, AppLabels
<1> HIDE DEF f
<1>3. /\ Moves(a) /\ thread'[a] = f /\ thread' \in [Threads -> ThreadType]
      /\ \A u \in Threads \ {a} : thread'[u] = thread[u]
  BY <1>0, <1>2, SetMoves DEF Moves
<1>4. Aside(a) /\ LockFits(a)
  BY <1>0, <1>2, <1>3 DEF Aside, LockFits, LockLabels, HandLabels, DrainLabels, LookLabels
<1>5. PlaceInv'
  <2>1. Placed(a)'
    <3>1. Deque' = Deque
      BY <1>0 DEF Deque
    <3> QED
      BY <1>0, <1>1, <1>2, <1>3, <3>1 DEF Placed, RestLabels
  <2> QED
    BY <1>0, <1>3, <2>1, PlaceOne DEF IInv
<1>6. /\ sub' \in [Subs -> SubType]
      /\ \A r \in Subs : /\ sub'[r].remote = sub[r].remote
                         /\ sub'[r].local = sub[r].local
                         /\ sub'[r].answered = sub[r].answered
                         /\ sub'[r].run = sub[r].run
  <2> DEFINE o == [sub[s] EXCEPT !.zero = TRUE]
  <2>1. /\ o \in SubType /\ o.remote = sub[s].remote /\ o.run = sub[s].run
        /\ o.local = sub[s].local /\ o.answered = sub[s].answered
    BY InSubs DEF SubType
  <2>2. sub' = [sub EXCEPT ![s] = o]
    BY <1>0
  <2> HIDE DEF o
  <2> QED
    BY <2>1, <2>2, InSubs
<1>7. TableInv'
  <2> SUFFICES ASSUME NEW r \in Subs PROVE Tabled(r)'
    BY DEF TableInv
  <2>1. Tabled(r)
    BY DEF IInv, TableInv
  <2>2. thread[a].goal = "none" /\ thread[a].sub = None /\ s # None
    BY <1>0, InThreads DEF Placed, RestLabels, ConstantsAssumption
  <2>3. /\ nsd' = nsd /\ gen' = gen /\ subs' = subs /\ tags' = tags
        /\ live' = live /\ ended' = ended /\ sub'[r].run = sub[r].run
        /\ Unknown(r)' <=> Unknown(r)
    BY <1>0, <1>6 DEF nsd, Unknown
  <2>4. \A u \in Threads : /\ At(u, "clear")' /\ r \in thread'[u].held
                                <=> At(u, "clear") /\ r \in thread[u].held
                           /\ r \in thread'[u].held => r \in thread[u].held
                           /\ Subscribing(u, r)' <=> Subscribing(u, r)
                           /\ At(u, "create")' <=> At(u, "create")
                           /\ thread'[u].sub = r => thread[u].sub = r \/ r = s
                           /\ At(u, "create")' => thread'[u].sub = thread[u].sub
    BY <1>0, <1>2, <1>3, <2>2 DEF At, Subscribing
  <2>5. r = s => /\ sub[r].run # 0
                 /\ \A u \in Threads : Subscribing(u, r) => ~At(u, "create")
    BY <1>0, <2>1 DEF Tabled, Unknown
  <2> QED
    BY <2>1, <2>3, <2>4, <2>5 DEF Tabled
<1>8. /\ subs' \subseteq Subs /\ tags' \subseteq Subs
      /\ live' \subseteq Subs /\ ended' \subseteq Subs
  BY <1>0 DEF IInv, TypeOK, DataType
<1> QED
  BY <1>0, <1>4, <1>5, <1>6, <1>7, <1>8, TableChanges

(* A thread that is done is idle, and was it before for what is said of    *)
(* its subscription.                                                       *)
LEMMA BackToIdle ==
    ASSUME ConstantsAssumption, IInv, NEW a \in Threads, a \in Apps,
           thread[a].at \in {"leave", "clear"}, thread' = [thread EXCEPT ![a] = Idle],
           gen' = gen, recvLock' = recvLock
    PROVE  /\ Moves(a) /\ thread'[a] = Idle /\ LockFits(a) /\ PlaceInv' /\ Aside(a)
           /\ \A u \in Threads \ {a} : thread'[u] = thread[u]
           /\ Idle.at = "idle" /\ Idle.goal = "none" /\ Idle.held = {} /\ Idle.sub = None
<1>1. /\ Idle \in ThreadType /\ Idle.at = "idle" /\ Idle.goal = "none" /\ Idle.held = {}
      /\ Idle.sub = None /\ Idle.g = 0 /\ Idle.deque = 0
  BY DEF Idle, ThreadType, Labels, RestLabels
<1>2. /\ Moves(a) /\ thread'[a] = Idle
      /\ \A u \in Threads \ {a} : thread'[u] = thread[u]
  BY <1>1, SetMoves DEF Moves
<1>3. LockFits(a) /\ Aside(a)
  BY <1>1, <1>2 DEF LockFits, Aside, LockLabels, HandLabels, DrainLabels, LookLabels
<1>4. PlaceInv'
  <2>1. Deque' = Deque /\ gen \in Nat /\ Deque \in Nat
    BY InThreads DEF Deque
  <2>2. Placed(a)'
    BY <1>1, <1>2, <2>1 DEF Placed, RestLabels
  <2> QED
    BY <1>2, <2>2, PlaceOne DEF IInv
<1> QED
  BY <1>1, <1>2, <1>3, <1>4

(* A routine returns: what failed is rolled back.                          *)
LEMMA LeaveKeeps ==
    ASSUME ConstantsAssumption, IInv, NEW a \in Threads, Leave(a)
    PROVE  IInv'
<1> DEFINE s == thread[a].sub
           good == thread[a].res = "ok" /\ thread[a].g = gen
<1>0. /\ thread[a].at = "leave" /\ thread' = [thread EXCEPT ![a] = Idle]
      /\ UNCHANGED <<gen, recvLock, cache, queue, draining, delivered, answered,
                     refused, kept, ended>>
  BY DEF Leave, At
<1>1. /\ a \in Apps /\ s \in Subs /\ thread[a].g % 2 = 1
      /\ sub[s].zero \in BOOLEAN /\ thread[a].zero \in BOOLEAN
  BY <1>0, InThreads, InSubs DEF AppLabels, RestLabels, Placed, SubType, ThreadType
<1>2. /\ Moves(a) /\ thread'[a] = Idle /\ LockFits(a) /\ PlaceInv' /\ Aside(a)
      /\ \A u \in Threads \ {a} : thread'[u] = thread[u]
      /\ Idle.at = "idle" /\ Idle.goal = "none" /\ Idle.held = {} /\ Idle.sub = None
  BY <1>0, <1>1, BackToIdle
<1>3. /\ sub' \in [Subs -> SubType]
      /\ \A r \in Subs : /\ sub'[r].remote = sub[r].remote
                         /\ sub'[r].local = sub[r].local
                         /\ sub'[r].answered = sub[r].answered
                         /\ sub'[r].run = sub[r].run
  <2>1. CASE sub' = sub
    BY <2>1, InSubs
  <2>2. CASE sub' = [sub EXCEPT ![s].zero = thread[a].zero]
    <3> DEFINE o == [sub[s] EXCEPT !.zero = thread[a].zero]
    <3>1. /\ o \in SubType /\ o.remote = sub[s].remote /\ o.run = sub[s].run
          /\ o.local = sub[s].local /\ o.answered = sub[s].answered
      BY <1>1, InSubs DEF SubType
    <3>2. sub' = [sub EXCEPT ![s] = o]
      BY <2>2
    <3> HIDE DEF o, s
    <3> QED
      BY <3>1, <3>2, InSubs
  <2> QED
    BY <2>1, <2>2 DEF Leave
<1>4. \/ /\ thread[a].goal = "subscribe" /\ good
         /\ live' = live \cup {s} /\ subs' = subs /\ tags' = tags
      \/ /\ thread[a].goal = "subscribe" /\ live' = live
         /\ subs' = subs \ {s} /\ tags' = tags \ {s}
      \/ thread[a].goal # "subscribe" /\ UNCHANGED <<subs, tags, live>>
  BY DEF Leave
<1>5. /\ subs' \subseteq subs /\ tags' \subseteq tags
      /\ subs' \subseteq Subs /\ tags' \subseteq Subs
      /\ live' \subseteq Subs /\ ended' \subseteq Subs
  BY <1>0, <1>1, <1>4 DEF IInv, TypeOK, DataType
<1>6. TableInv'
  <2> SUFFICES ASSUME NEW r \in Subs PROVE Tabled(r)'
    BY DEF TableInv
  <2>1. Tabled(r) /\ ended' = ended /\ nsd' = nsd /\ gen' = gen /\ sub'[r].run = sub[r].run
    BY <1>0, <1>3 DEF IInv, TableInv, nsd
  <2>2. \A u \in Threads : /\ At(u, "clear")' /\ r \in thread'[u].held
                                <=> At(u, "clear") /\ r \in thread[u].held
                           /\ r \in thread'[u].held => r \in thread[u].held
                           /\ Subscribing(u, r)' <=> Subscribing(u, r) /\ u # a
                           /\ At(u, "create")' <=> At(u, "create")
                           /\ thread'[u].sub = r => thread[u].sub = r
                           /\ At(u, "create")' => u # a /\ thread'[u] = thread[u]
    BY <1>0, <1>1, <1>2, ConstantsAssumption DEF At, Subscribing
  <2>3. CASE r = s /\ thread[a].goal = "subscribe"
    <3>1. Subscribing(a, r) /\ sub[r].run # 0 /\ ~At(a, "create")
      BY <1>0, <2>1, <2>3 DEF Subscribing, Tabled, At
    <3>2. /\ \A u \in Threads : ~Subscribing(u, r)' /\ (At(u, "create") => thread[u].sub # r)
          /\ r \in subs \cup ended /\ r \notin live
      BY <2>1, <2>2, <3>1 DEF Tabled
    <3>3. CASE good /\ live' = live \cup {s} /\ subs' = subs /\ tags' = tags
      <4>1. nsd
        BY <1>1, <3>3 DEF nsd
      <4> QED
        BY <2>1, <2>2, <2>3, <3>1, <3>2, <3>3, <4>1 DEF Tabled
    <3>4. CASE live' = live /\ subs' = subs \ {s} /\ tags' = tags \ {s}
      BY <2>1, <2>2, <2>3, <3>1, <3>2, <3>4 DEF Tabled
    <3> QED
      BY <1>4, <2>3, <3>3, <3>4
  <2>4. CASE ~(r = s /\ thread[a].goal = "subscribe")
    <3>1. ~Subscribing(a, r)
      BY <2>4 DEF Subscribing
    <3>2. /\ r \in subs' <=> r \in subs
          /\ r \in tags' <=> r \in tags
          /\ r \in live' <=> r \in live
      BY <1>4, <2>4
    <3>3. Unknown(r)' <=> Unknown(r)
      BY <1>3, <2>1, <3>2 DEF Unknown
    <3> QED
      BY <2>1, <2>2, <3>1, <3>2, <3>3 DEF Tabled
  <2> QED
    BY <2>3, <2>4
<1>7. \A r \in subs' \ subs : sub[r].local = 0
  BY <1>5
<1> QED
  BY <1>0, <1>2, <1>3, <1>5, <1>6, <1>7, TableChanges

(* _clear_subscriptions() ends what the run left.                          *)
LEMMA ClearKeeps ==
    ASSUME ConstantsAssumption, IInv, NEW a \in Threads, Clear(a)
    PROVE  IInv'
<1> DEFINE held == thread[a].held
<1>0. /\ thread[a].at = "clear" /\ thread' = [thread EXCEPT ![a] = Idle]
      /\ tags' = tags \ held
      /\ sub' = [s \in Subs |->
                    IF s \in held
                    THEN [sub[s] EXCEPT !.state = "terminated",
                                        !.status = "terminated"]
                    ELSE sub[s]]
      /\ UNCHANGED <<gen, recvLock, subs, cache, queue, draining, delivered, answered,
                     refused, kept, live, ended>>
  BY DEF Clear, At, history
<1>1. a \in Apps /\ thread[a].sub = None /\ thread[a].goal = "none"
  BY <1>0, InThreads DEF AppLabels, RestLabels, Placed
<1>2. /\ Moves(a) /\ thread'[a] = Idle /\ LockFits(a) /\ PlaceInv' /\ Aside(a)
      /\ \A u \in Threads \ {a} : thread'[u] = thread[u]
      /\ Idle.at = "idle" /\ Idle.goal = "none" /\ Idle.held = {} /\ Idle.sub = None
  BY <1>0, <1>1, BackToIdle
<1>3. /\ sub' \in [Subs -> SubType]
      /\ \A r \in Subs : /\ sub'[r].remote = sub[r].remote
                         /\ sub'[r].local = sub[r].local
                         /\ sub'[r].answered = sub[r].answered
                         /\ sub'[r].run = sub[r].run
  <2> HIDE DEF held
  <2>1. ASSUME NEW s \in Subs
        PROVE  LET o == [sub[s] EXCEPT !.state = "terminated", !.status = "terminated"]
               IN  /\ o \in SubType /\ o.remote = sub[s].remote /\ o.run = sub[s].run
                   /\ o.local = sub[s].local /\ o.answered = sub[s].answered
    BY InSubs DEF SubType
  <2>2. ASSUME NEW s \in Subs
        PROVE  /\ sub'[s] \in SubType
               /\ sub'[s].remote = sub[s].remote /\ sub'[s].run = sub[s].run
               /\ sub'[s].local = sub[s].local /\ sub'[s].answered = sub[s].answered
    <3>1. CASE s \in held
      BY <1>0, <2>1, <3>1
    <3>2. CASE s \notin held
      BY <1>0, <3>2, InSubs
    <3> QED
      BY <3>1, <3>2
  <2>3. sub' = [s \in Subs |-> sub'[s]]
    BY <1>0
  <2> QED
    BY <2>2, <2>3
<1>4. /\ subs' \subseteq Subs /\ tags' \subseteq Subs
      /\ live' \subseteq Subs /\ ended' \subseteq Subs
  BY <1>0 DEF IInv, TypeOK, DataType
<1>5. TableInv'
  <2> SUFFICES ASSUME NEW r \in Subs PROVE Tabled(r)'
    BY DEF TableInv
  <2>1. /\ Tabled(r) /\ ended' = ended /\ nsd' = nsd /\ gen' = gen
        /\ sub'[r].run = sub[r].run
        /\ subs' = subs /\ live' = live
    BY <1>0, <1>3 DEF IInv, TableInv, nsd
  <2>2. \A u \in Threads : /\ At(u, "clear")' => u # a
                           /\ u # a => thread'[u] = thread[u]
                           /\ r \in thread'[u].held => r \in thread[u].held
                           /\ Subscribing(u, r)' <=> Subscribing(u, r)
                           /\ At(u, "create")' <=> At(u, "create")
                           /\ thread'[u].sub = thread[u].sub
    BY <1>0, <1>1, <1>2 DEF At, Subscribing
  <2>3. r \in held => r \in ended /\ r \notin subs
    BY <2>1 DEF Tabled
  <2>4. Unknown(r) => Unknown(r)'
    BY <1>0, <1>3, <2>1 DEF Unknown
  <2>5. r \in tags' \ subs' => \E u \in Threads : At(u, "clear")' /\ r \in thread'[u].held
    <3> SUFFICES ASSUME r \in tags, r \notin held, r \notin subs
                 PROVE  \E u \in Threads : At(u, "clear")' /\ r \in thread'[u].held
      BY <1>0
    <3>1. PICK u \in Threads : At(u, "clear") /\ r \in thread[u].held
      BY <2>1 DEF Tabled
    <3>2. u # a
      BY <3>1
    <3> QED
      BY <2>2, <3>1, <3>2 DEF At
  <2>6. r \in subs' => r \in tags'
    BY <1>0, <2>1, <2>3 DEF Tabled
  <2> HIDE DEF held
  <2> QED
    BY <2>1, <2>2, <2>4, <2>5, <2>6 DEF Tabled
<1>6. \A r \in subs' \ subs : sub[r].local = 0
  BY <1>0
<1> HIDE DEF held
<1> QED
  BY <1>0, <1>2, <1>3, <1>4, <1>5, <1>6, TableChanges

----------------------------------------------------------------------------
(* The run begins and ends *)

(* What was delivered or answered belongs to a run that has begun.         *)
LEMMA RunsBegun ==
    ASSUME IInv, Grows, NEW k \in Notes, sub[k.sub].local > 0
    PROVE  sub'[k.sub].run # gen + 1 /\ sub'[k.sub].run > 0
<1>1. /\ sub[k.sub].run > 0 /\ sub[k.sub].run \in Nat /\ sub[k.sub].run <= gen
      /\ gen \in Nat
  BY PastRun DEF IInv, TypeOK
<1>2. sub'[k.sub].run = sub[k.sub].run
  BY <1>1 DEF Grows, Notes
<1> QED
  BY <1>1, <1>2

(* What is said of threads that go on is kept by start() and stop().       *)
LEMMA GenerationKeeps ==
    ASSUME ConstantsAssumption, IInv, NEW t \in Threads, Moves(t),
           gen' = gen + 1, sub' = sub, recvLock' = recvLock,
           UNCHANGED <<delivered, answered, live>>,
           thread[t].at = "idle", thread'[t].at \in {"loop", "clear"},
           gen + 1 <= 2 * MaxStarts, Placed(t)',
           subs' \subseteq subs, tags' = tags, ended' \subseteq Subs,
           TableInv', CacheInv', OrderInv', DrainInv', DrainLeft',
           Reported' \subseteq Reported,
           cache' \in Seq(Notes), Len(cache') <= CacheSize,
           queue' \in Seq(Notes), draining' \in BOOLEAN,
           refused' \subseteq refused, kept' \in Seq(Notes)
    PROVE  IInv'
<1>0. /\ TypeOK /\ DataType /\ PlaceInv /\ LockInv /\ HandInv /\ AnswerInv
      /\ gen \in Nat /\ Deque \in Nat
  BY InThreads DEF IInv
<1>1. DataType'
  BY <1>0 DEF DataType, Moves
<1>2. Grows
  BY <1>1, InSubs DEF Grows
<1>3. PlaceInv'
  <2> SUFFICES ASSUME NEW u \in Threads, u # t PROVE Placed(u)'
    BY DEF PlaceInv
  <2>1. Placed(u) /\ thread'[u] = thread[u] /\ thread[u] \in ThreadType
    BY <1>0 DEF PlaceInv, Moves, DataType
  <2>2. Deque <= Deque' /\ Deque' \in Nat
    BY <1>0 DEF Deque
  <2>3. thread[u].g \in Nat /\ thread[u].deque \in Nat
    BY <2>1 DEF ThreadType
  <2>4. thread[u].g <= gen' /\ thread[u].deque <= Deque'
    BY <1>0, <2>1, <2>2, <2>3 DEF Placed
  <2>5. u \notin Apps /\ u > gen' => thread[u].at = "idle"
    <3>1. u \notin Apps => u \in Nat
      BY DEF Threads, Receivers, ConstantsAssumption
    <3>2. u \notin Apps /\ u > gen' => u > gen
      BY <1>0, <3>1
    <3> QED
      BY <2>1, <3>2 DEF Placed
  <2> QED
    BY <2>1, <2>4, <2>5 DEF Placed
<1>4. LockInv'
  BY <1>0, LockStays DEF LockFits, LockLabels
<1>5. HandInv'
  <2>1. \A u \in Threads : InHand(u)' => thread'[u] = thread[u]
    BY DEF InHand, Moves
  <2> QED
    BY <1>0, <1>2, <2>1, HandStays
<1>6. AnswerInv'
  <2>1. \A k \in Reported' : k.n > 0 => k \in answered'
    BY <1>0 DEF AnswerInv
  <2>2. ASSUME NEW k \in answered PROVE sub'[k.sub].run > 0 /\ sub'[k.sub].run # gen'
    <3>1. k \in Notes /\ k.sub \in Subs
      BY <1>0 DEF DataType, Notes
    <3>2. sub[k.sub].run > 0
      BY <1>0 DEF AnswerInv
    <3>3. sub[k.sub].run <= gen /\ sub[k.sub].run \in Nat
      BY <3>1, InSubs DEF IInv, TableInv, Tabled
    <3> QED
      BY <1>0, <3>2, <3>3
  <2> QED
    BY <2>1, <2>2 DEF AnswerInv, Current
<1>7. TypeOK'
  <2>1. recvLock' \in Threads \cup {None} /\ gen' \in 0..2 * MaxStarts
    BY <1>0 DEF TypeOK, ConstantsAssumption
  <2>2. subs' \subseteq Subs /\ tags' \subseteq Subs
    BY <1>0 DEF TypeOK
  <2>3. \A s \in Subs : sub'[s].answered <= sub'[s].local /\ sub'[s].remote <= MaxNotify
    BY InSubs
  <2> QED
    BY <1>4, <2>1, <2>2, <2>3, TypesStay
<1> QED
  BY <1>1, <1>3, <1>4, <1>5, <1>6, <1>7 DEF IInv

(* start() begins a run, with the next receive thread.                     *)
LEMMA StartKeeps ==
    ASSUME ConstantsAssumption, IInv, NEW a \in Apps, Start(a)
    PROVE  IInv'
<1> SUFFICES ASSUME NEW t, t = gen + 1 PROVE IInv'
  OBVIOUS
<1> DEFINE f == [Idle EXCEPT !.at = "loop", !.g = t]
<1>0. /\ ~nsd /\ Deque < MaxStarts /\ gen' = gen + 1
      /\ thread' = [thread EXCEPT ![t] = f]
      /\ UNCHANGED <<recvLock, subs, tags, sub, cache, queue, draining, delivered,
                     answered, refused, kept, live, ended>>
      /\ t = gen'
  BY DEF Start, history
<1>1. gen \in Nat /\ Deque \in Nat /\ MaxStarts \in Nat
  BY DEF IInv, TypeOK, Deque, ConstantsAssumption
<1>2. /\ t = 2 * (Deque + 1) - 1 /\ Deque' = Deque /\ t % 2 = 1
      /\ Deque + 1 \in 1..MaxStarts
  BY <1>0, <1>1, Generations DEF Deque
<1>3. t \in Threads /\ t \notin Apps /\ t > gen /\ t \in Nat
  <2>1. 2 * (Deque + 1) - 1 \in Receivers
    BY <1>2 DEF Receivers
  <2>2. t > gen /\ t \in Nat
    BY <1>1
  <2> QED
    BY <1>2, <2>1, <2>2, ConstantsAssumption DEF Threads
<1>4. thread[t].at = "idle" /\ thread[t].goal = "none" /\ thread[t].sub = None
  BY <1>3, InThreads DEF Placed, RestLabels
<1>5. /\ f \in ThreadType /\ f.at = "loop" /\ f.g = t /\ f.sub = None
      /\ f.goal = "none" /\ f.held = {} /\ f.deque = 0
  BY <1>3 DEF Idle, ThreadType, Labels, RestLabels
<1> HIDE DEF f
<1>6. /\ Moves(t) /\ thread'[t] = f
      /\ \A u \in Threads \ {t} : thread'[u] = thread[u]
  BY <1>0, <1>3, <1>5, SetMoves DEF Moves
<1>7. Placed(t)'
  <2>1. t <= gen' /\ ~(t > gen') /\ 0 <= Deque'
    BY <1>0, <1>1, <1>2, <1>3
  <2>2. thread'[t].g = t /\ thread'[t].deque = 0 /\ thread'[t].goal = "none"
        /\ thread'[t].sub = None /\ thread'[t].at = "loop"
    BY <1>5, <1>6
  <2>3. "loop" \notin AppLabels
    BY DEF AppLabels
  <2> QED
    BY <1>3, <2>1, <2>2, <2>3 DEF Placed
<1>8. /\ DataType /\ TypeOK /\ CacheInv /\ OrderInv /\ DrainInv /\ DrainLeft
      /\ queue \in Seq(Notes) /\ cache \in Seq(Notes)
  BY DEF IInv, TypeOK
<1>9. Grows
  <2>1. DataType'
    BY <1>0, <1>6, <1>8 DEF DataType, Moves
  <2> QED
    BY <1>0, <2>1, InSubs DEF Grows
<1>10. OrderInv' /\ Reported' \subseteq Reported
  <2>1. SameCalls
    BY <1>5, <1>6 DEF SameCalls
  <2>2. \A k \in Notes : ~NewlyCurrent(k)
    BY <1>0, <1>9, RunsBegun DEF NewlyCurrent, Past
  <2> QED
    BY <1>0, <1>8, <1>9, <2>1, <2>2, OrderStays
<1>11. DrainInv'
  <2>1. \A u \in Threads : Drains(u)' => Drains(u)
    BY <1>2, <1>5, <1>6 DEF Drains, DrainLabels
  <2> QED
    BY <1>0, <1>8, <2>1, DrainStays
<1>12. DrainLeft'
  <2> SUFFICES ASSUME gen + 1 <= 1
               PROVE  /\ draining => \E u \in Threads : thread'[u].at \in DrainLabels
                      /\ queue # <<>> => \E u \in Threads : thread'[u].at \in LookLabels
    BY <1>0 DEF DrainLeft, LookLabels
  <2>1. gen <= 1
    BY <1>1
  <2>2. \A u \in Threads : thread[u].at \in LookLabels => thread'[u] = thread[u]
    BY <1>4, <1>6 DEF LookLabels, LockLabels, DrainLabels
  <2>3. DrainLabels \subseteq LookLabels
    BY DEF LookLabels
  <2> QED
    BY <1>8, <2>1, <2>2, <2>3 DEF DrainLeft, LookLabels
<1>13. CacheInv'
  BY <1>0, <1>8, <1>9, CacheStays
<1>14. TableInv'
  <2> SUFFICES ASSUME NEW r \in Subs PROVE Tabled(r)'
    BY DEF TableInv
  <2>1. Tabled(r) /\ sub[r].run \in Nat
    BY InSubs DEF IInv, TableInv
  <2>2. \A u \in Threads : /\ At(u, "clear")' /\ r \in thread'[u].held
                                <=> At(u, "clear") /\ r \in thread[u].held
                           /\ r \in thread'[u].held => r \in thread[u].held
                           /\ Subscribing(u, r)' <=> Subscribing(u, r)
                           /\ At(u, "create")' <=> At(u, "create")
                           /\ thread'[u].sub = thread[u].sub
    BY <1>4, <1>5, <1>6 DEF At, Subscribing
  <2>3. Unknown(r) => Unknown(r)'
    BY <1>0 DEF Unknown
  <2>4. r \in live' \cap subs' => nsd'
    BY <1>0, <2>1 DEF Tabled
  <2>5. sub'[r].run <= gen'
    BY <1>0, <1>1, <2>1 DEF Tabled
  <2> QED
    BY <1>0, <2>1, <2>2, <2>3, <2>4, <2>5 DEF Tabled
<1>15. gen + 1 <= 2 * MaxStarts
  BY <1>0, <1>1, <1>2
<1>16. /\ cache' \in Seq(Notes) /\ Len(cache') <= CacheSize
       /\ queue' \in Seq(Notes) /\ draining' \in BOOLEAN
       /\ refused' \subseteq refused /\ kept' \in Seq(Notes)
       /\ ended' \subseteq Subs
  BY <1>0, <1>8 DEF TypeOK, DataType
<1>17. /\ thread'[t].at \in {"loop", "clear"} /\ subs' \subseteq subs
       /\ sub' = sub /\ recvLock' = recvLock /\ tags' = tags
       /\ UNCHANGED <<delivered, answered, live>>
  BY <1>0, <1>5, <1>6
<1>18. gen' = gen + 1
  BY <1>0
<1> QED
  BY <1>3, <1>4, <1>6, <1>7, <1>10, <1>11, <1>12, <1>13, <1>14, <1>15, <1>16, <1>17,
     <1>18, GenerationKeeps

(* stop() detaches it, with its table, its cache and its queue.            *)
LEMMA StopKeeps ==
    ASSUME ConstantsAssumption, IInv, NEW a \in Apps, Stop(a)
    PROVE  IInv'
<1> DEFINE f == [Idle EXCEPT !.at = "clear", !.held = subs]
<1>0. /\ thread[a].at = "idle" /\ nsd /\ a \in Threads /\ gen' = gen + 1
      /\ thread' = [thread EXCEPT ![a] = f]
      /\ subs' = {} /\ cache' = <<>> /\ queue' = <<>> /\ draining' = FALSE
      /\ ended' = ended \cup subs /\ refused' = {} /\ kept' = <<>>
      /\ UNCHANGED <<recvLock, tags, sub, delivered, answered, live>>
  BY DEF Stop, At, Threads
<1>1. /\ gen \in Nat /\ Deque \in Nat /\ MaxStarts \in Nat /\ gen <= 2 * MaxStarts
      /\ gen % 2 = 1 /\ Deque' = Deque + 1 /\ ~nsd'
  <2>1. gen \in Nat /\ gen <= 2 * MaxStarts /\ MaxStarts \in Nat
    BY DEF IInv, TypeOK, ConstantsAssumption
  <2> QED
    BY <1>0, <2>1, Generations DEF nsd, Deque
<1>2. gen + 1 <= 2 * MaxStarts
  BY <1>1
<1>3. thread[a].goal = "none" /\ thread[a].sub = None
  BY <1>0, InThreads DEF Placed, RestLabels
<1>4. /\ DataType /\ TypeOK /\ OrderInv /\ queue \in Seq(Notes) /\ subs \subseteq Subs
      /\ ended \subseteq Subs
  BY DEF IInv, TypeOK, DataType
<1>5. /\ f \in ThreadType /\ f.at = "clear" /\ f.g = 0 /\ f.sub = None
      /\ f.goal = "none" /\ f.held = subs /\ f.deque = 0
  BY <1>4 DEF Idle, ThreadType, Labels, RestLabels
<1> HIDE DEF f
<1>6. /\ Moves(a) /\ thread'[a] = f
      /\ \A u \in Threads \ {a} : thread'[u] = thread[u]
  BY <1>0, <1>5, SetMoves DEF Moves
<1>7. Placed(a)'
  BY <1>0, <1>1, <1>5, <1>6 DEF Placed, RestLabels
<1>8. Grows
  <2>1. DataType'
    BY <1>0, <1>4, <1>6 DEF DataType, Moves
  <2> QED
    BY <1>0, <2>1, InSubs DEF Grows
<1>9. Len(queue') = 0 /\ Len(cache') = 0 /\ Len(kept') = 0
  BY <1>0
<1>10. \A k \in Reported' : k \in Reported
  <2>1. DOMAIN queue' = {}
    BY <1>0
  <2>2. \A u \in Threads : thread'[u].at = "call" => thread'[u] = thread[u]
    BY <1>5, <1>6
  <2> QED
    BY <1>0, <2>1, <2>2, Reporting, ReportingNext DEF At
<1>11. Reported \subseteq Notes
  <2>1. \A i \in DOMAIN delivered : delivered[i] \in Notes
    BY <1>4, ElementOfSeq DEF DataType
  <2>2. \A i \in DOMAIN queue : queue[i] \in Notes
    BY <1>4, ElementOfSeq
  <2>3. \A u \in Threads : At(u, "call") => thread[u].note \in Notes
    BY <1>4 DEF OrderInv
  <2> QED
    BY <2>1, <2>2, <2>3, Reporting
<1>12. OrderInv'
  <2>1. \A k \in Reported' : Past(k)'
    BY <1>4, <1>8, <1>10, <1>11, PastGrows DEF OrderInv
  <2>2. \A i, j \in 1..Len(delivered') : i < j => Above(delivered'[j], delivered'[i])
    BY <1>0, <1>4 DEF OrderInv
  <2>3. \A j \in 1..Len(queue') : FALSE
    BY <1>9
  <2>4. ASSUME NEW u \in Threads, thread'[u].at = "call", NEW c, c = thread'[u].note
        PROVE  c \in Notes /\ ~Current(c)'
    <3>1. At(u, "call") /\ c = thread[u].note
      BY <1>5, <1>6, <2>4 DEF At
    <3>2. c \in Reported /\ c \in Notes
      BY <1>4, <3>1, Reporting DEF OrderInv
    <3>3. sub'[c.sub].run # gen + 1
      BY <1>4, <1>8, <3>2, RunsBegun DEF OrderInv, Past
    <3> QED
      BY <1>0, <3>2, <3>3 DEF Current
  <2> QED
    BY <2>1, <2>2, <2>3, <2>4 DEF OrderInv, At, Above, Current
<1>13. DrainInv'
  <2>1. ASSUME NEW u \in Threads PROVE ~Drains(u)'
    <3>1. thread[u].deque <= Deque /\ thread[u].deque \in Nat
      BY InThreads DEF ThreadType
    <3>2. thread'[u].deque # Deque'
      BY <1>1, <1>5, <1>6, <3>1
    <3> QED
      BY <3>2 DEF Drains
  <2> QED
    BY <2>1 DEF DrainInv
<1>14. DrainLeft'
  BY <1>0, <1>1 DEF DrainLeft
<1>15. CacheInv'
  BY <1>0, <1>9 DEF CacheInv
<1>16. TableInv'
  <2> SUFFICES ASSUME NEW r \in Subs PROVE Tabled(r)'
    BY DEF TableInv
  <2>1. Tabled(r) /\ sub[r].run \in Nat
    BY InSubs DEF IInv, TableInv
  <2>2. \A u \in Threads : /\ u # a => thread'[u] = thread[u]
                           /\ At(u, "clear") => u # a
                           /\ At(u, "create")' <=> At(u, "create")
                           /\ Subscribing(u, r)' <=> Subscribing(u, r)
                           /\ thread'[u].sub = thread[u].sub
    BY <1>0, <1>3, <1>5, <1>6 DEF At, Subscribing
  <2>3. /\ r \notin subs' /\ gen' = gen + 1 /\ sub' = sub
        /\ r \in tags' <=> r \in tags
        /\ r \in live' <=> r \in live
        /\ r \in ended' <=> r \in ended \/ r \in subs
    BY <1>0
  <2>4. Unknown(r) => Unknown(r)'
    BY <2>3 DEF Unknown
  <2>5. sub'[r].run <= gen'
    BY <1>1, <2>1, <2>3 DEF Tabled
  <2>6. r \in tags' \ subs' => \E u \in Threads : At(u, "clear")' /\ r \in thread'[u].held
    <3>1. CASE r \in subs
      <4>1. At(a, "clear")' /\ r \in thread'[a].held
        BY <1>5, <1>6, <3>1 DEF At
      <4> QED
        BY <1>0, <4>1
    <3>2. CASE r \in tags \ subs
      <4>1. PICK u \in Threads : At(u, "clear") /\ r \in thread[u].held
        BY <2>1, <3>2 DEF Tabled
      <4> QED
        BY <2>2, <4>1 DEF At
    <3> QED
      BY <2>3, <3>1, <3>2
  <2>7. \A u \in Threads : r \in thread'[u].held => r \in ended'
    <3> SUFFICES ASSUME NEW u \in Threads, r \in thread'[u].held PROVE r \in ended'
      OBVIOUS
    <3>1. CASE u = a
      BY <1>0, <1>5, <1>6, <3>1
    <3>2. CASE u # a
      BY <2>1, <2>2, <2>3, <3>2 DEF Tabled
    <3> QED
      BY <3>1, <3>2
  <2> QED
    BY <2>1, <2>2, <2>3, <2>4, <2>5, <2>6, <2>7 DEF Tabled
<1>17. /\ cache' \in Seq(Notes) /\ Len(cache') <= CacheSize
       /\ queue' \in Seq(Notes) /\ draining' \in BOOLEAN
       /\ refused' \subseteq refused /\ kept' \in Seq(Notes)
       /\ ended' \subseteq Subs /\ subs' \subseteq subs
       /\ Reported' \subseteq Reported
  <2>1. CacheSize \in Nat
    BY ConstantsAssumption
  <2>2. cache' \in Seq(Notes) /\ queue' \in Seq(Notes) /\ kept' \in Seq(Notes)
    BY <1>0
  <2>3. Len(cache') <= CacheSize
    BY <1>9, <2>1
  <2>4. Reported' \subseteq Reported
    BY <1>10
  <2> QED
    BY <1>0, <1>4, <2>2, <2>3, <2>4
<1> QED
  BY <1>0, <1>2, <1>5, <1>6, <1>7, <1>12, <1>13, <1>14, <1>15, <1>16, <1>17,
     GenerationKeeps

----------------------------------------------------------------------------
(* The theorems *)

(* The invariant holds before the first start().                           *)
LEMMA InitInv == ASSUME ConstantsAssumption, Init PROVE IInv
<1>1. /\ Idle \in ThreadType /\ Idle.at = "idle" /\ Idle.goal = "none"
      /\ Idle.held = {} /\ Idle.sub = None /\ Idle.g = 0 /\ Idle.deque = 0
  BY DEF Idle, ThreadType, Labels, RestLabels
<1>2. /\ Fresh \in SubType /\ Fresh.run = 0 /\ Fresh.local = 0
      /\ Fresh.answered = 0 /\ Fresh.remote = 0
  BY DEF Fresh, SubType
<1>3. \A t \in Threads : thread[t] = Idle
  BY DEF Init
<1>4. \A s \in Subs : sub[s] = Fresh
  BY DEF Init
<1>5. Deque = 0
  BY DEF Init, Deque
<1> HIDE DEF Idle, Fresh
<1>6. TypeOK
  <2>1. /\ MaxStarts \in Nat /\ MaxNotify \in Nat /\ CacheSize \in Nat
        /\ 0 \in 0..2 * MaxStarts
    BY ConstantsAssumption
  <2>2. \A s \in Subs : sub[s].answered <= sub[s].local /\ sub[s].remote <= MaxNotify
    BY <1>2, <1>4, <2>1
  <2>3. /\ cache \in Seq(Notes) /\ Len(cache) <= CacheSize
        /\ queue \in Seq(Notes) /\ draining \in BOOLEAN
    <3>1. cache = <<>> /\ queue = <<>> /\ draining = FALSE
      BY DEF Init
    <3>2. Len(cache) <= CacheSize
      <4>1. Len(cache) = 0
        BY <3>1
      <4> QED
        BY <2>1, <4>1
    <3>3. cache \in Seq(Notes) /\ queue \in Seq(Notes)
      BY <3>1
    <3> QED
      BY <3>1, <3>2, <3>3
  <2> QED
    BY <2>1, <2>2, <2>3 DEF Init, TypeOK
<1>7. DataType
  BY <1>1, <1>2 DEF Init, DataType
<1>8. PlaceInv
  BY <1>1, <1>3, <1>5 DEF Init, PlaceInv, Placed, AppLabels, RestLabels
<1>9. LockInv
  <2>1. \A t \in Threads : t # None
    BY ConstantsAssumption DEF Threads, Receivers
  <2> QED
    BY <1>1, <1>3, <2>1 DEF Init, LockInv, LockLabels
<1>10. TableInv
  <2> SUFFICES ASSUME NEW s \in Subs PROVE Tabled(s)
    BY DEF TableInv
  <2>1. s # None
    BY ConstantsAssumption
  <2> QED
    BY <1>1, <1>2, <1>3, <1>4, <2>1 DEF Init, Tabled, Unknown, Subscribing, At
<1>11. HandInv
  BY <1>1, <1>3 DEF HandInv, InHand
<1>12. CacheInv
  BY DEF Init, CacheInv
<1>13. Reported = {}
  <2>1. DOMAIN delivered = {} /\ DOMAIN queue = {}
    BY DEF Init
  <2>2. \A k : k \notin Reported
    BY <1>1, <1>3, <2>1, Reporting DEF At
  <2> QED
    BY <2>2
<1>14. OrderInv
  BY <1>1, <1>3, <1>13 DEF Init, OrderInv, At
<1>15. DrainInv
  BY <1>1, <1>3 DEF DrainInv, Drains, DrainLabels
<1>16. AnswerInv /\ DrainLeft
  BY <1>13 DEF Init, AnswerInv, DrainLeft
<1> QED
  BY <1>6, <1>7, <1>8, <1>9, <1>10, <1>11, <1>12, <1>14, <1>15, <1>16 DEF IInv

(* A step that changes nothing keeps the invariant.                        *)
LEMMA StutterInv == ASSUME IInv, UNCHANGED vars PROVE IInv'
<1>1. /\ UNCHANGED <<gen, recvLock, subs, tags, sub, cache, queue, draining, thread>>
      /\ UNCHANGED <<delivered, answered, refused, kept, live, ended>>
  BY DEF vars, history
<1>2. TypeOK' /\ DataType'
  BY <1>1 DEF IInv, TypeOK, DataType
<1>3. PlaceInv' /\ LockInv'
  BY <1>1 DEF IInv, PlaceInv, Placed, Deque, LockInv
<1>4. TableInv'
  BY <1>1 DEF IInv, TableInv, Tabled, Unknown, Subscribing, At, nsd
<1>5. HandInv'
  BY <1>1 DEF IInv, HandInv, InHand, Reported, Above, At
<1>6. CacheInv' /\ DrainInv' /\ DrainLeft'
  BY <1>1 DEF IInv, CacheInv, Past, DrainInv, Drains, Deque, DrainLeft
<1>7. OrderInv'
  BY <1>1 DEF IInv, OrderInv, Past, Reported, Above, Current, At, Deque
<1>8. AnswerInv'
  BY <1>1 DEF IInv, AnswerInv, Reported, Current, At
<1> QED
  BY <1>2, <1>3, <1>4, <1>5, <1>6, <1>7, <1>8 DEF IInv

(* Every step keeps the invariant.                                         *)
LEMMA NextInv == ASSUME ConstantsAssumption, IInv, [Next]_vars PROVE IInv'
<1>1. ASSUME NEW a \in Apps, Start(a) \/ Stop(a) PROVE IInv'
  BY <1>1, StartKeeps, StopKeeps
<1>2. ASSUME NEW a \in Apps, NEW s \in Subs, Subscribe(a, s) \/ Unsubscribe(a, s)
      PROVE  IInv'
  BY <1>2, SubscribeKeeps, UnsubscribeKeeps
<1>3. ASSUME NEW t \in Threads, NEW s \in Subs, NEW code \in Codes,
             ReadResponse(t, s, code)
      PROVE  IInv'
  <2>1. CASE t \in Apps /\ thread[t].sub = s
    BY <1>3, <2>1, AnsweredKeeps
  <2>2. CASE ~(t \in Apps /\ thread[t].sub = s)
    BY <1>3, <2>2, LateKeeps
  <2> QED
    BY <2>1, <2>2
<1>4. ASSUME NEW t \in Threads, NEW s \in Subs, NEW n \in 1..MaxNotify,
             ReadNotify(t, s, n)
      PROVE  IInv'
  BY <1>4, ReadNotifyKeeps
<1>5. ASSUME NEW t \in Threads, Take(t) PROVE IInv'
  <2>1. CASE thread[t].deque # Deque \/ queue = <<>>
    <3>1. /\ thread[t].at = "take" /\ Go(t, "yield")
          /\ UNCHANGED <<gen, recvLock, subs, tags, sub, cache, queue, draining,
                         history>>
      BY <1>5, <2>1 DEF Take, At
    <3> QED
      BY <3>1, TakeNothingKeeps
  <2>2. CASE ~(thread[t].deque # Deque \/ queue = <<>>)
    BY <1>5, <2>2, TakeEventKeeps
  <2> QED
    BY <2>1, <2>2
<1>6. ASSUME NEW t \in Threads,
             \/ Clear(t) \/ Create(t) \/ Transact(t) \/ Ask(t) \/ TimeOut(t)
             \/ Leave(t) \/ Loop(t) \/ ReadNothing(t) \/ Release(t)
      PROVE  IInv'
  BY <1>6, ClearKeeps, CreateKeeps, AskKeeps, LeaveKeeps, CalmStepKeeps
<1>7. ASSUME NEW t \in Threads,
             \/ Answer(t) \/ Remember(t) \/ Emit(t) \/ Drain(t) \/ Claim(t)
             \/ Call(t) \/ Yield(t)
      PROVE  IInv'
  BY <1>7, AnswerKeeps, RememberKeeps, EmitKeeps, DrainKeeps, ClaimKeeps,
     CallKeeps, YieldKeeps
<1>8. CASE UNCHANGED vars
  BY <1>8, StutterInv
<1> QED
  BY <1>1, <1>2, <1>3, <1>4, <1>5, <1>6, <1>7, <1>8 DEF Next, Step

(* The inductive invariant, in every reachable state.                      *)
THEOREM Invariant == Spec => []IInv
<1>1. Init => IInv
  BY ConstantsAssumption, InitInv
<1>2. IInv /\ [Next]_vars => IInv'
  BY ConstantsAssumption, NextInv
<1> QED
  BY <1>1, <1>2, PTL DEF Spec

(* Every variable has a value of its kind; recvLock belongs to a thread    *)
(* that is in the code it guards.                                          *)
THEOREM TypeCorrect == Spec => []TypeOK
<1>1. IInv => TypeOK
  BY DEF IInv
<1> QED
  BY <1>1, Invariant, PTL

(* Events reach the application in the order of the notifier's CSeq, each  *)
(* at most once, whichever threads read and call back.                     *)
THEOREM EventsInOrder == Spec => []DeliveredInOrder
<1>1. IInv => DeliveredInOrder
  <2> SUFFICES ASSUME IInv, NEW i \in 1..Len(delivered), NEW j \in 1..Len(delivered),
                      i < j, delivered[i].sub = delivered[j].sub,
                      delivered[i].n > 0, delivered[j].n > 0
               PROVE  delivered[i].n < delivered[j].n
    BY DEF DeliveredInOrder
  <2>1. Above(delivered[j], delivered[i])
    BY DEF IInv, OrderInv
  <2> QED
    BY <2>1 DEF Above
<1> QED
  BY <1>1, Invariant, PTL

(* A NOTIFY of the run is reported exactly when it was answered with 200.  *)
THEOREM AnsweredIsReported == Spec => []ReportedIffAnswered
<1>1. IInv => ReportedIffAnswered
  <2> SUFFICES ASSUME IInv, \A t \in Threads : ~InHand(t), nsd,
                      NEW s \in Subs, NEW n \in 1..MaxNotify, sub[s].run = gen
               PROVE  Note(s, n) \in answered <=> Note(s, n) \in Reported
    BY DEF ReportedIffAnswered
  <2> DEFINE k == Note(s, n)
  <2>1. k.n > 0 /\ Current(k)
    BY DEF Note, Current
  <2> HIDE DEF k
  <2>2. k \in Reported => k \in answered
    BY <2>1 DEF IInv, AnswerInv
  <2>3. k \in answered => k \in Reported
    BY <2>1 DEF IInv, AnswerInv, InHand
  <2> QED
    BY <2>2, <2>3 DEF k
<1> QED
  BY <1>1, Invariant, PTL

(* None of the last CacheSize NOTIFYs that were remembered is refused when *)
(* it is repeated.                                                         *)
THEOREM RepeatsAlike == Spec => []RepeatsAnsweredAlike
<1>1. IInv => RepeatsAnsweredAlike
  <2> SUFFICES ASSUME IInv, NEW i \in 1..Len(kept), i > Len(kept) - CacheSize
               PROVE  kept[i] \notin refused
    BY DEF RepeatsAnsweredAlike
  <2>1. /\ cache \in Seq(Notes) /\ kept \in Seq(Notes) /\ CacheInv
        /\ CacheSize \in Nat
    BY ConstantsAssumption DEF IInv, TypeOK, DataType
  <2> DEFINE j == i - (Len(kept) - Len(cache))
  <2>2. j \in 1..Len(cache) /\ Len(kept) - Len(cache) + j = i
    BY <2>1 DEF CacheInv
  <2> QED
    BY <2>1, <2>2 DEF CacheInv
<1> QED
  BY <1>1, Invariant, PTL

(* Once everyone is through, no event of the first run is left.            *)
THEOREM FirstRunIsDrained == Spec => []NothingLeftToDeliver
<1>1. IInv => NothingLeftToDeliver
  <2> SUFFICES ASSUME IInv, Quiet, gen = 1, queue # <<>> PROVE FALSE
    BY DEF NothingLeftToDeliver
  <2>1. PICK t \in Threads : thread[t].at \in LookLabels
    BY DEF IInv, DrainLeft, LookLabels
  <2>2. thread[t].at \in {"idle", "loop"}
    BY DEF Quiet
  <2> QED
    BY <2>1, <2>2 DEF LookLabels, LockLabels, DrainLabels
<1> QED
  BY <1>1, Invariant, PTL

(* Once everyone is through, the table, the tags and the outcomes agree.   *)
THEOREM TableFollowsOutcome == Spec => []TableMatchesOutcome
<1>1. IInv => TableMatchesOutcome
  <2> SUFFICES ASSUME IInv, Quiet
               PROVE  subs = tags /\ subs = live \ ended /\ (~nsd => subs = {})
    BY DEF TableMatchesOutcome
  <2>1. /\ subs \subseteq Subs /\ tags \subseteq Subs /\ live \subseteq Subs
        /\ ended \subseteq Subs
    BY DEF IInv, TypeOK, DataType
  <2>2. \A t \in Threads : ~At(t, "clear") /\ thread[t].goal = "none"
    <3> SUFFICES ASSUME NEW t \in Threads
                 PROVE  ~At(t, "clear") /\ thread[t].goal = "none"
      OBVIOUS
    <3>1. thread[t].at \in {"idle", "loop"}
      BY DEF Quiet
    <3> QED
      BY <3>1, InThreads DEF Placed, RestLabels, At
  <2>3. ASSUME NEW s \in Subs
        PROVE  /\ s \in subs <=> s \in tags
               /\ s \in subs <=> s \in live \ ended
               /\ s \in subs => nsd
    <3>1. Tabled(s) /\ \A t \in Threads : ~Subscribing(t, s)
      BY <2>2 DEF IInv, TableInv, Subscribing
    <3> QED
      BY <2>2, <3>1 DEF Tabled
  <2> QED
    BY <2>1, <2>3
<1> QED
  BY <1>1, Invariant, PTL
=============================================================================
