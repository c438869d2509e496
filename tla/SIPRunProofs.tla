---------------------------- MODULE SIPRunProofs ----------------------------
(***************************************************************************)
(* Proofs about SIPRun: the inductive invariant IInv, and from it that a   *)
(* run that ends leaves no socket and no register thread, that a run that  *)
(* is on registers again, and that the phone says REGISTERED only of a run *)
(* whose own REGISTER was accepted.                                        *)
(***************************************************************************)
EXTENDS SIPRun, SequenceTheorems, TLAPS

----------------------------------------------------------------------------
(* Stacks *)

(* The frames new take the place of the one on top.                        *)
LEMMA PutSeq ==
    ASSUME NEW S, NEW s \in Seq(S), s # <<>>, NEW new \in Seq(S)
    PROVE  /\ new \o Tail(s) \in Seq(S)
           /\ Len(new \o Tail(s)) = Len(new) + Len(s) - 1
           /\ \A i \in 1..Len(new) : (new \o Tail(s))[i] = new[i]
           /\ \A i \in 2..Len(s) : (new \o Tail(s))[i + Len(new) - 1] = s[i]
<1>1. /\ Tail(s) \in Seq(S) /\ Len(Tail(s)) = Len(s) - 1
      /\ \A i \in 1..Len(Tail(s)) : Tail(s)[i] = s[i + 1]
  BY HeadTailProperties
<1>2. Len(new) \in Nat /\ Len(s) \in Nat
  BY LenProperties
<1>3. /\ new \o Tail(s) \in Seq(S)
      /\ Len(new \o Tail(s)) = Len(new) + Len(Tail(s))
      /\ \A i \in 1..Len(new) + Len(Tail(s)) : (new \o Tail(s))[i] =
            IF i <= Len(new) THEN new[i] ELSE Tail(s)[i - Len(new)]
  BY <1>1, ConcatProperties
<1>4. \A i \in 2..Len(s) : (new \o Tail(s))[i + Len(new) - 1] = s[i]
  <2> SUFFICES ASSUME NEW i \in 2..Len(s)
               PROVE  (new \o Tail(s))[i + Len(new) - 1] = s[i]
    OBVIOUS
  <2> DEFINE k == i + Len(new) - 1
  <2>1. k \in 1..Len(new) + Len(Tail(s)) /\ ~(k <= Len(new))
    BY <1>1, <1>2
  <2>2. (new \o Tail(s))[k] = Tail(s)[k - Len(new)]
    BY <1>3, <2>1
  <2>3. k - Len(new) \in 1..Len(Tail(s)) /\ k - Len(new) + 1 = i
    BY <1>1, <1>2
  <2>4. Tail(s)[k - Len(new)] = s[k - Len(new) + 1]
    BY <1>1, <2>3
  <2> QED
    BY <2>2, <2>3, <2>4
<1> QED
  BY <1>1, <1>2, <1>3, <1>4

(* The stack of t changes at its top: k frames for one.                    *)
Moves(t, k) ==
    /\ k \in 0..2
    /\ stack' \in [Threads -> Seq(FrameType)]
    /\ \A u \in Threads \ {t} : stack'[u] = stack[u]
    /\ Len(stack[t]) \in Nat \ {0} /\ Top(t) = stack[t][1]
    /\ Len(stack'[t]) = Len(stack[t]) + k - 1
    /\ \A i \in 2..Len(stack[t]) : stack'[t][i + k - 1] = stack[t][i]

(* The stack as the model writes it: a frame replaced, one put on it, one  *)
(* taken off.                                                              *)
LEMMA StackMoves ==
    ASSUME StackType, NEW t \in Threads, stack[t] # <<>>,
           NEW new \in Seq(FrameType), Len(new) \in 0..2,
           stack' = [stack EXCEPT ![t] = new \o Tail(stack[t])]
    PROVE  /\ Moves(t, Len(new))
           /\ \A i \in 1..Len(new) : stack'[t][i] = new[i]
<1>1. stack[t] \in Seq(FrameType) /\ stack'[t] = new \o Tail(stack[t])
  BY DEF StackType
<1>2. /\ stack'[t] \in Seq(FrameType)
      /\ Len(stack'[t]) = Len(new) + Len(stack[t]) - 1
      /\ \A i \in 1..Len(new) : stack'[t][i] = new[i]
      /\ \A i \in 2..Len(stack[t]) : stack'[t][i + Len(new) - 1] = stack[t][i]
  <2> DEFINE r == new \o Tail(stack[t])
  <2>1. /\ r \in Seq(FrameType)
        /\ Len(r) = Len(new) + Len(stack[t]) - 1
        /\ \A i \in 1..Len(new) : r[i] = new[i]
        /\ \A i \in 2..Len(stack[t]) : r[i + Len(new) - 1] = stack[t][i]
    BY <1>1, PutSeq
  <2>2. stack'[t] = r
    BY <1>1
  <2> HIDE DEF r
  <2> QED
    BY <2>1, <2>2
<1>3. Len(stack[t]) \in Nat \ {0}
  BY <1>1, EmptySeq
<1>4. Top(t) = stack[t][1]
  BY DEF Top
<1>5. stack' \in [Threads -> Seq(FrameType)]
  BY <1>1, <1>2 DEF StackType
<1>6. \A u \in Threads \ {t} : stack'[u] = stack[u]
  BY DEF StackType
<1>7. Len(stack'[t]) = Len(stack[t]) + Len(new) - 1
  BY <1>2, <1>3
<1> QED
  BY <1>2, <1>3, <1>4, <1>5, <1>6, <1>7 DEF Moves

(* A frame replaced: the stack keeps its length.                           *)
LEMMA ReplaceMoves ==
    ASSUME StackType, NEW t \in Threads, stack[t] # <<>>,
           NEW f \in FrameType, Replace(t, f)
    PROVE  Moves(t, 1) /\ stack'[t][1] = f
<1> DEFINE new == <<f>>
<1>1. new \in Seq(FrameType) /\ Len(new) = 1 /\ new[1] = f
  OBVIOUS
<1>4. Len(new) \in 0..2
  BY <1>1
<1>2. stack' = [stack EXCEPT ![t] = new \o Tail(stack[t])]
  BY DEF Replace
<1> HIDE DEF new
<1>3. Moves(t, Len(new)) /\ \A i \in 1..Len(new) : stack'[t][i] = new[i]
  BY <1>1, <1>2, <1>4, StackMoves, Zenon
<1> QED
  BY <1>1, <1>3

(* A routine called: its frame on top, the caller's below it, to go on at  *)
(* label.                                                                  *)
LEMMA InvokeMoves ==
    ASSUME StackType, NEW t \in Threads, stack[t] # <<>>,
           NEW label \in Labels, NEW f \in FrameType, Invoke(t, label, f)
    PROVE  /\ Moves(t, 2) /\ stack'[t][1] = f
           /\ stack'[t][2] = [Top(t) EXCEPT !.at = label]
<1> DEFINE e == [Top(t) EXCEPT !.at = label]
           new == <<f, e>>
<1>1. Top(t) \in FrameType
  BY HeadTailProperties DEF Top, StackType
<1>2. e \in FrameType
  BY <1>1 DEF FrameType
<1>3. stack' = [stack EXCEPT ![t] = new \o Tail(stack[t])]
  BY DEF Invoke
<1> HIDE DEF e
<1>4. /\ new \in Seq(FrameType) /\ Len(new) = 2
      /\ new[1] = f /\ new[2] = e
  BY <1>2
<1> HIDE DEF new
<1>5. Len(new) \in 0..2
  BY <1>4
<1>6. Moves(t, Len(new)) /\ \A i \in 1..Len(new) : stack'[t][i] = new[i]
  BY <1>3, <1>4, <1>5, StackMoves, Zenon
<1> QED
  BY <1>4, <1>6 DEF e

(* A routine left: its frame is gone, the others stay.                     *)
LEMMA LeaveMoves ==
    ASSUME StackType, NEW t \in Threads, stack[t] # <<>>, Leave(t)
    PROVE  Moves(t, 0)
<1> DEFINE new == <<>>
<1>1. new \in Seq(FrameType) /\ Len(new) = 0
  OBVIOUS
<1>2. Tail(stack[t]) \in Seq(FrameType)
  BY HeadTailProperties DEF StackType
<1>3. stack' = [stack EXCEPT ![t] = new \o Tail(stack[t])]
  BY <1>2, ConcatEmptySeq DEF Leave
<1> HIDE DEF new
<1>4. Len(new) \in 0..2
  BY <1>1
<1>5. Moves(t, Len(new))
  BY <1>1, <1>3, <1>4, StackMoves, Zenon
<1> QED
  BY <1>1, <1>5

----------------------------------------------------------------------------
(* What a step may put on a stack *)

(* Where the frames under the top are after the step, and were before it.  *)
LEMMA Shift ==
    ASSUME NEW t \in Threads, NEW k, Moves(t, k)
    PROVE  /\ \A i \in 1..Len(stack'[t]) : i > k =>
                 /\ i - k + 1 \in 2..Len(stack[t])
                 /\ stack'[t][i] = stack[t][i - k + 1]
           /\ \A i \in 2..Len(stack[t]) :
                 /\ i + k - 1 \in 1..Len(stack'[t]) /\ i + k - 1 > k
                 /\ stack'[t][i + k - 1] = stack[t][i]
<1> DEFINE s == stack[t]
           r == stack'[t]
<1>1. /\ k \in 0..2 /\ Len(s) \in Nat \ {0} /\ Len(r) = Len(s) + k - 1
      /\ \A i \in 2..Len(s) : r[i + k - 1] = s[i]
  BY DEF Moves
<1> HIDE DEF s, r
<1>2. ASSUME NEW i \in 1..Len(r), i > k
      PROVE  i - k + 1 \in 2..Len(s) /\ r[i] = s[i - k + 1]
  <2> DEFINE j == i - k + 1
  <2>1. j \in 2..Len(s) /\ j + k - 1 = i
    BY <1>1, <1>2
  <2>2. r[j + k - 1] = s[j]
    BY <1>1, <2>1
  <2> QED
    BY <2>1, <2>2
<1>3. ASSUME NEW i \in 2..Len(s)
      PROVE  i + k - 1 \in 1..Len(r) /\ i + k - 1 > k
  BY <1>1
<1> QED
  BY <1>1, <1>2, <1>3 DEF s, r

(* The new frames keep the way routines nest.                              *)
NestFits(t, k) ==
    \A i \in 1..k :
        /\ stack'[t][i].at \in {"delay", "loop"} => k = 1 /\ Len(stack[t]) = 1
        /\ stack'[t][i].at = "received" => i = k /\ Len(stack[t]) = 1
        /\ stack'[t][i].at \in EarlyLabels =>
              /\ Top(t).at \in EarlyLabels
              /\ \A j \in 1..k :
                    j > i => stack'[t][j].at \in {"registered", "phoneStarted"}

(* The nesting of the stack of t survives a move whose new frames fit the  *)
(* old one.                                                                *)
LEMMA NestedMove ==
    ASSUME NEW t \in Threads, NEW k, Moves(t, k), Nested(stack[t]),
           NestFits(t, k)
    PROVE  Nested(stack'[t])
<1> DEFINE s == stack[t]
           r == stack'[t]
<1>1. /\ k \in 0..2 /\ Len(s) \in Nat \ {0} /\ Len(r) = Len(s) + k - 1
      /\ \A i \in 2..Len(s) : r[i + k - 1] = s[i]
      /\ Top(t) = s[1]
  BY DEF Moves
<1>2. \A i \in 1..Len(r) : i > k =>
          i - k + 1 \in 2..Len(s) /\ r[i] = s[i - k + 1]
  BY Shift
<1> SUFFICES ASSUME NEW i \in 1..Len(r)
             PROVE  /\ r[i].at \in {"delay", "loop"} => Len(r) = 1
                    /\ r[i].at = "received" => i = Len(r)
                    /\ r[i].at \in EarlyLabels =>
                          \A j \in 1..Len(r) :
                            j > i => r[j].at \in {"registered", "phoneStarted"}
  BY DEF Nested
<1> HIDE DEF s, r
<1>3. \A j \in 1..Len(s) :
          /\ s[j].at \in {"delay", "loop"} => Len(s) = 1
          /\ s[j].at = "received" => j = Len(s)
          /\ s[j].at \in EarlyLabels =>
                \A m \in 1..Len(s) :
                    m > j => s[m].at \in {"registered", "phoneStarted"}
  BY DEF Nested, s
<1>4. CASE i > k
  <2> DEFINE m == i - k + 1
  <2>1. m \in 1..Len(s) /\ m > 1 /\ r[i] = s[m] /\ Len(s) > 1
    BY <1>1, <1>2, <1>4
  <2>2. r[i].at \notin {"delay", "loop"}
    BY <1>1, <1>3, <2>1
  <2>3. r[i].at = "received" => i = Len(r)
    BY <1>1, <1>3, <1>4, <2>1
  <2>4. ASSUME r[i].at \in EarlyLabels, NEW j \in 1..Len(r), j > i
        PROVE  r[j].at \in {"registered", "phoneStarted"}
    <3>1. j > k
      BY <1>1, <1>4, <2>4
    <3>2. r[j] = s[j - k + 1] /\ j - k + 1 \in 1..Len(s) /\ j - k + 1 > m
      BY <1>1, <1>2, <2>4, <3>1
    <3> QED
      BY <1>3, <2>1, <2>4, <3>2
  <2> QED
    BY <2>2, <2>3, <2>4
<1>5. CASE i <= k
  <2>1. /\ r[i].at \in {"delay", "loop"} => k = 1 /\ Len(s) = 1
        /\ r[i].at = "received" => i = k /\ Len(s) = 1
        /\ r[i].at \in EarlyLabels =>
              /\ s[1].at \in EarlyLabels
              /\ \A j \in 1..k :
                    j > i => r[j].at \in {"registered", "phoneStarted"}
    <3>1. i \in 1..k
      BY <1>1, <1>5
    <3> QED
      BY <1>1, <3>1 DEF NestFits, s, r
  <2>2. ASSUME r[i].at \in EarlyLabels, NEW j \in 1..Len(r), j > i
        PROVE  r[j].at \in {"registered", "phoneStarted"}
    <3>1. CASE j <= k
      BY <1>1, <2>1, <2>2, <3>1
    <3>2. CASE j > k
      BY <1>1, <1>2, <1>3, <2>1, <2>2, <3>2
    <3> QED
      BY <1>1, <3>1, <3>2
  <2>3. r[i].at \in {"delay", "loop"} => Len(r) = 1
    BY <1>1, <2>1
  <2>4. ASSUME r[i].at = "received" PROVE i = Len(r)
    <3>1. i = k /\ Len(s) = 1
      BY <2>1, <2>4
    <3>2. Len(r) = 1 + k - 1
      BY <1>1, <3>1
    <3> QED
      BY <1>1, <3>1, <3>2
  <2> QED
    BY <2>2, <2>3, <2>4
<1> QED
  BY <1>1, <1>4, <1>5

(* A step that puts k frames in the place of the one on top of the stack   *)
(* of t, in the same run.                                                  *)
Turns(t, k) ==
    /\ Moves(t, k)
    /\ gen' = gen /\ used' = used
    /\ NestFits(t, k)
    /\ \A f : FrameOK(f) => FrameOK(f)'
    /\ \A i \in 1..k :
          /\ \A f : f = stack'[t][i] => FrameOK(f)'
          /\ stack'[t][i].at # "delay"
          /\ stack'[t][i].at = "gaveUp" /\ stack'[t][i].g = gen =>
                i > 1 /\ Stops(stack'[t][i - 1])
          /\ Registers(stack'[t][i]) =>
                /\ Registers(Top(t))
                /\ \A j \in 1..k : Registers(stack'[t][j]) => i = j
    /\ Stops(Top(t)) => k >= 1 /\ Stops(stack'[t][k])

(* It leaves the register thread alone, too,                               *)
Rests(t, k) ==
    /\ Turns(t, k)
    /\ UNCHANGED <<nsd, event, cancelled>>
    /\ Top(t).at \notin ClosingLabels
    /\ Top(t).at = "undoStart" => Top(t).g # gen
    /\ Registers(Top(t)) => \/ Top(t).at = "delay" /\ t \in cancelled
                            \/ \E i \in 1..k : Works(stack'[t][i])

(* and the connection.                                                     *)
Fits(t, k) ==
    /\ Rests(t, k)
    /\ UNCHANGED <<conn, opened>>
    /\ Top(t).at # "publish"
    /\ Top(t).at \in {"connect", "open"} => Top(t).g # gen

(* A turn keeps what frames rely on: what is new fits, the rest is as it   *)
(* was.                                                                    *)
LEMMA FramesFit ==
    ASSUME FramesOK, NEW t \in Threads, NEW k, Turns(t, k)
    PROVE  FramesOK'
<1>1. \A f : FrameOK(f) => FrameOK(f)'
  BY DEF Turns
<1> SUFFICES ASSUME NEW u \in Threads, NEW i \in 1..Len(stack'[u]),
                    NEW f, f = stack'[u][i]
             PROVE  FrameOK(f)'
  BY DEF FramesOK, FrameOK
<1>2. CASE u # t
  BY <1>1, <1>2 DEF Turns, Moves, FramesOK
<1>3. CASE u = t /\ i > k
  <2>1. i - k + 1 \in 1..Len(stack[t]) /\ stack'[t][i] = stack[t][i - k + 1]
    BY <1>3, Shift DEF Turns
  <2> QED
    BY <1>1, <1>3, <2>1 DEF FramesOK
<1>4. CASE u = t /\ ~(i > k)
  BY <1>4 DEF Turns, Moves
<1> QED
  BY <1>2, <1>3, <1>4

(* A turn keeps the nesting, and that a run given up on is being stopped.  *)
LEMMA StacksFit ==
    ASSUME StacksOK, NEW t \in Threads, NEW k, Turns(t, k)
    PROVE  StacksOK'
<1>1. ASSUME NEW u \in Threads PROVE Nested(stack'[u])
  <2>1. Nested(stack[t]) /\ Nested(stack[u]) /\ Moves(t, k) /\ NestFits(t, k)
    BY DEF StacksOK, Turns
  <2>2. Nested(stack'[t])
    BY <2>1, NestedMove
  <2> QED
    BY <2>1, <2>2 DEF Moves
<1>2. ASSUME NEW u \in Threads PROVE Stopping(stack[u])'
  <2>0. gen' = gen
    BY DEF Turns, clientVars
  <2>1. CASE u # t
    BY <2>0, <2>1 DEF Turns, Moves, StacksOK, Stopping, Stops
  <2>2. CASE u = t
    <3> SUFFICES ASSUME NEW i \in 1..Len(stack'[t]),
                        stack'[t][i].at = "gaveUp", stack'[t][i].g = gen
                 PROVE  i > 1 /\ Stops(stack'[t][i - 1])
      BY <2>0, <2>2 DEF Stopping, Stops
    <3>1. k \in 0..2
      BY DEF Turns, Moves
    <3>2. CASE i <= k
      BY <3>1, <3>2 DEF Turns
    <3>3. CASE i > k
      <4> DEFINE j == i - k + 1
      <4>1. j \in 2..Len(stack[t]) /\ stack'[t][i] = stack[t][j]
        BY <3>3, Shift DEF Turns
      <4>2. Stops(stack[t][j - 1])
        BY <4>1 DEF StacksOK, Stopping
      <4>3. CASE j = 2
        <5>1. i = k + 1 /\ j - 1 = 1
          BY <3>1, <4>3
        <5>3. Stops(Top(t))
          BY <4>2, <5>1 DEF Turns, Moves
        <5>2. k >= 1 /\ Stops(stack'[t][k])
          BY <5>3 DEF Turns
        <5> QED
          BY <3>1, <5>1, <5>2
      <4>4. CASE j > 2
        <5>1. i - 1 \in 1..Len(stack'[t]) /\ i - 1 > k
          BY <3>1, <3>3, <4>4
        <5>2. stack'[t][i - 1] = stack[t][i - 1 - k + 1]
          BY <5>1, Shift DEF Turns
        <5>3. i - 1 - k + 1 = j - 1
          BY <3>1
        <5> QED
          BY <3>1, <4>2, <5>1, <5>2, <5>3
      <4> QED
        BY <4>1, <4>3, <4>4
    <3> QED
      BY <3>1, <3>2, <3>3
  <2> QED
    BY <2>1, <2>2
<1>3. \A u \in Receivers \cup Timers : u \notin used' => stack'[u] = <<>>
  BY DEF Turns, Moves, StacksOK, Threads
<1> QED
  BY <1>1, <1>2, <1>3 DEF StacksOK

(* A turn leaves at most one frame that registers the run: it passes the   *)
(* task on, or has not got it.                                             *)
LEMMA OneFits ==
    ASSUME OneRegisters, NEW t \in Threads, NEW k, Turns(t, k)
    PROVE  OneRegisters'
<1>0. gen' = gen /\ k \in 0..2
  BY DEF Turns, Moves, clientVars
<1>1. \A i \in 1..Len(stack'[t]) : Registers(stack'[t][i]) =>
          \/ i \in 1..k /\ Registers(stack[t][1]) /\ 1 \in 1..Len(stack[t])
          \/ i > k /\ i - k + 1 \in 2..Len(stack[t]) /\ Registers(stack[t][i - k + 1])
  <2> SUFFICES ASSUME NEW i \in 1..Len(stack'[t]), Registers(stack'[t][i])
               PROVE  \/ i \in 1..k /\ Registers(stack[t][1])
                         /\ 1 \in 1..Len(stack[t])
                      \/ i > k /\ i - k + 1 \in 2..Len(stack[t])
                         /\ Registers(stack[t][i - k + 1])
    OBVIOUS
  <2>1. CASE i > k
    <3>1. i - k + 1 \in 2..Len(stack[t]) /\ stack'[t][i] = stack[t][i - k + 1]
      BY <2>1, Shift DEF Turns
    <3> QED
      BY <2>1, <3>1
  <2>2. CASE i \in 1..k
    <3>1. Registers(Top(t))
      BY <2>2 DEF Turns
    <3>2. Top(t) = stack[t][1] /\ 1 \in 1..Len(stack[t])
      BY DEF Turns, Moves
    <3> QED
      BY <2>2, <3>1, <3>2
  <2> QED
    BY <1>0, <2>1, <2>2
<1>2. ASSUME NEW u \in Threads \ {t}, NEW i \in 1..Len(stack'[t]),
             NEW j \in 1..Len(stack'[u]),
             Registers(stack'[t][i]), Registers(stack'[u][j])
      PROVE  FALSE
  <2>1. \E m \in 1..Len(stack[t]) : Registers(stack[t][m])
    BY <1>1, <1>2
  <2>2. stack'[u] = stack[u]
    BY DEF Turns, Moves
  <2> QED
    BY <1>2, <2>1, <2>2 DEF OneRegisters
<1>3. ASSUME NEW i \in 1..Len(stack'[t]), NEW j \in 1..Len(stack'[t]),
             Registers(stack'[t][i]), Registers(stack'[t][j])
      PROVE  i = j
  <2>1. CASE i \in 1..k /\ j \in 1..k
    BY <1>3, <2>1 DEF Turns
  <2>2. CASE i \in 1..k /\ j > k
    <3>1. Registers(stack[t][1]) /\ 1 \in 1..Len(stack[t])
      BY <1>0, <1>1, <1>3, <2>2
    <3>2. j - k + 1 \in 2..Len(stack[t]) /\ Registers(stack[t][j - k + 1])
      BY <1>0, <1>1, <1>3, <2>2
    <3> QED
      BY <3>1, <3>2 DEF OneRegisters
  <2>3. CASE i > k /\ j \in 1..k
    <3>1. Registers(stack[t][1]) /\ 1 \in 1..Len(stack[t])
      BY <1>0, <1>1, <1>3, <2>3
    <3>2. i - k + 1 \in 2..Len(stack[t]) /\ Registers(stack[t][i - k + 1])
      BY <1>0, <1>1, <1>3, <2>3
    <3> QED
      BY <3>1, <3>2 DEF OneRegisters
  <2>4. CASE i > k /\ j > k
    <3>1. /\ i - k + 1 \in 1..Len(stack[t]) /\ Registers(stack[t][i - k + 1])
          /\ j - k + 1 \in 1..Len(stack[t]) /\ Registers(stack[t][j - k + 1])
      BY <1>0, <1>1, <1>3, <2>4
    <3>2. i - k + 1 = j - k + 1
      BY <3>1 DEF OneRegisters
    <3> QED
      BY <1>0, <3>2
  <2> QED
    BY <1>0, <2>1, <2>2, <2>3, <2>4
<1>4. ASSUME NEW u \in Threads \ {t}, NEW v \in Threads \ {t},
             NEW i \in 1..Len(stack'[u]), NEW j \in 1..Len(stack'[v]),
             Registers(stack'[u][i]), Registers(stack'[v][j])
      PROVE  u = v /\ i = j
  <2>1. stack'[u] = stack[u] /\ stack'[v] = stack[v]
    BY DEF Turns, Moves
  <2> QED
    BY <1>4, <2>1 DEF OneRegisters
<1>5. \A f : Registers(f)' <=> Registers(f)
  BY <1>0 DEF Registers
<1> SUFFICES ASSUME NEW u \in Threads, NEW v \in Threads,
                    NEW i \in 1..Len(stack'[u]), NEW j \in 1..Len(stack'[v]),
                    Registers(stack'[u][i]), Registers(stack'[v][j])
             PROVE  u = v /\ i = j
  BY <1>0 DEF OneRegisters, Registers
<1> QED
  BY <1>2, <1>3, <1>4

(* A turn that lets the register threads be leaves the run on a frame that *)
(* keeps it registered, or with a register thread armed.                   *)
LEMMA KeptFits ==
    ASSUME KeptAlive, OneRegisters, StacksOK, ConstantsAssumption,
           NEW t \in Threads, NEW k, Rests(t, k)
    PROVE  KeptAlive'
<1>0. /\ UNCHANGED <<gen, nsd, event, cancelled>> /\ k \in 0..2
      /\ \A u \in Threads \ {t} : stack'[u] = stack[u]
      /\ Top(t) = stack[t][1] /\ Len(stack[t]) \in Nat \ {0}
      /\ Len(stack'[t]) = Len(stack[t]) + k - 1
  BY DEF Rests, Turns, Moves, clientVars, renewVars
<1>1. \A f : Works(f)' <=> Works(f)
  BY <1>0 DEF Works
<1> SUFFICES ASSUME nsd
             PROVE  \/ \E u \in Threads : \E i \in 1..Len(stack'[u]) :
                          Works(stack'[u][i])
                    \/ event = Later
                    \/ Armed'
  BY <1>0 DEF KeptAlive, Works
<1>2. Registers(Top(t)) => \/ Top(t).at = "delay" /\ t \in cancelled
                          \/ \E i \in 1..Len(stack'[t]) : Works(stack'[t][i])
  BY <1>0 DEF Rests, Turns
<1>3. CASE \E u \in Threads : \E i \in 1..Len(stack[u]) : Works(stack[u][i])
  <2> PICK u \in Threads : \E i \in 1..Len(stack[u]) : Works(stack[u][i])
    BY <1>3
  <2> PICK i \in 1..Len(stack[u]) : Works(stack[u][i])
    OBVIOUS
  <2>1. CASE u # t
    BY <1>0, <2>1
  <2>2. CASE u = t /\ i = 1
    <3>1. Registers(Top(t)) /\ Top(t).at # "delay"
      BY <1>0, <2>2 DEF Works, Registers, Rests, Turns, ChainLabels, RegisterLabels
    <3> QED
      BY <1>2, <3>1
  <2>3. CASE u = t /\ i > 1
    <3>1. i + k - 1 \in 1..Len(stack'[t]) /\ stack'[t][i + k - 1] = stack[t][i]
      BY <2>3, Shift DEF Rests, Turns
    <3> QED
      BY <3>1, <2>3
  <2> QED
    BY <2>1, <2>2, <2>3
<1>4. CASE Armed
  <2>1. CASE event # t
    BY <1>0, <1>4, <2>1 DEF Armed, At, Top, Threads
  <2>2. CASE event = t
    <3>1. Registers(Top(t)) /\ t \notin cancelled
      BY <1>4, <2>2 DEF Armed, At, Registers, ChainLabels
    <3> QED
      BY <1>2, <3>1
  <2> QED
    BY <2>1, <2>2
<1> QED
  BY <1>3, <1>4 DEF KeptAlive

(* A turn hands on the closing of a socket, and the opening of the run's.  *)
LEMMA SocketFits ==
    ASSUME SocketInv, NEW t \in Threads, NEW k, Fits(t, k)
    PROVE  SocketInv'
<1>0. /\ UNCHANGED <<gen, nsd, conn, opened>>
      /\ \A u \in Threads \ {t} : stack'[u] = stack[u]
  BY DEF Fits, Rests, Turns, Moves, clientVars
<1>1. \A c \in opened : ~Closes(t, c)
  BY DEF Closes, Fits, Rests, Turns
<1>2. ~Opens(t)
  BY DEF Opens, Fits, Rests, Turns
<1>3. ASSUME NEW u \in Threads \ {t}, NEW c, Closes(u, c)
      PROVE  Closes(u, c)'
  BY <1>0, <1>3 DEF Closes, Top
<1>7. ASSUME NEW u \in Threads \ {t}, Opens(u)
      PROVE  Opens(u)'
  BY <1>0, <1>7 DEF Opens, Top
<1>4. \A c \in opened : c = conn \/ \E u \in Threads : Closes(u, c)'
  <2> SUFFICES ASSUME NEW c \in opened, c # conn
               PROVE  \E u \in Threads : Closes(u, c)'
    OBVIOUS
  <2>1. PICK u \in Threads : Closes(u, c)
    BY DEF SocketInv
  <2>2. u \in Threads \ {t}
    BY <1>1, <2>1
  <2>3. Closes(u, c)'
    BY <1>3, <2>1, <2>2
  <2> QED
    BY <2>3
<1>5. ASSUME nsd, ~(conn = gen /\ gen \in opened)
      PROVE  \E u \in Threads : Opens(u)'
  <2>1. PICK u \in Threads : Opens(u)
    BY <1>5 DEF SocketInv
  <2>2. u \in Threads \ {t}
    BY <1>2, <2>1
  <2>3. Opens(u)'
    BY <1>7, <2>1, <2>2
  <2> QED
    BY <2>3
<1>6. conn # 0 => nsd /\ conn = gen
  BY DEF SocketInv
<1> QED
  BY <1>0, <1>4, <1>5, <1>6 DEF SocketInv

(* No turn puts a register thread back to its delay.                       *)
LEMMA TurnDelay ==
    ASSUME StacksOK, NEW t \in Threads, NEW k, Turns(t, k)
    PROVE  ~At(t, "delay")'
<1> SUFFICES ASSUME stack'[t] # <<>>, Top(t)'.at = "delay" PROVE FALSE
  BY DEF At
<1>1. stack'[t] \in Seq(FrameType) /\ k \in 0..2
  BY DEF Turns, Moves
<1>2. Len(stack'[t]) \in Nat \ {0} /\ Top(t)' = stack'[t][1]
  BY <1>1, EmptySeq DEF Top
<1>3. CASE k >= 1
  BY <1>1, <1>2, <1>3 DEF Turns
<1>4. CASE k = 0
  <2>1. 1 - k + 1 \in 2..Len(stack[t]) /\ stack'[t][1] = stack[t][1 - k + 1]
    BY <1>2, <1>4, Shift DEF Turns
  <2>2. 1 - k + 1 = 2
    BY <1>4
  <2>3. stack[t][2].at # "delay"
    BY <2>1, <2>2 DEF StacksOK, Nested
  <2> QED
    BY <1>2, <2>1, <2>2, <2>3
<1> QED
  BY <1>1, <1>3, <1>4

(* A turn hands on the cancelling of a register thread.                    *)
LEMMA TimerFits ==
    ASSUME TimerInv, StacksOK, NEW t \in Threads, NEW k, Rests(t, k)
    PROVE  TimerInv'
<1>0. /\ UNCHANGED <<gen, nsd, event, used, cancelled>>
      /\ \A u \in Threads \ {t} : stack'[u] = stack[u]
  BY DEF Rests, Turns, Moves, clientVars, renewVars
<1>1. \A w \in Timers : ~Cancels(t, w)
  BY DEF Cancels, Rests, Turns
<1>2. \A u \in Threads \ {t} : \A w : Cancels(u, w) => Cancels(u, w)'
  BY <1>0 DEF Cancels, Top
<1>3. ~At(t, "delay")'
  BY TurnDelay DEF Rests
<1>4. \A w \in Timers : At(w, "delay")' =>
          w # t /\ At(w, "delay") /\ Top(w)' = Top(w)
  BY <1>0, <1>3 DEF At, Top, Threads
<1> QED
  BY <1>0, <1>1, <1>2, <1>4 DEF TimerInv

(* recvLock is given back, or the stack still shows who holds it.          *)
LockFits(t, k) ==
    \/ recvLock' = None
    \/ /\ recvLock' \in {t, recvLock}
       /\ \E i \in 1..k : stack'[t][i].at \in HoldingLabels
    \/ recvLock' = recvLock /\ Top(t).at \notin HoldingLabels

(* Whoever holds recvLock after a turn has a frame inside a transaction or *)
(* a read of the stream.                                                   *)
LEMMA LockMove ==
    ASSUME ConstantsAssumption, LockInv, NEW t \in Threads, NEW k,
           Moves(t, k), LockFits(t, k)
    PROVE  LockInv'
<1> SUFFICES ASSUME NEW u \in Threads, recvLock' = u
             PROVE  \E i \in 1..Len(stack'[u]) : stack'[u][i].at \in HoldingLabels
  BY DEF LockInv
<1>0. recvLock' # None
  BY ConstantsAssumption DEF Threads
<1>1. CASE u # t
  <2>1. recvLock = u /\ stack'[u] = stack[u]
    BY <1>0, <1>1 DEF LockFits, Moves
  <2> QED
    BY <2>1 DEF LockInv
<1>2. CASE u = t
  <2>1. CASE \E i \in 1..k : stack'[t][i].at \in HoldingLabels
    <3>1. \A i \in 1..k : i \in 1..Len(stack'[t])
      BY DEF Moves
    <3> QED
      BY <1>2, <2>1, <3>1
  <2>2. CASE recvLock = t /\ Top(t).at \notin HoldingLabels
    <3>1. PICK i \in 1..Len(stack[t]) : stack[t][i].at \in HoldingLabels
      BY <2>2 DEF LockInv
    <3>2. i \in 2..Len(stack[t])
      BY <2>2, <3>1 DEF Moves
    <3>3. i + k - 1 \in 1..Len(stack'[t]) /\ stack'[t][i + k - 1] = stack[t][i]
      BY <3>2, Shift
    <3> QED
      BY <1>2, <3>1, <3>3
  <2> QED
    BY <1>0, <1>2, <2>1, <2>2 DEF LockFits
<1> QED
  BY <1>1, <1>2

Core == /\ StackType /\ FramesOK /\ StacksOK /\ LockInv
        /\ OneRegisters /\ KeptAlive /\ SocketInv /\ TimerInv

(* A turn that fits keeps everything the stacks promise.                   *)
LEMMA CoreFits ==
    ASSUME ConstantsAssumption, Core, NEW t \in Threads, NEW k,
           Fits(t, k), LockFits(t, k)
    PROVE  Core'
<1>1. /\ StackType' /\ Moves(t, k)
      /\ Turns(t, k) /\ Rests(t, k)
  BY DEF Fits, Rests, Turns, Moves, StackType
<1> QED
  BY <1>1, FramesFit, StacksFit, LockMove, OneFits, KeptFits, SocketFits,
     TimerFits, Zenon DEF Core

(* A frame of the stack is one, and is in order.                           *)
LEMMA TopFrame ==
    ASSUME Core, NEW t \in Threads, stack[t] # <<>>
    PROVE  /\ Top(t) \in FrameType /\ Top(t) = stack[t][1]
           /\ FrameOK(Top(t)) /\ 1 \in 1..Len(stack[t])
           /\ Nested(stack[t]) /\ Stopping(stack[t])
<1>1. stack[t] \in Seq(FrameType)
  BY DEF Core, StackType
<1>2. Len(stack[t]) \in Nat \ {0} /\ Top(t) = stack[t][1]
  BY <1>1, EmptySeq DEF Top
<1>3. 1 \in 1..Len(stack[t])
  BY <1>2
<1>4. stack[t][1] \in FrameType
  BY <1>1, <1>3, ElementOfSeq
<1> QED
  BY <1>2, <1>3, <1>4 DEF Core, FramesOK, StacksOK

(* A frame may rely on what it did: the run has not changed.               *)
LEMMA SameRun ==
    ASSUME UNCHANGED <<clientVars, renewVars, used>>, accepted' \in {accepted, gen}
    PROVE  /\ UNCHANGED <<gen, nsd, conn, opened, event, cancelled, used>>
           /\ \A f : FrameOK(f) => FrameOK(f)'
<1>1. UNCHANGED <<gen, nsd, conn, opened, event, cancelled, used>>
  BY DEF clientVars, renewVars
<1> QED
  BY <1>1 DEF FrameOK

(* A routine returns,                                                      *)
LEMMA LeaveTurns ==
    ASSUME Core, NEW t \in Threads, stack[t] # <<>>, Leave(t),
           gen' = gen, used' = used, \A f : FrameOK(f) => FrameOK(f)',
           ~Stops(Top(t))
    PROVE  Turns(t, 0)
<1>1. Moves(t, 0)
  BY LeaveMoves DEF Core
<1>2. \A i \in 1..0 : FALSE
  OBVIOUS
<1>3. NestFits(t, 0)
  BY <1>2 DEF NestFits
<1> QED
  BY <1>1, <1>2, <1>3 DEF Turns

(* or goes on with the frame f.                                            *)
LEMMA ReplaceTurns ==
    ASSUME Core, NEW t \in Threads, stack[t] # <<>>,
           NEW f \in FrameType, Replace(t, f),
           gen' = gen, used' = used, \A e : FrameOK(e) => FrameOK(e)',
           f.at \notin {"delay", "received", "gaveUp"},
           f.at = "loop" => Len(stack[t]) = 1,
           f.at \in EarlyLabels => Top(t).at \in EarlyLabels,
           FrameOK(f)',
           Stops(Top(t)) => Stops(f),
           Registers(f) => Registers(Top(t))
    PROVE  Turns(t, 1) /\ stack'[t][1] = f
<1>1. Moves(t, 1) /\ stack'[t][1] = f
  BY ReplaceMoves DEF Core
<1>2. \A i \in 1..1 : i = 1
  OBVIOUS
<1>3. NestFits(t, 1)
  BY <1>1, <1>2 DEF NestFits
<1> QED
  BY <1>1, <1>2, <1>3 DEF Turns

(* A routine returns: its frame is not one the run depends on.             *)
LEMMA LeaveKeeps ==
    ASSUME ConstantsAssumption, Core, NEW t \in Threads, stack[t] # <<>>,
           Leave(t), UNCHANGED <<clientVars, renewVars, used, accepted>>,
           recvLock' \in {None, recvLock},
           Top(t).at \notin ClosingLabels \cup HoldingLabels \cup {"publish"},
           Top(t).at \in {"connect", "open", "undoStart"} => Top(t).g # gen,
           ~Stops(Top(t)),
           Registers(Top(t)) => Top(t).at = "delay" /\ t \in cancelled
    PROVE  Core'
<1>1. /\ UNCHANGED <<gen, nsd, conn, opened, event, cancelled, used>>
      /\ \A f : FrameOK(f) => FrameOK(f)'
  BY SameRun
<1>2. Turns(t, 0)
  BY <1>1, LeaveTurns
<1>3. Rests(t, 0)
  BY <1>1, <1>2 DEF Rests
<1>4. Fits(t, 0)
  BY <1>1, <1>3 DEF Fits
<1>5. LockFits(t, 0)
  BY DEF LockFits
<1> QED
  BY <1>4, <1>5, CoreFits

(* A routine goes on, with the frame f.                                    *)
LEMMA ReplaceKeeps ==
    ASSUME ConstantsAssumption, Core, NEW t \in Threads, stack[t] # <<>>,
           NEW f \in FrameType, Replace(t, f),
           UNCHANGED <<clientVars, renewVars, used>>, accepted' \in {accepted, gen},
           \/ recvLock' = None
           \/ recvLock' \in {t, recvLock} /\ f.at \in HoldingLabels
           \/ recvLock' = recvLock /\ Top(t).at \notin HoldingLabels,
           Top(t).at \notin ClosingLabels \cup {"publish"},
           Top(t).at \in {"connect", "open", "undoStart"} => Top(t).g # gen,
           f.at \notin {"delay", "received", "gaveUp"},
           f.at = "loop" => Len(stack[t]) = 1,
           f.at \in EarlyLabels => Top(t).at \in EarlyLabels,
           FrameOK(f)',
           Stops(Top(t)) => Stops(f),
           Registers(f) => Registers(Top(t)),
           Registers(Top(t)) => Works(f)
    PROVE  Core'
<1>1. /\ UNCHANGED <<gen, nsd, conn, opened, event, cancelled, used>>
      /\ \A e : FrameOK(e) => FrameOK(e)'
  BY SameRun
<1>2. Turns(t, 1) /\ stack'[t][1] = f
  BY <1>1, ReplaceTurns
<1>3. 1 \in 1..1
  OBVIOUS
<1>4. Rests(t, 1)
  BY <1>1, <1>2, <1>3 DEF Rests
<1>5. Fits(t, 1)
  BY <1>1, <1>4 DEF Fits
<1>6. LockFits(t, 1)
  BY <1>2, <1>3 DEF LockFits
<1> QED
  BY <1>5, <1>6, CoreFits

(* Of recvLock: given back, taken or kept.                                 *)
LockGoes(t, from, to) ==
    \/ recvLock' = None
    \/ recvLock' \in {t, recvLock} /\ to \in HoldingLabels
    \/ recvLock' = recvLock /\ from \notin HoldingLabels

(* A routine that is at from may call another one, and go on at label.     *)
Resumes(from, label) ==
    /\ from \notin ClosingLabels \cup {"publish", "connect", "open",
                                       "undoStart", "delay"}
    /\ label \in Labels
    /\ label \notin ClosingLabels \cup {"delay", "loop", "open", "publish",
                                        "commit"}
    /\ label \in ChainLabels <=> from \in ChainLabels
    /\ label \in RegisterLabels => from \in RegisterLabels
    /\ label \in EarlyLabels => from \in EarlyLabels
    /\ from \in {"sipStop", "detach"} => label = "detach"

(* The labels at which the callers of a routine go on.                     *)
LEMMA WaysBack ==
    /\ Resumes("wait", "lost") /\ Resumes("waitOff", "lostOff")
    /\ Resumes("erred", "gaveUp") /\ Resumes("erredRetry", "gaveUp")
    /\ Resumes("phoneOwned", "phoneStopped") /\ Resumes("sipStop", "detach")
    /\ Resumes("loop", "received")
    /\ {"lost", "lostOff", "received"} \subseteq HoldingLabels
    /\ \A l \in {"erred", "erredRetry", "phoneOwned", "sipStop", "loop"} :
          l \notin HoldingLabels
<1>1. Resumes("wait", "lost") /\ Resumes("waitOff", "lostOff")
  BY DEF Resumes, Labels, EarlyLabels, ChainLabels, RegisterLabels,
         ClosingLabels, HoldingLabels
<1>2. Resumes("erred", "gaveUp") /\ Resumes("erredRetry", "gaveUp")
  BY DEF Resumes, Labels, EarlyLabels, ChainLabels, RegisterLabels,
         ClosingLabels, HoldingLabels
<1>3. Resumes("phoneOwned", "phoneStopped") /\ Resumes("sipStop", "detach")
  BY DEF Resumes, Labels, EarlyLabels, ChainLabels, RegisterLabels,
         ClosingLabels, HoldingLabels
<1>4. Resumes("loop", "received")
  BY DEF Resumes, Labels, EarlyLabels, ChainLabels, RegisterLabels,
         ClosingLabels, HoldingLabels
<1>5. /\ {"lost", "lostOff", "received"} \subseteq HoldingLabels
      /\ \A l \in {"erred", "erredRetry", "phoneOwned", "sipStop", "loop"} :
            l \notin HoldingLabels
  BY DEF HoldingLabels
<1> QED
  BY <1>1, <1>2, <1>3, <1>4, <1>5

(* A routine calls another one, whose frame is f; it goes on at label.     *)
LEMMA InvokeKeeps ==
    ASSUME ConstantsAssumption, Core, NEW t \in Threads, stack[t] # <<>>,
           NEW label, NEW f \in FrameType, Invoke(t, label, f),
           Resumes(Top(t).at, label), LockGoes(t, Top(t).at, label),
           UNCHANGED <<clientVars, renewVars, used, accepted>>,
           label = "received" => Len(stack[t]) = 1,
           label = "gaveUp" /\ Top(t).g = gen => Stops(f),
           f.at \in {"fail", "sipStop", "deregister"}, f.g <= gen
    PROVE  Core'
<1> DEFINE e == [Top(t) EXCEPT !.at = label]
<1>1. Moves(t, 2) /\ stack'[t][1] = f /\ stack'[t][2] = e
  BY InvokeMoves DEF Core, Resumes
<1>2. \A i \in 1..2 : i = 1 \/ i = 2
  OBVIOUS
<1>3. /\ Top(t) \in FrameType /\ FrameOK(Top(t))
  BY TopFrame
<1>4. /\ e.at = label /\ e.g = Top(t).g /\ e.ctx = Top(t).ctx
  BY <1>3 DEF FrameType
<1> HIDE DEF e
<1>5. gen' = gen /\ nsd' = nsd /\ conn' = conn /\ accepted' = accepted
  BY DEF clientVars
<1>13. f.at \notin EarlyLabels \cup ClosingLabels
                   \cup {"delay", "loop", "received", "gaveUp", "open",
                         "publish", "commit"}
  BY DEF EarlyLabels, ChainLabels, RegisterLabels, ClosingLabels
<1>14. f.at \notin ChainLabels \cup RegisterLabels
  BY <1>13 DEF EarlyLabels, ChainLabels
<1>6. FrameOK(f)'
  BY <1>5, <1>13, <1>14 DEF FrameOK
<1>7. \A x : x = e => FrameOK(x)'
  BY <1>3, <1>4, <1>5 DEF FrameOK, Resumes
<1>8. ~Registers(f)
  BY <1>14 DEF Registers
<1>9. Registers(e) <=> Registers(Top(t))
  BY <1>4 DEF Registers, Resumes
<1>10. NestFits(t, 2)
  BY <1>1, <1>2, <1>4, <1>13 DEF NestFits, Resumes
<1>11. Fits(t, 2)
  <2>1. \A i \in 1..2 :
          /\ \A x : x = stack'[t][i] => FrameOK(x)'
          /\ stack'[t][i].at # "delay"
          /\ stack'[t][i].at = "gaveUp" /\ stack'[t][i].g = gen =>
                i > 1 /\ Stops(stack'[t][i - 1])
    BY <1>1, <1>2, <1>4, <1>6, <1>7, <1>13 DEF Resumes
  <2>2. Registers(Top(t)) => Works(e)
    BY <1>3, <1>4 DEF Registers, Works, Resumes
  <2>3. Stops(Top(t)) => Stops(e)
    BY <1>4 DEF Stops, Resumes
  <2>4. /\ Top(t).at \notin ClosingLabels \cup {"publish"}
        /\ Top(t).at \notin {"connect", "open", "undoStart"}
    BY DEF Resumes
  <2>5. /\ UNCHANGED <<gen, nsd, conn, opened, event, cancelled, used>>
        /\ \A x : FrameOK(x) => FrameOK(x)'
    BY SameRun
  <2>6. Turns(t, 2)
    BY <1>1, <1>2, <1>8, <1>9, <1>10, <2>1, <2>3, <2>5 DEF Turns
  <2>7. 2 \in 1..2
    OBVIOUS
  <2>8. Rests(t, 2)
    BY <1>1, <2>2, <2>4, <2>5, <2>6, <2>7 DEF Rests
  <2> QED
    BY <2>4, <2>5, <2>8 DEF Fits
<1>12. LockFits(t, 2)
  <2>1. 2 \in 1..2
    OBVIOUS
  <2> QED
    BY <1>1, <1>4, <2>1 DEF LockFits, LockGoes
<1> QED
  BY <1>11, <1>12, CoreFits

(* A routine that is at from may go on at to, whatever its frame holds.    *)
Onward(from, to) ==
    /\ from \notin ClosingLabels \cup {"publish", "connect", "open",
                                       "undoStart", "delay"}
    /\ to \in Labels
    /\ to \notin ClosingLabels \cup {"delay", "loop", "received", "gaveUp",
                                     "open", "publish"}
    /\ to \in ChainLabels <=> from \in ChainLabels
    /\ to \in RegisterLabels => from \in RegisterLabels
    /\ to \in EarlyLabels => from \in EarlyLabels
    /\ from \in {"sipStop", "detach"} => to = "detach"

(* The ways on of the routines, and which of their labels hold recvLock.   *)
LEMMA WaysOn ==
    /\ /\ Onward("register", "send") /\ Onward("send", "wait")
       /\ Onward("send", "erred") /\ Onward("wait", "send")
       /\ Onward("wait", "commit") /\ Onward("wait", "erredRetry")
       /\ Onward("wait", "erred") /\ Onward("lost", "erred")
       /\ Onward("commit", "renew") /\ Onward("erred", "renew")
    /\ /\ Onward("deregister", "sendOff") /\ Onward("sendOff", "waitOff")
       /\ Onward("sendOff", "erredOff") /\ Onward("waitOff", "sendOff")
       /\ Onward("waitOff", "deregistered") /\ Onward("waitOff", "again")
       /\ Onward("waitOff", "leaveOff") /\ Onward("lostOff", "leaveOff")
       /\ Onward("registered", "undoStart") /\ Onward("sipStop", "detach")
    /\ /\ {"send", "wait", "lost", "sendOff", "waitOff", "lostOff"}
             \subseteq HoldingLabels
       /\ \A l \in {"register", "deregister", "commit", "erred", "registered",
                     "sipStop"} : l \notin HoldingLabels
<1> DEFINE in == {"register", "send", "wait", "lost", "commit", "erred"}
           to == {"send", "wait", "erred", "commit", "erredRetry", "renew"}
           off == {"deregister", "sendOff", "waitOff", "lostOff", "registered"}
           toOff == {"sendOff", "waitOff", "erredOff", "deregistered", "again",
                     "leaveOff", "undoStart"}
<1>1. \A a \in in, b \in to : Onward(a, b)
  BY DEF Onward, Labels, EarlyLabels, ChainLabels, RegisterLabels, ClosingLabels,
         HoldingLabels
<1>2. \A a \in off, b \in toOff : Onward(a, b)
  BY DEF Onward, Labels, EarlyLabels, ChainLabels, RegisterLabels, ClosingLabels,
         HoldingLabels
<1>3. Onward("sipStop", "detach")
  BY DEF Onward, Labels, EarlyLabels, ChainLabels, RegisterLabels, ClosingLabels,
         HoldingLabels
<1>4. /\ {"send", "wait", "lost", "sendOff", "waitOff", "lostOff"}
             \subseteq HoldingLabels
      /\ \A l \in {"register", "deregister", "commit", "erred", "registered",
                    "sipStop"} : l \notin HoldingLabels
  BY DEF HoldingLabels
<1> QED
  BY <1>1, <1>2, <1>3, <1>4

(* A routine goes on in that way, with the frame f.                        *)
LEMMA OnwardKeeps ==
    ASSUME ConstantsAssumption, Core, NEW t \in Threads, stack[t] # <<>>,
           NEW f \in FrameType, Onward(Top(t).at, f.at), Replace(t, f),
           UNCHANGED <<clientVars, renewVars, used>>, accepted' \in {accepted, gen},
           LockGoes(t, Top(t).at, f.at),
           f.g <= gen,
           f.at \in ChainLabels \cup {"detach"} =>
               f.g = Top(t).g /\ f.ctx = Top(t).ctx,
           f.at = "commit" /\ f.g = gen => accepted' = gen
    PROVE  Core'
<1>1. Top(t) \in FrameType /\ FrameOK(Top(t))
  BY TopFrame
<1>2. gen' = gen /\ nsd' = nsd /\ conn' = conn
  BY DEF clientVars
<1>3. FrameOK(f)'
  BY <1>1, <1>2 DEF FrameOK, Onward, ChainLabels
<1>4. Registers(f) <=> Registers(Top(t))
  BY DEF Registers, Onward
<1>5. Registers(Top(t)) => Works(f)
  BY <1>4 DEF Registers, Works, Onward
<1>6. Stops(Top(t)) => Stops(f)
  BY DEF Stops, Onward
<1>7. /\ \/ recvLock' = None
         \/ recvLock' \in {t, recvLock} /\ f.at \in HoldingLabels
         \/ recvLock' = recvLock /\ Top(t).at \notin HoldingLabels
      /\ Top(t).at \notin ClosingLabels \cup {"publish"}
      /\ Top(t).at \notin {"connect", "open", "undoStart"}
      /\ f.at \notin {"delay", "loop", "received", "gaveUp"}
      /\ f.at \in EarlyLabels => Top(t).at \in EarlyLabels
  BY DEF LockGoes, Onward
<1> QED
  BY <1>3, <1>4, <1>5, <1>6, <1>7, ReplaceKeeps

(* A routine goes on at label.                                             *)
LEMMA GoKeeps ==
    ASSUME ConstantsAssumption, Core, NEW t \in Threads, stack[t] # <<>>,
           NEW label, Onward(Top(t).at, label), Go(t, label),
           UNCHANGED <<clientVars, renewVars, used>>, accepted' \in {accepted, gen},
           LockGoes(t, Top(t).at, label),
           label = "commit" /\ Top(t).g = gen => accepted' = gen
    PROVE  Core'
<1>1. Top(t) \in FrameType /\ FrameOK(Top(t))
  BY TopFrame
<1>2. PICK f \in FrameType : f = [Top(t) EXCEPT !.at = label]
  BY <1>1 DEF FrameType, Onward
<1>3. f.at = label /\ f.g = Top(t).g /\ f.ctx = Top(t).ctx
  BY <1>1, <1>2 DEF FrameType
<1>4. Replace(t, f)
  BY <1>2 DEF Go
<1>5. f.g <= gen
  BY <1>1, <1>3 DEF FrameOK
<1> QED
  BY <1>3, <1>4, <1>5, OnwardKeeps

----------------------------------------------------------------------------
(* The transactions of register() and deregister() *)

(* register() and deregister() enter their transaction, or leave at once.  *)
LEMMA TransactKeeps ==
    ASSUME ConstantsAssumption, TypeOK, Core, NEW t \in Threads, Transact(t)
    PROVE  Core'
<1>1. /\ stack[t] # <<>> /\ Top(t).at \in {"register", "deregister"}
      /\ UNCHANGED <<clientVars, renewVars, used, accepted>>
  BY DEF Transact, At, historyVars
<1>2. ~Stops(Top(t))
  BY <1>1 DEF Stops
<1>3. CASE Return(t) /\ UNCHANGED lockVars /\ (Top(t).g # gen \/ ~nsd)
  <2>1. ~Registers(Top(t))
    BY <1>1, <1>3, TopFrame DEF Registers, FrameOK
  <2> QED
    BY <1>1, <1>2, <1>3, <2>1, LeaveKeeps
       DEF Return, lockVars, ClosingLabels, HoldingLabels
<1>4. CASE Raise(t) /\ UNCHANGED lockVars /\ recvLock = t
  <2>1. ~Registers(Top(t))
    <3> SUFFICES ASSUME Top(t).at = "register" PROVE FALSE
      BY <1>1 DEF Registers, ChainLabels, RegisterLabels
    <3>1. PICK i \in 1..Len(stack[t]) : stack[t][i].at \in HoldingLabels
      BY <1>4 DEF Core, LockInv
    <3>2. stack[t][1].at = "register" /\ 1 \in 1..Len(stack[t]) /\ Nested(stack[t])
      BY <1>1, TopFrame
    <3>3. i > 1
      BY <3>1, <3>2 DEF HoldingLabels
    <3>4. "register" \in EarlyLabels
      BY DEF EarlyLabels, ChainLabels, RegisterLabels
    <3>5. stack[t][i].at \in {"registered", "phoneStarted"}
      BY <3>2, <3>3, <3>4 DEF Nested
    <3> QED
      BY <3>1, <3>5 DEF HoldingLabels
  <2> QED
    BY <1>1, <1>2, <1>4, <2>1, LeaveKeeps
       DEF Raise, lockVars, ClosingLabels, HoldingLabels
<1>5. CASE recvLock' = t /\ Top(t).at = "deregister" /\ Go(t, "sendOff")
  BY <1>1, <1>5, WaysOn, GoKeeps DEF LockGoes
<1>6. CASE recvLock' = t /\ Top(t).at = "register" /\ Go(t, "send")
  BY <1>1, <1>6, WaysOn, GoKeeps DEF LockGoes
<1> QED
  BY <1>1, <1>3, <1>4, <1>5, <1>6 DEF Transact

(* The request is sent, or the transaction is left for its failure.        *)
LEMMA SendKeeps ==
    ASSUME ConstantsAssumption, TypeOK, Core, NEW t \in Threads, Send(t)
    PROVE  Core'
<1>1. /\ stack[t] # <<>> /\ Top(t).at \in {"send", "sendOff"}
      /\ UNCHANGED <<clientVars, renewVars, used, accepted>>
  BY DEF Send, At, historyVars
<1>2. ~Stops(Top(t))
  BY <1>1 DEF Stops
<1>3. CASE Go(t, "wait") /\ Top(t).at = "send" /\ UNCHANGED recvLock
  BY <1>1, <1>3, WaysOn, GoKeeps DEF LockGoes
<1>4. CASE Go(t, "waitOff") /\ Top(t).at = "sendOff" /\ UNCHANGED recvLock
  BY <1>1, <1>4, WaysOn, GoKeeps DEF LockGoes
<1>5. CASE Go(t, "erred") /\ Top(t).at = "send" /\ recvLock' = None
  BY <1>1, <1>5, WaysOn, GoKeeps DEF LockGoes
<1>6. CASE Go(t, "erredOff") /\ Top(t).at = "sendOff" /\ recvLock' = None
  BY <1>1, <1>6, WaysOn, GoKeeps DEF LockGoes
<1> QED
  BY <1>1, <1>3, <1>4, <1>5, <1>6 DEF Send, Release, Off, lockVars

(* A final answer: the accepted REGISTER is that of the run that is on, so *)
(* the frame may commit it.                                                *)
LEMMA AnsweredKeeps ==
    ASSUME ConstantsAssumption, TypeOK, Core, NEW t \in Threads, Answered(t)
    PROVE  Core'
<1>1. /\ stack[t] # <<>> /\ Top(t).at \in {"wait", "waitOff"}
      /\ UNCHANGED <<clientVars, renewVars, used>>
      /\ recvLock' = None /\ accepted' \in {accepted, gen}
  BY DEF Answered, Waits, At, Release
<1>2. ~Stops(Top(t))
  BY <1>1 DEF Stops
<1>3. PICK a \in {"ok", "retry", "reject"} :
        /\ Go(t, IF Off(t)
                 THEN [ok |-> "deregistered", retry |-> "again",
                       reject |-> "leaveOff"][a]
                 ELSE [ok |-> "commit", retry |-> "erredRetry",
                       reject |-> "erred"][a])
        /\ accepted' = IF a = "ok" /\ ~Off(t) THEN gen ELSE accepted
  BY ConstantsAssumption DEF Answered, Release
<1>4. CASE Top(t).at = "wait"
  <2>1. ~Off(t)
    BY <1>4 DEF Off
  <2>2. CASE a = "ok"
    <3>1. Go(t, "commit") /\ accepted' = gen
      BY <1>3, <2>1, <2>2
    <3> QED
      BY <1>1, <1>4, <3>1, WaysOn, GoKeeps DEF LockGoes
  <2>3. CASE a = "retry"
    <3>1. Go(t, "erredRetry")
      BY <1>3, <2>1, <2>3
    <3> QED
      BY <1>1, <1>4, <3>1, WaysOn, GoKeeps DEF LockGoes
  <2>4. CASE a = "reject"
    <3>1. Go(t, "erred")
      BY <1>3, <2>1, <2>4
    <3> QED
      BY <1>1, <1>4, <3>1, WaysOn, GoKeeps DEF LockGoes
  <2> QED
    BY <2>2, <2>3, <2>4
<1>5. CASE Top(t).at = "waitOff"
  <2>1. Off(t)
    BY <1>5 DEF Off
  <2>2. CASE a = "ok"
    <3>1. Go(t, "deregistered")
      BY <1>3, <2>1, <2>2
    <3> QED
      BY <1>1, <1>5, <3>1, WaysOn, GoKeeps DEF LockGoes
  <2>3. CASE a = "retry"
    <3>1. Go(t, "again")
      BY <1>3, <2>1, <2>3
    <3> QED
      BY <1>1, <1>5, <3>1, WaysOn, GoKeeps DEF LockGoes
  <2>4. CASE a = "reject"
    <3>1. Go(t, "leaveOff")
      BY <1>3, <2>1, <2>4
    <3> QED
      BY <1>1, <1>5, <3>1, WaysOn, GoKeeps DEF LockGoes
  <2> QED
    BY <2>2, <2>3, <2>4
<1> QED
  BY <1>1, <1>4, <1>5

(* No answer: the failure is counted next.                                 *)
LEMMA TimedOutKeeps ==
    ASSUME ConstantsAssumption, TypeOK, Core, NEW t \in Threads, TimedOut(t)
    PROVE  Core'
<1>1. /\ stack[t] # <<>> /\ Top(t).at \in {"wait", "waitOff"}
      /\ UNCHANGED <<clientVars, renewVars, used, accepted>>
      /\ recvLock' = None
  BY DEF TimedOut, Waits, At, Release, historyVars
<1>2. ~Stops(Top(t))
  BY <1>1 DEF Stops
<1>3. CASE Go(t, "erred") /\ Top(t).at = "wait"
  BY <1>1, <1>3, WaysOn, GoKeeps DEF LockGoes
<1>4. CASE Go(t, "leaveOff") /\ Top(t).at = "waitOff"
  BY <1>1, <1>4, WaysOn, GoKeeps DEF LockGoes
<1> QED
  BY <1>1, <1>3, <1>4 DEF TimedOut, Release, Off

(* A challenge: the request is sent again, or a second one by the same hop *)
(* is a failure.                                                           *)
LEMMA ChallengedKeeps ==
    ASSUME ConstantsAssumption, TypeOK, Core, NEW t \in Threads, Challenged(t)
    PROVE  Core'
<1>1. /\ stack[t] # <<>> /\ Top(t).at \in {"wait", "waitOff"}
      /\ UNCHANGED <<clientVars, renewVars, used, accepted>>
  BY DEF Challenged, Waits, At, historyVars
<1>2. ~Stops(Top(t))
  BY <1>1 DEF Stops
<1>3. CASE Go(t, "erred") /\ Top(t).at = "wait" /\ recvLock' = None
  BY <1>1, <1>3, WaysOn, GoKeeps DEF LockGoes
<1>4. CASE Go(t, "leaveOff") /\ Top(t).at = "waitOff" /\ recvLock' = None
  BY <1>1, <1>4, WaysOn, GoKeeps DEF LockGoes
<1>5. ASSUME NEW h \in Hops, UNCHANGED recvLock,
             Replace(t, [Top(t) EXCEPT !.hops = @ \cup {h},
                           !.at = IF Off(t) THEN "sendOff" ELSE "send"])
      PROVE  Core'
  <2>1. Top(t) \in FrameType /\ FrameOK(Top(t))
    BY <1>1, TopFrame
  <2>2. PICK l \in {"sendOff", "send"} :
          /\ l = IF Off(t) THEN "sendOff" ELSE "send"
          /\ l = IF Top(t).at = "waitOff" THEN "sendOff" ELSE "send"
    BY <1>1 DEF Off
  <2>3. Onward(Top(t).at, l) /\ l \in HoldingLabels /\ l # "commit"
    BY <1>1, <2>2, WaysOn
  <2>4. PICK f \in FrameType :
          f = [Top(t) EXCEPT !.hops = @ \cup {h}, !.at = l]
    BY <2>1, <2>3 DEF FrameType, Onward
  <2>5. f.at = l /\ f.g = Top(t).g /\ f.ctx = Top(t).ctx
    BY <2>1, <2>4 DEF FrameType
  <2>6. Replace(t, f)
    BY <1>5, <2>2, <2>4
  <2>7. f.g <= gen
    BY <2>1, <2>5 DEF FrameOK
  <2> QED
    BY <1>1, <1>5, <2>3, <2>5, <2>6, <2>7, OnwardKeeps DEF LockGoes
<1> QED
  BY <1>1, <1>3, <1>4, <1>5 DEF Challenged, Release, Off, lockVars

(* A frame as Frame and FailFrame build it.                                *)
LEMMA NewFrame ==
    ASSUME NEW label \in Labels, NEW g \in Nat, NEW ctx \in Nat
    PROVE  /\ Frame(label, g, ctx) \in FrameType
           /\ Frame(label, g, ctx).at = label /\ Frame(label, g, ctx).g = g
           /\ Frame(label, g, ctx).ctx = ctx
<1> QED
  BY DEF Frame, FrameType

(* The frame that reports the failure of a stream.                         *)
LEMMA NewFailFrame ==
    ASSUME NEW c \in Nat, NEW g \in Nat, NEW ctx \in Nat
    PROVE  /\ FailFrame(c, g, ctx) \in FrameType
           /\ FailFrame(c, g, ctx).at = "fail" /\ FailFrame(c, g, ctx).g = g
<1>1. "fail" \in Labels
  BY DEF Labels
<1> QED
  BY <1>1 DEF FailFrame, Frame, FrameType

(* The frames of phone.stop().                                             *)
LEMMA NewPhoneStopFrame ==
    ASSUME NEW g \in Nat, NEW ctx \in Nat
    PROVE  /\ PhoneStopFrame(g, ctx, TRUE) \in FrameType
           /\ PhoneStopFrame(g, ctx, TRUE).at = "phoneStop"
           /\ PhoneStopFrame(g, ctx, TRUE).g = g
           /\ PhoneStopFrame(g, ctx, FALSE) \in FrameType
           /\ PhoneStopFrame(g, ctx, FALSE).at = "phoneStop"
           /\ PhoneStopFrame(g, ctx, FALSE).g = g
<1>1. "phoneStop" \in Labels
  BY DEF Labels
<1> QED
  BY <1>1 DEF PhoneStopFrame, Frame, FrameType

(* The stream fails under a transaction: its failure is handled on this    *)
(* thread, on top of the transaction.                                      *)
LEMMA StreamFailsKeeps ==
    ASSUME ConstantsAssumption, TypeOK, Core, NEW t \in Threads, StreamFails(t)
    PROVE  Core'
<1>1. /\ stack[t] # <<>> /\ Top(t).at \in {"wait", "waitOff"}
      /\ UNCHANGED <<clientVars, renewVars, used, accepted>>
      /\ UNCHANGED recvLock
  BY DEF StreamFails, Waits, At, historyVars, lockVars
<1>2. conn \in Nat /\ gen \in Nat /\ Top(t).ctx \in Nat
  BY <1>1, TopFrame DEF TypeOK, FrameType
<1>3. PICK f \in FrameType : /\ f = FailFrame(conn, gen, Top(t).ctx)
                             /\ f.at = "fail" /\ f.g = gen
  BY <1>2, NewFailFrame
<1>4. CASE Top(t).at = "wait" /\ Invoke(t, "lost", f)
  BY <1>1, <1>2, <1>3, <1>4, WaysBack, InvokeKeeps DEF LockGoes
<1>5. CASE Top(t).at = "waitOff" /\ Invoke(t, "lostOff", f)
  BY <1>1, <1>2, <1>3, <1>5, WaysBack, InvokeKeeps DEF LockGoes
<1> QED
  BY <1>1, <1>3, <1>4, <1>5 DEF StreamFails, Off

(* Back from the failure of the stream: the transaction gives recvLock     *)
(* back.                                                                   *)
LEMMA LostKeeps ==
    ASSUME ConstantsAssumption, TypeOK, Core, NEW t \in Threads, Lost(t)
    PROVE  Core'
<1>1. /\ stack[t] # <<>>
      /\ UNCHANGED <<clientVars, renewVars, used, accepted>>
      /\ recvLock' = None
  BY DEF Lost, At, Release, historyVars
<1>2. CASE Top(t).at = "lost" /\ Go(t, "erred")
  BY <1>1, <1>2, WaysOn, GoKeeps DEF LockGoes
<1>3. CASE Top(t).at = "lostOff" /\ Go(t, "leaveOff")
  BY <1>1, <1>3, WaysOn, GoKeeps DEF LockGoes
<1> QED
  BY <1>2, <1>3 DEF Lost, Release, At

(* The accepted registration is committed and goes on to its renewal,      *)
(* unless the run has ended.                                               *)
LEMMA CommitKeeps ==
    ASSUME ConstantsAssumption, TypeOK, Core, NEW t \in Threads, Commit(t)
    PROVE  Core'
<1>1. /\ stack[t] # <<>> /\ Top(t).at = "commit"
      /\ UNCHANGED <<clientVars, renewVars, used, accepted>>
      /\ UNCHANGED recvLock
  BY DEF Commit, At, historyVars, lockVars
<1>2. CASE Go(t, "renew")
  BY <1>1, <1>2, WaysOn, GoKeeps DEF LockGoes
<1>3. CASE Leave(t) /\ ~(nsd /\ Top(t).g = gen)
  <2>1. ~Registers(Top(t)) /\ ~Stops(Top(t))
    BY <1>1, <1>3, TopFrame DEF Registers, FrameOK, Stops
  <2> QED
    BY <1>1, <1>3, <2>1, LeaveKeeps DEF ClosingLabels, HoldingLabels
<1> QED
  BY <1>2, <1>3 DEF Commit, Return

(* A failed registration goes on to its renewal, is tried again, or stops  *)
(* the run; an ended run is left alone.                                    *)
LEMMA ErredKeeps ==
    ASSUME ConstantsAssumption, TypeOK, Core, NEW t \in Threads, Erred(t)
    PROVE  Core'
<1>1. /\ stack[t] # <<>> /\ Top(t).at \in {"erred", "erredRetry"}
      /\ UNCHANGED <<clientVars, renewVars, used, accepted>>
      /\ UNCHANGED recvLock
  BY DEF Erred, At, historyVars, lockVars
<1>2. /\ Top(t) \in FrameType /\ FrameOK(Top(t))
      /\ Top(t).g \in Nat /\ Top(t).ctx \in Nat
  BY <1>1, TopFrame DEF FrameType
<1>3. Top(t).ctx = Top(t).g
  BY <1>1, <1>2 DEF FrameOK, RegisterLabels
<1>4. CASE Go(t, "renew") /\ Top(t).at = "erred"
  BY <1>1, <1>4, WaysOn, GoKeeps DEF LockGoes
<1>5. CASE Invoke(t, "gaveUp", StopFrame(Top(t).g, Top(t).ctx)) /\ Top(t).g = gen
  <2>1. "sipStop" \in Labels
    BY DEF Labels
  <2>2. PICK f \in FrameType : /\ f = StopFrame(Top(t).g, Top(t).ctx)
                               /\ f.at = "sipStop" /\ f.g = Top(t).g
                               /\ f.ctx = Top(t).ctx
    BY <1>2, <2>1, NewFrame DEF StopFrame
  <2>3. Stops(f) /\ f.g <= gen
    BY <1>2, <1>3, <1>5, <2>2 DEF Stops
  <2>4. Invoke(t, "gaveUp", f)
    BY <1>5, <2>2
  <2>5. Resumes(Top(t).at, "gaveUp") /\ Top(t).at \notin HoldingLabels
    BY <1>1, WaysBack
  <2> QED
    BY <1>1, <2>2, <2>3, <2>4, <2>5, InvokeKeeps DEF LockGoes
<1>6. CASE Replace(t, Frame("register", Top(t).g, Top(t).ctx))
           /\ Top(t).at = "erredRetry"
  <2>1. Onward("erredRetry", "register") /\ Top(t).at \notin HoldingLabels
    BY <1>6 DEF Onward, Labels, EarlyLabels, ChainLabels, RegisterLabels,
                ClosingLabels, HoldingLabels
  <2>2. PICK f \in FrameType : /\ f = Frame("register", Top(t).g, Top(t).ctx)
                               /\ f.at = "register" /\ f.g = Top(t).g
                               /\ f.ctx = Top(t).ctx
    BY <1>2, <2>1, NewFrame DEF Onward
  <2>3. Replace(t, f) /\ f.g <= gen
    BY <1>2, <1>6, <2>2 DEF FrameOK
  <2> QED
    BY <1>1, <1>6, <2>1, <2>2, <2>3, OnwardKeeps DEF LockGoes
<1>7. CASE Leave(t) /\ ~(nsd /\ Top(t).g = gen)
  <2>1. ~Registers(Top(t)) /\ ~Stops(Top(t))
    BY <1>1, <1>2, <1>7
       DEF Registers, FrameOK, Stops
  <2> QED
    BY <1>1, <1>7, <2>1, LeaveKeeps DEF ClosingLabels, HoldingLabels
<1> QED
  BY <1>1, <1>4, <1>5, <1>6, <1>7 DEF Erred, Return

(* deregister() comes to its end, or tries again.                          *)
LEMMA LeaveOffKeeps ==
    ASSUME ConstantsAssumption, TypeOK, Core, NEW t \in Threads,
           ErredOff(t) \/ LeaveOff(t) \/ Deregistered(t)
    PROVE  Core'
<1>1. /\ stack[t] # <<>>
      /\ Top(t).at \in {"erredOff", "leaveOff", "again", "deregistered"}
      /\ UNCHANGED <<clientVars, renewVars, used, accepted>>
      /\ UNCHANGED recvLock
  BY DEF ErredOff, LeaveOff, Deregistered, At, historyVars, lockVars
<1>2. CASE Leave(t)
  <2>1. ~Registers(Top(t)) /\ ~Stops(Top(t))
    BY <1>1 DEF Registers, Stops, ChainLabels, RegisterLabels
  <2> QED
    BY <1>1, <1>2, <2>1, LeaveKeeps DEF ClosingLabels, HoldingLabels
<1>3. CASE Top(t).at = "again" /\
           Replace(t, [Top(t) EXCEPT !.at = "deregister", !.hops = {},
                                     !.tries = @ + 1])
  <2>1. Top(t) \in FrameType /\ FrameOK(Top(t))
    BY <1>1, TopFrame
  <2>2. Onward("again", "deregister") /\ Top(t).at \notin HoldingLabels
    BY <1>3 DEF Onward, Labels, EarlyLabels, ChainLabels, RegisterLabels,
                ClosingLabels, HoldingLabels
  <2> DEFINE e == [Top(t) EXCEPT !.at = "deregister", !.hops = {},
                                 !.tries = @ + 1]
  <2>7. "deregister" \in Labels /\ Top(t).tries + 1 \in Nat /\ {} \in SUBSET Hops
    BY <2>1, <2>2 DEF FrameType, Onward
  <2>5. e \in FrameType
    BY <2>1, <2>7 DEF FrameType
  <2>6. e.at = "deregister" /\ e.g = Top(t).g /\ e.ctx = Top(t).ctx
    BY <2>1 DEF FrameType
  <2>3. PICK f \in FrameType : /\ f = e /\ f.at = "deregister"
                               /\ f.g = Top(t).g /\ f.ctx = Top(t).ctx
    <3> HIDE DEF e
    <3> QED
      BY <2>5, <2>6
  <2>4. Replace(t, f) /\ f.g <= gen
    BY <1>3, <2>1, <2>3 DEF FrameOK
  <2> QED
    BY <1>1, <1>3, <2>2, <2>3, <2>4, OnwardKeeps DEF LockGoes
<1> QED
  BY <1>1, <1>2, <1>3 DEF ErredOff, LeaveOff, Deregistered, Return, Raise

(* The end of a run is reported to the phone, unless another run has       *)
(* begun.                                                                  *)
LEMMA ReportKeeps ==
    ASSUME ConstantsAssumption, TypeOK, Core, NEW t \in Threads,
           GaveUp(t) \/ Failed(t)
    PROVE  Core'
<1>1. /\ stack[t] # <<>> /\ Top(t).at \in {"gaveUp", "report"}
      /\ UNCHANGED <<clientVars, renewVars, used, accepted>>
      /\ UNCHANGED recvLock
  BY DEF GaveUp, Failed, Report, At, historyVars, lockVars
<1>2. /\ Top(t) \in FrameType /\ FrameOK(Top(t))
      /\ Top(t).g \in Nat /\ Top(t).ctx \in Nat
      /\ Top(t) = stack[t][1] /\ 1 \in 1..Len(stack[t]) /\ Stopping(stack[t])
  BY <1>1, TopFrame DEF FrameType
<1>3. ~(Top(t).at = "gaveUp" /\ Top(t).g = gen)
  BY <1>2 DEF Stopping
<1>4. ~Registers(Top(t)) /\ ~Stops(Top(t))
  BY <1>1, <1>3 DEF Registers, Stops, ChainLabels, RegisterLabels
<1>5. CASE Leave(t)
  BY <1>1, <1>4, <1>5, LeaveKeeps DEF ClosingLabels, HoldingLabels
<1>6. CASE Replace(t, PhoneStopFrame(Top(t).g, Top(t).ctx, TRUE))
  <2> DEFINE e == PhoneStopFrame(Top(t).g, Top(t).ctx, TRUE)
  <2>1. e \in FrameType /\ e.at = "phoneStop" /\ e.g = Top(t).g
    BY <1>2, NewPhoneStopFrame
  <2>3. Replace(t, e)
    BY <1>6
  <2> HIDE DEF e
  <2>2. PICK f \in FrameType : f = e /\ f.at = "phoneStop" /\ f.g = Top(t).g
    BY <2>1
  <2>7. Replace(t, f)
    BY <2>2, <2>3
  <2>4. FrameOK(f)'
    BY <1>1, <1>2, <2>2
       DEF FrameOK, clientVars, ChainLabels, RegisterLabels, ClosingLabels
  <2>5. ~Registers(f) /\ f.at \notin EarlyLabels
    BY <2>2 DEF Registers, EarlyLabels, ChainLabels, RegisterLabels
  <2>6. /\ recvLock' = recvLock /\ Top(t).at \notin HoldingLabels
        /\ Top(t).at \notin ClosingLabels \cup {"publish"}
        /\ Top(t).at \notin {"connect", "open", "undoStart"}
        /\ f.at \notin {"delay", "loop", "received", "gaveUp"}
        /\ accepted' = accepted
    BY <1>1, <2>2 DEF ClosingLabels, HoldingLabels
  <2> QED
    BY <1>1, <1>4, <2>4, <2>5, <2>6, <2>7, ReplaceKeeps
<1> QED
  BY <1>5, <1>6 DEF GaveUp, Failed, Report, Return

----------------------------------------------------------------------------
(* stop(), and the phone around start() and stop() *)

(* SIPClient.stop() looks whether it is its run, and deregisters it first. *)
LEMMA SipStopKeeps ==
    ASSUME ConstantsAssumption, TypeOK, Core, NEW t \in Threads, SipStop(t)
    PROVE  Core'
<1>1. /\ stack[t] # <<>> /\ Top(t).at = "sipStop"
      /\ UNCHANGED <<clientVars, renewVars, used, accepted>>
      /\ UNCHANGED recvLock
  BY DEF SipStop, At, historyVars, lockVars
<1>2. CASE Leave(t) /\ (Top(t).g # gen \/ Top(t).ctx \notin {0, gen})
  <2>1. ~Registers(Top(t)) /\ ~Stops(Top(t))
    BY <1>1, <1>2 DEF Registers, Stops, ChainLabels, RegisterLabels
  <2> QED
    BY <1>1, <1>2, <2>1, LeaveKeeps DEF ClosingLabels, HoldingLabels
<1>3. CASE Go(t, "detach")
  BY <1>1, <1>3, WaysOn, GoKeeps DEF LockGoes
<1>4. CASE Invoke(t, "detach", Frame("deregister", gen, gen))
  <2>1. "deregister" \in Labels /\ gen \in Nat
    BY DEF Labels, TypeOK
  <2>2. PICK f \in FrameType : /\ f = Frame("deregister", gen, gen)
                               /\ f.at = "deregister" /\ f.g = gen
    BY <2>1, NewFrame
  <2>3. Invoke(t, "detach", f) /\ f.g <= gen
    BY <1>4, <2>1, <2>2
  <2> QED
    BY <1>1, <2>2, <2>3, WaysBack, InvokeKeeps DEF LockGoes
<1> QED
  BY <1>2, <1>3, <1>4 DEF SipStop, Return

(* phone.stop() takes the generation of the run that it will stop.         *)
LEMMA PhoneStopKeeps ==
    ASSUME ConstantsAssumption, TypeOK, Core, NEW t \in Threads, PhoneStop(t)
    PROVE  Core'
<1>1. /\ stack[t] # <<>> /\ Top(t).at = "phoneStop"
      /\ UNCHANGED <<clientVars, renewVars, used, accepted>>
      /\ UNCHANGED recvLock
      /\ Replace(t, [Top(t) EXCEPT !.at = "phoneOwned", !.g = gen,
                                   !.phone = phoneGen + 1])
  BY DEF PhoneStop, At, historyVars, lockVars
<1>2. Top(t) \in FrameType /\ gen \in Nat /\ phoneGen + 1 \in Nat
  BY <1>1, TopFrame DEF TypeOK
<1>3. Onward("phoneStop", "phoneOwned") /\ Top(t).at \notin HoldingLabels
      /\ "phoneOwned" \notin ChainLabels
  BY <1>1 DEF Onward, Labels, EarlyLabels, ChainLabels, RegisterLabels,
              ClosingLabels, HoldingLabels
<1> DEFINE e == [Top(t) EXCEPT !.at = "phoneOwned", !.g = gen,
                               !.phone = phoneGen + 1]
<1>4. e \in FrameType
  BY <1>2, <1>3 DEF FrameType, Onward
<1>5. e.at = "phoneOwned" /\ e.g = gen
  BY <1>2 DEF FrameType
<1> HIDE DEF e
<1>6. PICK f \in FrameType : f = e /\ f.at = "phoneOwned" /\ f.g = gen
  BY <1>4, <1>5
<1>7. Replace(t, f) /\ f.g <= gen
  BY <1>1, <1>2, <1>6 DEF e
<1> QED
  BY <1>1, <1>3, <1>6, <1>7, OnwardKeeps DEF LockGoes

(* phone.stop() calls SIPClient.stop() if no later start() or stop() has   *)
(* begun.                                                                  *)
LEMMA PhoneOwnedKeeps ==
    ASSUME ConstantsAssumption, TypeOK, Core, NEW t \in Threads, PhoneOwned(t)
    PROVE  Core'
<1>1. /\ stack[t] # <<>> /\ Top(t).at = "phoneOwned"
      /\ UNCHANGED <<clientVars, renewVars, used, accepted>>
      /\ UNCHANGED recvLock
  BY DEF PhoneOwned, At, historyVars, lockVars
<1>2. CASE Leave(t)
  <2>1. ~Registers(Top(t)) /\ ~Stops(Top(t))
    BY <1>1, <1>2 DEF Registers, Stops, ChainLabels, RegisterLabels
  <2> QED
    BY <1>1, <1>2, <2>1, LeaveKeeps DEF ClosingLabels, HoldingLabels
<1>3. CASE Invoke(t, "phoneStopped", StopFrame(Top(t).g, Top(t).ctx))
  <2>1. "sipStop" \in Labels
    BY DEF Labels
  <2>2. Top(t).g \in Nat /\ Top(t).ctx \in Nat /\ Top(t).g <= gen
    BY <1>1, TopFrame DEF FrameType, FrameOK
  <2>3. PICK f \in FrameType : /\ f = StopFrame(Top(t).g, Top(t).ctx)
                               /\ f.at = "sipStop" /\ f.g = Top(t).g
    BY <2>1, <2>2, NewFrame DEF StopFrame
  <2>4. Invoke(t, "phoneStopped", f) /\ f.g <= gen
    BY <1>3, <2>2, <2>3
  <2> QED
    BY <1>1, <2>3, <2>4, WaysBack, InvokeKeeps DEF LockGoes
<1> QED
  BY <1>2, <1>3 DEF PhoneOwned, Return

(* phone.start() and phone.stop() return.                                  *)
LEMMA PhoneBackKeeps ==
    ASSUME ConstantsAssumption, TypeOK, Core, NEW t \in Threads,
           PhoneStopped(t) \/ PhoneStarted(t)
    PROVE  Core'
<1>1. /\ stack[t] # <<>> /\ Top(t).at \in {"phoneStopped", "phoneStarted"}
      /\ UNCHANGED <<clientVars, renewVars, used, accepted>>
      /\ UNCHANGED recvLock
      /\ Leave(t)
  BY DEF PhoneStopped, PhoneStarted, At, historyVars, lockVars
<1>2. ~Registers(Top(t)) /\ ~Stops(Top(t))
  BY <1>1 DEF Registers, Stops, ChainLabels, RegisterLabels
<1> QED
  BY <1>1, <1>2, LeaveKeeps DEF ClosingLabels, HoldingLabels

----------------------------------------------------------------------------
(* The daemon threads *)

(* A register thread wakes up: it registers only for the run that is on.   *)
LEMMA DelayedKeeps ==
    ASSUME ConstantsAssumption, TypeOK, Core, NEW t \in Timers, Delayed(t)
    PROVE  Core'
<1>0. t \in Threads
  BY DEF Threads
<1>1. /\ stack[t] # <<>> /\ Top(t).at = "delay"
      /\ UNCHANGED <<clientVars, renewVars, used, accepted>>
      /\ UNCHANGED recvLock
  BY DEF Delayed, At, historyVars, lockVars
<1>2. /\ Top(t) \in FrameType /\ FrameOK(Top(t)) /\ gen \in Nat
      /\ Top(t) = stack[t][1] /\ 1 \in 1..Len(stack[t]) /\ Nested(stack[t])
  BY <1>0, <1>1, TopFrame DEF TypeOK
<1>3. ~Stops(Top(t))
  BY <1>1 DEF Stops
<1>4. CASE Leave(t) /\ ~(t \notin cancelled /\ nsd /\ Top(t).g = gen)
  <2>1. Registers(Top(t)) => Top(t).at = "delay" /\ t \in cancelled
    BY <1>1, <1>2, <1>4 DEF Registers, FrameOK
  <2> QED
    BY <1>0, <1>1, <1>3, <1>4, <2>1, LeaveKeeps DEF ClosingLabels, HoldingLabels
<1>5. CASE Replace(t, Frame("register", gen, gen)) /\ nsd /\ Top(t).g = gen
  <2>1. "register" \in Labels
    BY DEF Labels, EarlyLabels, ChainLabels, RegisterLabels
  <2>2. PICK f \in FrameType : /\ f = Frame("register", gen, gen)
                               /\ f.at = "register" /\ f.g = gen /\ f.ctx = gen
    BY <1>2, <2>1, NewFrame
  <2>3. Replace(t, f)
    BY <1>5, <2>2
  <2>4. gen >= 1
    BY <1>1, <1>2, <1>5 DEF FrameOK, ChainLabels
  <2>5. FrameOK(f)'
    BY <1>1, <1>2, <1>5, <2>2, <2>4 DEF FrameOK, clientVars, ClosingLabels
  <2>6. Registers(f) /\ Registers(Top(t)) /\ Works(f)
    BY <1>1, <1>5, <2>2 DEF Registers, Works, ChainLabels, RegisterLabels
  <2>7. /\ recvLock' = recvLock /\ Top(t).at \notin HoldingLabels
        /\ Top(t).at \notin ClosingLabels \cup {"publish"}
        /\ Top(t).at \notin {"connect", "open", "undoStart"}
        /\ f.at \notin {"delay", "loop", "received", "gaveUp"}
        /\ Top(t).at \in EarlyLabels
    BY <1>1, <2>2 DEF ClosingLabels, HoldingLabels, EarlyLabels, ChainLabels
  <2> QED
    BY <1>0, <1>1, <1>3, <2>2, <2>3, <2>5, <2>6, <2>7, ReplaceKeeps
<1> QED
  BY <1>4, <1>5 DEF Delayed

(* A receive thread ends.                                                  *)
LEMMA LoopEndsKeeps ==
    ASSUME ConstantsAssumption, TypeOK, Core, NEW t \in Threads, LoopEnds(t)
    PROVE  Core'
<1>1. /\ stack[t] # <<>> /\ Top(t).at = "loop"
      /\ UNCHANGED <<clientVars, renewVars, used, accepted>>
      /\ UNCHANGED recvLock
      /\ Leave(t)
  BY DEF LoopEnds, At, historyVars, lockVars
<1>2. ~Registers(Top(t)) /\ ~Stops(Top(t))
  BY <1>1 DEF Registers, Stops, ChainLabels, RegisterLabels
<1> QED
  BY <1>1, <1>2, LeaveKeeps DEF ClosingLabels, HoldingLabels

(* A receive thread reads the failure of the stream, holding recvLock.     *)
LEMMA ReceiveKeeps ==
    ASSUME ConstantsAssumption, TypeOK, Core, NEW t \in Receivers, Receive(t)
    PROVE  Core'
<1>0. t \in Threads
  BY DEF Threads
<1>1. /\ stack[t] # <<>> /\ Top(t).at = "loop"
      /\ UNCHANGED <<clientVars, renewVars, used, accepted>>
      /\ recvLock' = t
      /\ Invoke(t, "received", FailFrame(conn, gen, 0))
  BY DEF Receive, At, historyVars
<1>2. conn \in Nat /\ gen \in Nat
  BY DEF TypeOK
<1>3. Len(stack[t]) = 1
  BY <1>0, <1>1, TopFrame DEF Nested
<1>4. PICK f \in FrameType : /\ f = FailFrame(conn, gen, 0)
                             /\ f.at = "fail" /\ f.g = gen
  BY <1>2, NewFailFrame
<1>5. Invoke(t, "received", f) /\ f.g <= gen
  BY <1>1, <1>2, <1>4
<1> QED
  BY <1>0, <1>1, <1>3, <1>4, <1>5, WaysBack, InvokeKeeps DEF LockGoes

(* Back from that failure: the receive thread gives recvLock back.         *)
LEMMA ReceivedKeeps ==
    ASSUME ConstantsAssumption, TypeOK, Core, NEW t \in Threads, Received(t)
    PROVE  Core'
<1>1. /\ stack[t] # <<>> /\ Top(t).at = "received"
      /\ UNCHANGED <<clientVars, renewVars, used, accepted>>
      /\ recvLock' = None /\ Go(t, "loop")
  BY DEF Received, Release, At, historyVars
<1>2. /\ Top(t) \in FrameType /\ FrameOK(Top(t))
      /\ Top(t) = stack[t][1] /\ 1 \in 1..Len(stack[t]) /\ Nested(stack[t])
  BY <1>1, TopFrame
<1>3. Len(stack[t]) = 1
  BY <1>1, <1>2 DEF Nested
<1>4. ~Registers(Top(t)) /\ ~Stops(Top(t))
  BY <1>1 DEF Registers, Stops, ChainLabels, RegisterLabels
<1>5. "loop" \in Labels
  BY DEF Labels
<1>6. PICK f \in FrameType : f = [Top(t) EXCEPT !.at = "loop"]
  BY <1>2, <1>5 DEF FrameType
<1>7. f.at = "loop" /\ f.g = Top(t).g
  BY <1>2, <1>6 DEF FrameType
<1>8. Replace(t, f)
  BY <1>1, <1>6 DEF Go
<1>9. ~Registers(f) /\ f.at \notin EarlyLabels
  BY <1>7 DEF Registers, EarlyLabels, ChainLabels, RegisterLabels
<1>10. FrameOK(f)'
  BY <1>1, <1>2, <1>7, <1>9
     DEF FrameOK, clientVars, EarlyLabels, ChainLabels, ClosingLabels
<1>11. /\ Top(t).at \notin ClosingLabels \cup {"publish"}
       /\ Top(t).at \notin {"connect", "open", "undoStart"}
       /\ f.at \notin {"delay", "received", "gaveUp"}
  BY <1>1, <1>7 DEF ClosingLabels
<1> QED
  BY <1>1, <1>3, <1>4, <1>7, <1>8, <1>9, <1>10, <1>11, ReplaceKeeps

----------------------------------------------------------------------------
(* The connection of the run *)

(* What the turn of a thread keeps, whatever it does to the run.           *)
Stacks == StackType /\ FramesOK /\ StacksOK /\ LockInv /\ OneRegisters

(* A turn keeps what the stacks alone promise.                             *)
LEMMA TurnsCore ==
    ASSUME ConstantsAssumption, Core, NEW t \in Threads, NEW k,
           Turns(t, k), LockFits(t, k)
    PROVE  Stacks'
<1>1. StackType' /\ Moves(t, k)
  BY DEF Turns, Moves, StackType
<1> QED
  BY <1>1, FramesFit, StacksFit, LockMove, OneFits, Zenon DEF Core, Stacks

(* A turn that lets the register threads be needs only the sockets looked  *)
(* at.                                                                     *)
LEMMA RestsCore ==
    ASSUME ConstantsAssumption, Core, NEW t \in Threads, NEW k,
           Rests(t, k), LockFits(t, k), SocketInv'
    PROVE  Core'
<1>1. Turns(t, k)
  BY DEF Rests
<1>2. Stacks'
  BY <1>1, TurnsCore
<1>3. KeptAlive' /\ TimerInv'
  BY KeptFits, TimerFits, Zenon DEF Core
<1> QED
  BY <1>2, <1>3 DEF Core, Stacks

(* What a thread closes or cancels, another one does not change.           *)
LEMMA OthersStay ==
    ASSUME NEW t, NEW u \in Threads \ {t}, stack'[u] = stack[u]
    PROVE  /\ Top(u)' = Top(u)
           /\ \A label : At(u, label)' <=> At(u, label)
           /\ \A c : Closes(u, c)' <=> Closes(u, c)
           /\ \A w : Cancels(u, w)' <=> Cancels(u, w)
           /\ gen' = gen => (Opens(u)' <=> Opens(u))
<1>1. Top(u)' = Top(u)
  BY DEF Top
<1> QED
  BY <1>1 DEF At, Closes, Cancels, Opens

(* start() names the connection of its run, unless the run has ended.      *)
LEMMA ConnectKeeps ==
    ASSUME ConstantsAssumption, TypeOK, Core, NEW t \in Threads, Connect(t)
    PROVE  Core'
<1>1. /\ stack[t] # <<>> /\ Top(t).at = "connect"
      /\ UNCHANGED <<gen, nsd, opened, renewVars, used, accepted>>
      /\ UNCHANGED recvLock
  BY DEF Connect, At, historyVars, lockVars
<1>2. Top(t) \in FrameType /\ FrameOK(Top(t)) /\ ~Stops(Top(t))
  BY <1>1, TopFrame DEF Stops
<1>3. CASE Leave(t) /\ Top(t).g # gen /\ UNCHANGED conn
  <2>1. UNCHANGED <<clientVars, renewVars, used, accepted>>
    BY <1>3 DEF Connect, clientVars, historyVars
  <2>2. ~Registers(Top(t))
    BY <1>3 DEF Registers
  <2> QED
    BY <1>1, <1>2, <1>3, <2>1, <2>2, LeaveKeeps DEF ClosingLabels, HoldingLabels
<1>4. CASE Go(t, "open") /\ Top(t).g = gen /\ conn' = gen
  <2>1. "open" \in Labels
    BY DEF Labels, EarlyLabels, ChainLabels
  <2>2. PICK f \in FrameType : f = [Top(t) EXCEPT !.at = "open"]
    BY <1>2, <2>1 DEF FrameType
  <2>3. f.at = "open" /\ f.g = gen /\ f.ctx = Top(t).ctx
    BY <1>2, <1>4, <2>2 DEF FrameType
  <2>4. Replace(t, f)
    BY <1>4, <2>2 DEF Go
  <2>5. \A e : FrameOK(e) => FrameOK(e)'
    BY <1>1, <1>4 DEF FrameOK, renewVars
  <2>6. gen >= 1 /\ nsd
    BY <1>1, <1>2, <1>4 DEF FrameOK, ChainLabels
  <2>7. FrameOK(f)'
    BY <1>1, <1>2, <1>4, <2>3, <2>6 DEF FrameOK, RegisterLabels, ClosingLabels
  <2>8. Registers(f) /\ Registers(Top(t)) /\ Works(f)
    BY <1>1, <1>4, <2>3 DEF Registers, Works, ChainLabels
  <2>9. Top(t).at \in EarlyLabels
    BY <1>1 DEF EarlyLabels, ChainLabels
  <2>10. Turns(t, 1) /\ stack'[t][1] = f
    BY <1>1, <1>2, <2>3, <2>4, <2>5, <2>7, <2>8, <2>9, ReplaceTurns
  <2>11. 1 \in 1..1
    OBVIOUS
  <2>12. Rests(t, 1)
    BY <1>1, <2>8, <2>10, <2>11 DEF Rests, renewVars, ClosingLabels
  <2>13. LockFits(t, 1)
    BY <1>1 DEF LockFits, HoldingLabels
  <2>14. \A u \in Threads \ {t} : stack'[u] = stack[u]
    BY <2>10 DEF Turns, Moves
  <2>15. Opens(t)'
    <3>1. stack'[t] # <<>> /\ Top(t)' = f
      BY <2>10, <1>1 DEF Turns, Moves, Top
    <3> QED
      BY <1>1, <2>3, <3>1 DEF Opens
  <2>16. \A c \in opened' : c = conn' \/ \E u \in Threads : Closes(u, c)'
    <3> SUFFICES ASSUME NEW c \in opened, c # gen
                 PROVE  \E u \in Threads : Closes(u, c)'
      BY <1>1, <1>4
    <3>1. c # conn
      BY <1>2 DEF Core, SocketInv, TypeOK
    <3>2. PICK u \in Threads : Closes(u, c)
      BY <3>1 DEF Core, SocketInv
    <3>3. u # t
      BY <1>1, <3>2 DEF Closes, ClosingLabels
    <3> QED
      BY <2>14, <3>2, <3>3, OthersStay
  <2>17. SocketInv'
    BY <1>1, <1>4, <2>6, <2>15, <2>16 DEF SocketInv
  <2> QED
    BY <2>12, <2>13, <2>17, RestsCore
<1> QED
  BY <1>3, <1>4 DEF Connect, Return

(* A turn shows who is on top of the stack of t after it.                  *)
LEMMA TurnTop ==
    ASSUME NEW t \in Threads, NEW k, Turns(t, k)
    PROVE  /\ \A u \in Threads \ {t} : stack'[u] = stack[u]
           /\ k >= 1 => stack'[t] # <<>> /\ Top(t)' = stack'[t][1]
<1>1. /\ \A u \in Threads \ {t} : stack'[u] = stack[u]
      /\ stack'[t] \in Seq(FrameType) /\ k \in 0..2
      /\ Len(stack[t]) \in Nat \ {0} /\ Len(stack'[t]) = Len(stack[t]) + k - 1
  BY DEF Turns, Moves
<1>2. k >= 1 => stack'[t] # <<>>
  BY <1>1
<1> QED
  BY <1>1, <1>2 DEF Top

(* The socket of the run is opened; start() undoes the run if that fails.  *)
LEMMA OpenKeeps ==
    ASSUME ConstantsAssumption, TypeOK, Core, NEW t \in Threads, Open(t)
    PROVE  Core'
<1>1. /\ stack[t] # <<>> /\ Top(t).at = "open"
      /\ UNCHANGED <<gen, nsd, conn, renewVars, used, accepted>>
      /\ UNCHANGED recvLock
  BY DEF Open, At, historyVars, lockVars
<1>2. /\ Top(t) \in FrameType /\ FrameOK(Top(t)) /\ ~Stops(Top(t))
      /\ Top(t).g \in Nat
  BY <1>1, TopFrame DEF Stops, FrameType
<1>3. PICK l \in {"publish", "undoStart"} :
        /\ Go(t, l)
        /\ opened' = IF l = "publish" THEN opened \cup {Top(t).g} ELSE opened
  BY DEF Open
<1>4. l \in Labels
  BY DEF Labels, EarlyLabels, ChainLabels
<1>5. PICK f \in FrameType : f = [Top(t) EXCEPT !.at = l]
  BY <1>2, <1>4 DEF FrameType
<1>6. f.at = l /\ f.g = Top(t).g /\ f.ctx = Top(t).ctx
  BY <1>2, <1>5 DEF FrameType
<1>7. Replace(t, f)
  BY <1>3, <1>5 DEF Go
<1>8. \A e : FrameOK(e) => FrameOK(e)'
  BY <1>1 DEF FrameOK, renewVars
<1>9. FrameOK(f)'
  BY <1>1, <1>2, <1>6 DEF FrameOK, ChainLabels, RegisterLabels, ClosingLabels
<1>10. /\ Registers(f) => Registers(Top(t))
       /\ Registers(Top(t)) => Works(f)
       /\ Top(t).at \in EarlyLabels
  BY <1>1, <1>6 DEF Registers, Works, EarlyLabels, ChainLabels
<1>11. Turns(t, 1) /\ stack'[t][1] = f
  BY <1>1, <1>2, <1>6, <1>7, <1>8, <1>9, <1>10, ReplaceTurns
<1>12. 1 \in 1..1
  OBVIOUS
<1>13. Rests(t, 1)
  BY <1>1, <1>10, <1>11, <1>12 DEF Rests, renewVars, ClosingLabels
<1>14. LockFits(t, 1)
  BY <1>1 DEF LockFits, HoldingLabels
<1>15. /\ \A u \in Threads \ {t} : stack'[u] = stack[u]
       /\ stack'[t] # <<>> /\ Top(t)' = f
  BY <1>11, TurnTop
<1>16. /\ Top(t).g = gen => conn = gen
       /\ conn # 0 => nsd /\ conn = gen
  BY <1>1, <1>2 DEF FrameOK, Core, SocketInv
<1>17. ASSUME NEW c \in opened', c # conn
       PROVE  \E u \in Threads : Closes(u, c)'
  <2>1. CASE c \in opened
    <3>1. PICK u \in Threads : Closes(u, c)
      BY <1>17, <2>1 DEF Core, SocketInv
    <3>2. u # t
      BY <1>1, <3>1 DEF Closes, ClosingLabels
    <3> QED
      BY <1>15, <3>1, <3>2, OthersStay
  <2>2. CASE c \notin opened
    <3>1. c = Top(t).g /\ l = "publish"
      BY <1>3, <1>17, <2>2
    <3>2. Closes(t, c)'
      BY <1>6, <1>15, <3>1 DEF Closes
    <3> QED
      BY <3>2
  <2> QED
    BY <2>1, <2>2
<1>18. ASSUME nsd, ~(conn = gen /\ gen \in opened')
       PROVE  \E u \in Threads : Opens(u)'
  <2>1. ~(conn = gen /\ gen \in opened)
    BY <1>3, <1>18
  <2>2. PICK u \in Threads : Opens(u)
    BY <1>18, <2>1 DEF Core, SocketInv
  <2>3. CASE u # t
    BY <1>1, <1>15, <2>2, <2>3, OthersStay
  <2>4. CASE u = t
    <3>1. Top(t).g = gen
      BY <2>2, <2>4 DEF Opens
    <3>2. l = "undoStart"
      BY <1>3, <1>16, <1>18, <3>1
    <3>3. Opens(t)'
      BY <1>1, <1>6, <1>15, <3>1, <3>2 DEF Opens
    <3> QED
      BY <3>3
  <2> QED
    BY <2>3, <2>4
<1>19. SocketInv'
  BY <1>1, <1>16, <1>17, <1>18 DEF SocketInv
<1> QED
  BY <1>13, <1>14, <1>19, RestsCore

(* start() publishes the socket of its run and registers; if the run has   *)
(* ended, it closes that socket.                                           *)
LEMMA PublishKeeps ==
    ASSUME ConstantsAssumption, TypeOK, Core, NEW t \in Threads, Publish(t)
    PROVE  Core'
<1>1. /\ stack[t] # <<>> /\ Top(t).at = "publish"
      /\ UNCHANGED <<gen, nsd, conn, renewVars, used, accepted>>
      /\ UNCHANGED recvLock
  BY DEF Publish, At, historyVars, lockVars
<1>2. /\ Top(t) \in FrameType /\ FrameOK(Top(t)) /\ ~Stops(Top(t))
      /\ Top(t).g \in Nat /\ gen \in Nat
  BY <1>1, TopFrame DEF Stops, FrameType, TypeOK
<1>3. /\ Top(t).g = gen => conn = gen /\ nsd
      /\ conn # 0 => nsd /\ conn = gen
      /\ Top(t).g >= 1
  BY <1>1, <1>2 DEF FrameOK, Core, SocketInv, ChainLabels
<1>4. \A e : FrameOK(e) => FrameOK(e)'
  BY <1>1 DEF FrameOK, renewVars
<1>5. \A k : LockFits(t, k)
  BY <1>1 DEF LockFits, HoldingLabels
<1>6. CASE Leave(t) /\ Top(t).g # gen /\ opened' = opened \ {Top(t).g}
  <2>1. Turns(t, 0)
    BY <1>1, <1>2, <1>4, <1>6, LeaveTurns
  <2>2. Rests(t, 0)
    BY <1>1, <1>6, <2>1 DEF Rests, renewVars, ClosingLabels, Registers
  <2>3. \A u \in Threads \ {t} : stack'[u] = stack[u]
    BY <2>1, TurnTop
  <2>4. ASSUME NEW c \in opened', c # conn
        PROVE  \E u \in Threads : Closes(u, c)'
    <3>1. PICK u \in Threads : Closes(u, c)
      BY <1>6, <2>4 DEF Core, SocketInv
    <3>2. u # t
      BY <1>1, <1>6, <2>4, <3>1 DEF Closes, ClosingLabels
    <3> QED
      BY <2>3, <3>1, <3>2, OthersStay
  <2>5. ASSUME nsd, ~(conn = gen /\ gen \in opened')
        PROVE  \E u \in Threads : Opens(u)'
    <3>1. ~(conn = gen /\ gen \in opened)
      BY <1>6, <2>5
    <3>2. PICK u \in Threads : Opens(u)
      BY <2>5, <3>1 DEF Core, SocketInv
    <3>3. u # t
      BY <1>6, <3>2 DEF Opens
    <3> QED
      BY <1>1, <2>3, <3>2, <3>3, OthersStay
  <2>6. SocketInv'
    BY <1>1, <1>3, <2>4, <2>5 DEF SocketInv
  <2> QED
    BY <1>5, <2>2, <2>6, RestsCore
<1>7. CASE /\ Invoke(t, "registered", Frame("register", gen, gen))
           /\ Top(t).g = gen /\ opened' = opened
  <2>1. "registered" \in Labels /\ "register" \in Labels
    BY DEF Labels, EarlyLabels, ChainLabels, RegisterLabels
  <2>2. PICK f \in FrameType : /\ f = Frame("register", gen, gen)
                               /\ f.at = "register" /\ f.g = gen /\ f.ctx = gen
    BY <1>2, <2>1, NewFrame
  <2>3. PICK e \in FrameType : e = [Top(t) EXCEPT !.at = "registered"]
    BY <1>2, <2>1 DEF FrameType
  <2>4. e.at = "registered" /\ e.g = gen
    BY <1>2, <1>7, <2>3 DEF FrameType
  <2>5. Moves(t, 2) /\ stack'[t][1] = f /\ stack'[t][2] = e
    BY <1>1, <1>7, <2>1, <2>2, <2>3, InvokeMoves DEF Core
  <2>6. \A i \in 1..2 : i = 1 \/ i = 2
    OBVIOUS
  <2>7. FrameOK(f)' /\ FrameOK(e)'
    BY <1>1, <1>2, <1>3, <1>7, <2>2, <2>4
       DEF FrameOK, ChainLabels, RegisterLabels, ClosingLabels
  <2>8. /\ Registers(f) /\ Registers(Top(t)) /\ Works(f) /\ ~Registers(e)
        /\ Top(t).at \in EarlyLabels /\ e.at \notin EarlyLabels
    BY <1>1, <1>7, <2>2, <2>4
       DEF Registers, Works, EarlyLabels, ChainLabels, RegisterLabels
  <2>9. NestFits(t, 2)
    BY <2>2, <2>4, <2>5, <2>6, <2>8 DEF NestFits
  <2>10. Turns(t, 2)
    <3>1. \A i \in 1..2 :
            /\ \A x : x = stack'[t][i] => FrameOK(x)'
            /\ stack'[t][i].at \notin {"delay", "gaveUp"}
            /\ Registers(stack'[t][i]) => i = 1
      BY <2>2, <2>4, <2>5, <2>6, <2>7, <2>8
    <3> QED
      BY <1>1, <1>2, <1>4, <2>5, <2>8, <2>9, <3>1 DEF Turns
  <2>11. 1 \in 1..2
    OBVIOUS
  <2>12. Rests(t, 2)
    BY <1>1, <2>5, <2>8, <2>10, <2>11 DEF Rests, renewVars, ClosingLabels
  <2>13. \A u \in Threads \ {t} : stack'[u] = stack[u]
    BY <2>10, TurnTop
  <2>14. ASSUME NEW c \in opened, c # conn
        PROVE  \E u \in Threads : Closes(u, c)'
    <3>1. PICK u \in Threads : Closes(u, c)
      BY <2>14 DEF Core, SocketInv
    <3>2. u # t
      BY <1>1, <1>3, <1>7, <2>14, <3>1 DEF Closes, ClosingLabels
    <3> QED
      BY <2>13, <3>1, <3>2, OthersStay
  <2>15. ASSUME nsd, ~(conn = gen /\ gen \in opened)
        PROVE  \E u \in Threads : Opens(u)'
    <3>1. PICK u \in Threads : Opens(u)
      BY <2>15 DEF Core, SocketInv
    <3>2. u # t
      BY <1>1, <3>1 DEF Opens
    <3> QED
      BY <1>1, <2>13, <3>1, <3>2, OthersStay
  <2>16. SocketInv'
    BY <1>1, <1>3, <1>7, <2>14, <2>15 DEF SocketInv
  <2> QED
    BY <1>5, <2>12, <2>16, RestsCore
<1>8. \/ Leave(t) /\ Top(t).g # gen /\ opened' = opened \ {Top(t).g}
      \/ /\ Invoke(t, "registered", Frame("register", gen, gen))
         /\ Top(t).g = gen /\ opened' = opened
  <2>1. CASE Top(t).g = gen
    BY <1>3, <2>1 DEF Publish
  <2>2. CASE Top(t).g # gen
    <3>1. conn # Top(t).g
      BY <1>3, <2>2
    <3> QED
      BY <2>2, <3>1 DEF Publish, Return
  <2> QED
    BY <2>1, <2>2
<1> QED
  BY <1>6, <1>7, <1>8

----------------------------------------------------------------------------
(* Cleaning up, and the register thread *)

(* What an ended run held is cleaned up: its register thread cancelled,    *)
(* its socket closed, those of a later run left alone.                     *)
LEMMA CleanupKeeps ==
    ASSUME ConstantsAssumption, TypeOK, Core, NEW t \in Threads, Cleanup(t)
    PROVE  Core'
<1> DEFINE f == Top(t)
<1>1. /\ stack[t] # <<>> /\ f.at \in ClosingLabels
      /\ UNCHANGED <<gen, nsd, conn, used, accepted>>
      /\ UNCHANGED recvLock
      /\ cancelled' = cancelled \cup ({f.event} \cap Timers)
      /\ event' = IF event = f.event /\ event # Later THEN None ELSE event
      /\ opened' = IF f.conn = conn THEN opened ELSE opened \ {f.conn}
      /\ Leave(t) \/ Go(t, "report")
  BY DEF Cleanup, historyVars, lockVars, Return, Raise, ClosingLabels
<1>2. /\ f \in FrameType /\ FrameOK(f) /\ ~Stops(f) /\ ~Registers(f)
      /\ f.at \notin HoldingLabels \cup {"publish", "delay", "connect", "open",
                                        "undoStart"}
  BY <1>1, TopFrame
     DEF Stops, Registers, ClosingLabels, HoldingLabels, ChainLabels, RegisterLabels
<1>3. f.event \in Timers => f.event \in used \ {event}
  BY <1>1, <1>2 DEF FrameOK
<1>4. event' = event
  BY <1>1, <1>3 DEF TypeOK
<1>5. /\ conn # 0 => nsd /\ conn = gen
      /\ f.conn < gen /\ gen \in Nat /\ f.conn \in Nat
      /\ opened \subseteq 1..gen /\ conn \in 0..gen
  BY <1>1, <1>2 DEF FrameOK, FrameType, Core, SocketInv, TypeOK
<1>6. opened' = opened \ {f.conn} /\ (f.conn = conn => conn = 0)
  BY <1>1, <1>5
<1>7. \A e : FrameOK(e) => FrameOK(e)'
  BY <1>1, <1>4 DEF FrameOK
<1>8. PICK k \in {0, 1} : Turns(t, k)
  <2>1. CASE Leave(t)
    BY <1>1, <1>2, <1>7, <2>1, LeaveTurns
  <2>2. CASE Go(t, "report")
    <3>1. "report" \in Labels
      BY DEF Labels
    <3>2. PICK e \in FrameType : e = [f EXCEPT !.at = "report"]
      BY <1>2, <3>1 DEF FrameType
    <3>3. e.at = "report" /\ e.g = f.g
      BY <1>2, <3>2 DEF FrameType
    <3>4. Replace(t, e)
      BY <2>2, <3>2 DEF Go
    <3>5. ~Registers(e) /\ e.at \notin EarlyLabels
      BY <3>3 DEF Registers, EarlyLabels, ChainLabels, RegisterLabels
    <3>6. FrameOK(e)'
      BY <1>1, <1>2, <3>3, <3>5
         DEF FrameOK, EarlyLabels, ChainLabels, RegisterLabels, ClosingLabels
    <3>7. Turns(t, 1)
      BY <1>1, <1>2, <1>7, <3>3, <3>4, <3>5, <3>6, ReplaceTurns
    <3> QED
      BY <3>7
  <2> QED
    BY <1>1, <2>1, <2>2
<1> HIDE DEF f
<1>9. LockFits(t, k)
  BY <1>1, <1>2 DEF LockFits, f
<1>10. Stacks'
  BY <1>8, <1>9, TurnsCore
<1>11. \A u \in Threads \ {t} : stack'[u] = stack[u]
  BY <1>8, TurnTop
<1>12. KeptAlive'
  <2> SUFFICES ASSUME nsd, event # Later
               PROVE  \/ \E u \in Threads : \E i \in 1..Len(stack'[u]) :
                            Works(stack'[u][i])
                      \/ Armed'
    BY <1>1, <1>4 DEF KeptAlive, Works
  <2>1. CASE \E u \in Threads : \E i \in 1..Len(stack[u]) : Works(stack[u][i])
    <3>1. PICK u \in Threads : \E i \in 1..Len(stack[u]) : Works(stack[u][i])
      BY <2>1
    <3>2. PICK i \in 1..Len(stack[u]) : Works(stack[u][i])
      BY <3>1
    <3>3. CASE u # t
      BY <1>11, <3>2, <3>3
    <3>4. CASE u = t
      <4>1. i \in 2..Len(stack[t])
        <5>1. ~Works(f)
          BY <1>1, <1>2 DEF Works, Registers
        <5> QED
          BY <1>1, <3>2, <3>4, <5>1, TopFrame DEF f
      <4>0. Moves(t, k)
        BY <1>8 DEF Turns
      <4>2. /\ i + k - 1 \in 1..Len(stack'[t])
            /\ stack'[t][i + k - 1] = stack[t][i]
        BY <4>0, <4>1, Shift
      <4> QED
        BY <3>2, <3>4, <4>2
    <3> QED
      BY <3>3, <3>4
  <2>2. CASE Armed
    <3>1. event \in Threads \ {t}
      BY <1>2, <2>2 DEF Armed, At, Threads, f
    <3>2. Top(event)' = Top(event) /\ (At(event, "delay"))'
      BY <1>4, <1>11, <2>2, <3>1, OthersStay DEF Armed, At, Top
    <3>3. event \notin cancelled'
      BY <1>1, <1>3, <2>2 DEF Armed
    <3> QED
      BY <1>1, <1>4, <2>2, <3>2, <3>3 DEF Armed, Top
  <2> QED
    BY <2>1, <2>2 DEF Core, KeptAlive
<1>13. SocketInv'
  <2>1. ASSUME NEW c \in opened', c # conn
        PROVE  \E u \in Threads : Closes(u, c)'
    <3>1. PICK u \in Threads : Closes(u, c)
      BY <1>6, <2>1 DEF Core, SocketInv
    <3>2. u # t
      BY <1>2, <1>6, <2>1, <3>1 DEF Closes, f
    <3> QED
      BY <1>11, <3>1, <3>2, OthersStay
  <2>2. ASSUME nsd, ~(conn = gen /\ gen \in opened')
        PROVE  \E u \in Threads : Opens(u)'
    <3>1. ~(conn = gen /\ gen \in opened)
      BY <1>5, <1>6, <2>2
    <3>2. PICK u \in Threads : Opens(u)
      BY <2>2, <3>1 DEF Core, SocketInv
    <3>3. u # t
      BY <1>2, <3>2 DEF Opens, f
    <3> QED
      BY <1>1, <1>11, <3>2, <3>3, OthersStay
  <2> QED
    BY <1>1, <1>5, <2>1, <2>2 DEF SocketInv
<1>14. TimerInv'
  <2>1. ~At(t, "delay")'
    BY <1>8, TurnDelay DEF Core
  <2>2. ASSUME NEW w \in Timers, At(w, "delay")'
        PROVE  /\ event = w => nsd /\ Top(w)'.g = gen
               /\ w \in cancelled' \/ event = w \/ \E u \in Threads : Cancels(u, w)'
    <3>1. w \in Threads \ {t}
      BY <2>1, <2>2 DEF Threads
    <3>2. At(w, "delay") /\ Top(w)' = Top(w)
      BY <1>11, <2>2, <3>1, OthersStay
    <3>3. CASE \E u \in Threads : Cancels(u, w)
      <4>1. PICK u \in Threads : Cancels(u, w)
        BY <3>3
      <4>2. CASE u # t
        BY <1>11, <3>2, <4>1, <4>2, OthersStay DEF Core, TimerInv
      <4>3. CASE u = t
        <5>1. w \in cancelled'
          BY <1>1, <2>2, <4>1, <4>3 DEF Cancels, f
        <5> QED
          BY <3>2, <5>1 DEF Core, TimerInv
      <4> QED
        BY <4>2, <4>3
    <3>4. CASE ~\E u \in Threads : Cancels(u, w)
      BY <1>1, <3>2, <3>4 DEF Core, TimerInv
    <3> QED
      BY <3>3, <3>4
  <2>3. cancelled' \subseteq used'
    BY <1>1, <1>3 DEF Core, TimerInv
  <2> QED
    BY <1>1, <1>4, <2>2, <2>3 DEF Core, TimerInv
<1> QED
  BY <1>10, <1>12, <1>13, <1>14 DEF Core, Stacks

(* A thread that neither opens nor closes leaves the sockets as they are.  *)
LEMMA SocketStays ==
    ASSUME Core, NEW t \in Threads, UNCHANGED <<gen, nsd, conn, opened>>,
           \A u \in Threads \ {t} : stack[u] # <<>> => stack'[u] = stack[u],
           stack[t] # <<>> =>
               Top(t).at \notin ClosingLabels \cup {"publish", "connect", "open",
                                                  "undoStart"}
    PROVE  SocketInv'
<1>1. ASSUME NEW c \in opened, c # conn
      PROVE  \E u \in Threads : Closes(u, c)'
  <2>1. PICK u \in Threads : Closes(u, c)
    BY <1>1 DEF Core, SocketInv
  <2>2. u # t /\ stack[u] # <<>>
    BY <2>1 DEF Closes
  <2> QED
    BY <2>1, <2>2, OthersStay
<1>2. ASSUME nsd, ~(conn = gen /\ gen \in opened)
      PROVE  \E u \in Threads : Opens(u)'
  <2>1. PICK u \in Threads : Opens(u)
    BY <1>2 DEF Core, SocketInv
  <2>2. u # t /\ stack[u] # <<>>
    BY <2>1 DEF Opens
  <2> QED
    BY <2>1, <2>2, OthersStay
<1> QED
  BY <1>1, <1>2 DEF Core, SocketInv

(* The waiting register thread is cancelled before the next one is armed.  *)
LEMMA RenewKeeps ==
    ASSUME ConstantsAssumption, TypeOK, Core, NEW t \in Threads, Renew(t)
    PROVE  Core'
<1>1. /\ stack[t] # <<>> /\ Top(t).at = "renew"
      /\ UNCHANGED <<gen, nsd, conn, opened, used, accepted>>
      /\ UNCHANGED recvLock
  BY DEF Renew, At, clientVars, historyVars, lockVars
<1>2. Top(t) \in FrameType /\ FrameOK(Top(t)) /\ ~Stops(Top(t))
  BY <1>1, TopFrame DEF Stops
<1>3. CASE Leave(t) /\ ~(nsd /\ Top(t).g = gen) /\ UNCHANGED <<cancelled, event>>
  <2>1. UNCHANGED <<clientVars, renewVars, used, accepted>>
    BY <1>1, <1>3 DEF Renew, clientVars, renewVars, historyVars
  <2>2. ~Registers(Top(t))
    BY <1>1, <1>2, <1>3 DEF Registers, FrameOK
  <2> QED
    BY <1>1, <1>2, <1>3, <2>1, <2>2, LeaveKeeps DEF ClosingLabels, HoldingLabels
<1>4. CASE /\ nsd /\ Top(t).g = gen /\ Go(t, "arm") /\ event' = None
           /\ cancelled' = cancelled \cup ({event} \cap Timers)
  <2>1. "arm" \in Labels
    BY DEF Labels, EarlyLabels, ChainLabels, RegisterLabels
  <2>2. PICK f \in FrameType : f = [Top(t) EXCEPT !.at = "arm"]
    BY <1>2, <2>1 DEF FrameType
  <2>3. f.at = "arm" /\ f.g = gen /\ f.ctx = Top(t).ctx
    BY <1>2, <1>4, <2>2 DEF FrameType
  <2>4. Replace(t, f)
    BY <1>4, <2>2 DEF Go
  <2>5. \A e : FrameOK(e) => FrameOK(e)'
    BY <1>1, <1>4, ConstantsAssumption DEF FrameOK
  <2>6. FrameOK(f)'
    BY <1>1, <1>2, <1>4, <2>3 DEF FrameOK, ChainLabels, RegisterLabels, ClosingLabels
  <2>7. /\ Registers(f) /\ Registers(Top(t)) /\ Works(f)
        /\ Top(t).at \in EarlyLabels
    BY <1>1, <1>4, <2>3 DEF Registers, Works, EarlyLabels, ChainLabels, RegisterLabels
  <2>8. Turns(t, 1) /\ stack'[t][1] = f
    BY <1>1, <1>2, <2>3, <2>4, <2>5, <2>6, <2>7, ReplaceTurns
  <2>9. LockFits(t, 1)
    BY <1>1 DEF LockFits, HoldingLabels
  <2>10. Stacks'
    BY <2>8, <2>9, TurnsCore
  <2>11. \A u \in Threads \ {t} : stack'[u] = stack[u]
    BY <2>8, TurnTop
  <2>12. KeptAlive'
    <3>1. 1 \in 1..Len(stack'[t])
      BY <2>8 DEF Turns, Moves
    <3>2. \E i \in 1..Len(stack'[t]) : Works(stack'[t][i])
      BY <2>7, <2>8, <3>1
    <3> QED
      BY <1>1, <3>2 DEF KeptAlive, Works
  <2>13. SocketInv'
    <3>1. Top(t).at \notin ClosingLabels \cup {"publish", "connect", "open",
                                             "undoStart"}
      BY <1>1 DEF ClosingLabels
    <3> QED
      BY <1>1, <2>11, <3>1, SocketStays
  <2>14. TimerInv'
    <3>1. ~At(t, "delay")'
      BY <2>8, TurnDelay DEF Core
    <3>2. ASSUME NEW w \in Timers, At(w, "delay")'
          PROVE  w \in cancelled' \/ \E u \in Threads : Cancels(u, w)'
      <4>1. w \in Threads \ {t}
        BY <3>1, <3>2 DEF Threads
      <4>2. At(w, "delay")
        BY <2>11, <3>2, <4>1, OthersStay
      <4>3. CASE \E u \in Threads : Cancels(u, w)
        <5>1. PICK u \in Threads : Cancels(u, w)
          BY <4>3
        <5>2. u # t
          BY <1>1, <5>1 DEF Cancels, ClosingLabels
        <5> QED
          BY <2>11, <5>1, <5>2, OthersStay
      <4>4. CASE ~\E u \in Threads : Cancels(u, w)
        BY <1>4, <4>2, <4>4 DEF Core, TimerInv
      <4> QED
        BY <4>3, <4>4
    <3>3. cancelled' \subseteq used'
      BY <1>1, <1>4 DEF Core, TimerInv
    <3> QED
      BY <1>4, <3>2, <3>3, ConstantsAssumption DEF TimerInv
  <2> QED
    BY <2>10, <2>12, <2>13, <2>14 DEF Core, Stacks
<1> QED
  BY <1>1, <1>3, <1>4 DEF Renew, Return

(* The register thread that is about to be replaced has been cancelled.    *)
LEMMA NoOtherTimer ==
    ASSUME ConstantsAssumption, TypeOK, Core, NEW t \in Threads,
           stack[t] # <<>>, Top(t).at = "arm", Top(t).g = gen
    PROVE  \A w \in Timers : At(w, "delay") => event # w
<1> SUFFICES ASSUME NEW w \in Timers, At(w, "delay"), event = w
             PROVE  FALSE
  OBVIOUS
<1>1. w \in Threads /\ stack[w] # <<>> /\ Top(w).at = "delay"
  BY DEF Threads, At
<1>2. Top(w).g = gen
  BY DEF Core, TimerInv
<1>3. Registers(Top(w)) /\ Registers(Top(t))
  BY <1>1, <1>2 DEF Registers, ChainLabels, RegisterLabels
<1>4. /\ 1 \in 1..Len(stack[w]) /\ Top(w) = stack[w][1]
      /\ 1 \in 1..Len(stack[t]) /\ Top(t) = stack[t][1]
  BY <1>1, TopFrame
<1>5. w = t
  BY <1>1, <1>3, <1>4 DEF Core, OneRegisters
<1> QED
  BY <1>1, <1>5

(* The register thread that outlasts the behaviour takes over the run.     *)
LEMMA ArmLaterKeeps ==
    ASSUME ConstantsAssumption, TypeOK, Core, NEW t \in Threads,
           At(t, "arm"), Top(t).g = gen, nsd, Leave(t), event' = Later,
           UNCHANGED <<clientVars, cancelled, used, recvLock, accepted>>
    PROVE  Core'
<1>1. /\ stack[t] # <<>> /\ Top(t).at = "arm"
      /\ UNCHANGED <<gen, nsd, conn, opened, used, accepted, cancelled>>
  BY DEF At, clientVars
<1>2. Top(t) \in FrameType /\ FrameOK(Top(t)) /\ ~Stops(Top(t))
  BY <1>1, TopFrame DEF Stops
<1>3. \A e : FrameOK(e) => FrameOK(e)'
  BY <1>1, ConstantsAssumption DEF FrameOK
<1>4. Turns(t, 0)
  BY <1>1, <1>2, <1>3, LeaveTurns
<1>5. LockFits(t, 0)
  BY <1>1 DEF LockFits, HoldingLabels
<1>6. Stacks'
  BY <1>4, <1>5, TurnsCore
<1>7. \A u \in Threads \ {t} : stack'[u] = stack[u]
  BY <1>4, TurnTop
<1>8. KeptAlive'
  BY DEF KeptAlive
<1>9. SocketInv'
  <2>1. Top(t).at \notin ClosingLabels \cup {"publish", "connect", "open",
                                           "undoStart"}
    BY <1>1 DEF ClosingLabels
  <2> QED
    BY <1>1, <1>7, <2>1, SocketStays
<1>10. TimerInv'
  <2>1. ~At(t, "delay")'
    BY <1>4, TurnDelay DEF Core
  <2>2. ASSUME NEW w \in Timers, At(w, "delay")'
        PROVE  w \in cancelled \/ \E u \in Threads : Cancels(u, w)'
    <3>1. w \in Threads \ {t}
      BY <2>1, <2>2 DEF Threads
    <3>2. At(w, "delay")
      BY <1>7, <2>2, <3>1, OthersStay
    <3>3. event # w
      BY <1>1, <3>2, NoOtherTimer
    <3>4. w \in cancelled \/ \E u \in Threads : Cancels(u, w)
      BY <3>2, <3>3 DEF Core, TimerInv
    <3>5. \A u \in Threads : Cancels(u, w) => u # t
      BY <1>1 DEF Cancels, ClosingLabels
    <3> QED
      BY <1>7, <3>4, <3>5, OthersStay
  <2> QED
    BY <1>1, <2>2, ConstantsAssumption DEF Core, TimerInv
<1> QED
  BY <1>6, <1>8, <1>9, <1>10 DEF Core, Stacks

----------------------------------------------------------------------------
(* Threads that begin *)

(* The routine of t returns, and the daemon thread w starts with frame f.  *)
Spawns(t, w, f) ==
    /\ stack[t] # <<>>
    /\ w \in (Receivers \cup Timers) \ used /\ used' = used \cup {w}
    /\ stack' = [stack EXCEPT ![t] = Tail(@), ![w] = <<f>>]
    /\ gen' = gen
    /\ recvLock' = recvLock /\ Top(t).at \notin HoldingLabels
    /\ ~Stops(Top(t))
    /\ f.at \in {"delay", "loop"}
    /\ \A e : FrameOK(e) => FrameOK(e)'
    /\ FrameOK(f)'

(* Thread t leaves a routine and starts thread w with the frame f.         *)
LEMMA SpawnStacks ==
    ASSUME Core, NEW t \in Threads, NEW w, NEW f \in FrameType, Spawns(t, w, f)
    PROVE  /\ w \in Threads \ {t} /\ stack[w] = <<>>
           /\ StackType'
           /\ \A u \in Threads \ {t, w} : stack'[u] = stack[u]
           /\ Len(stack'[w]) = 1 /\ stack'[w][1] = f /\ stack'[w] # <<>>
           /\ Top(w)' = f
           /\ Top(t) = stack[t][1] /\ Len(stack[t]) \in Nat \ {0}
           /\ Len(stack'[t]) = Len(stack[t]) - 1
           /\ \A i \in 1..Len(stack'[t]) :
                 i + 1 \in 2..Len(stack[t]) /\ stack'[t][i] = stack[t][i + 1]
           /\ \A i \in 2..Len(stack[t]) :
                 i - 1 \in 1..Len(stack'[t]) /\ stack'[t][i - 1] = stack[t][i]
<1>1. w \in Threads \ {t} /\ stack[w] = <<>> /\ stack[t] \in Seq(FrameType)
  BY DEF Spawns, Core, StacksOK, StackType, Threads
<1>2. /\ stack'[t] = Tail(stack[t]) /\ stack'[w] = <<f>>
      /\ \A u \in Threads \ {t, w} : stack'[u] = stack[u]
  BY <1>1 DEF Spawns, Core, StackType
<1>3. /\ Tail(stack[t]) \in Seq(FrameType)
      /\ Len(Tail(stack[t])) = Len(stack[t]) - 1
      /\ \A i \in 1..Len(Tail(stack[t])) : Tail(stack[t])[i] = stack[t][i + 1]
      /\ Top(t) = stack[t][1] /\ Len(stack[t]) \in Nat \ {0}
  BY <1>1, HeadTailProperties, EmptySeq DEF Spawns, Top
<1>4. StackType'
  <2>1. stack' = [stack EXCEPT ![t] = stack'[t], ![w] = stack'[w]]
    BY <1>1, <1>2 DEF Spawns, Core, StackType
  <2>2. stack'[t] \in Seq(FrameType) /\ stack'[w] \in Seq(FrameType)
    BY <1>2, <1>3
  <2> QED
    BY <1>1, <2>1, <2>2 DEF Core, StackType
<1>5. /\ Len(stack'[w]) = 1 /\ stack'[w][1] = f /\ stack'[w] # <<>>
      /\ Top(w)' = f
  BY <1>2 DEF Top
<1> DEFINE s == stack[t]
           r == stack'[t]
<1>6. /\ Len(r) = Len(s) - 1
      /\ \A i \in 1..Len(r) : r[i] = s[i + 1]
      /\ Len(s) \in Nat \ {0}
  BY <1>2, <1>3
<1> HIDE DEF s, r
<1>7. \A i \in 1..Len(r) : i + 1 \in 2..Len(s) /\ r[i] = s[i + 1]
  BY <1>6
<1>8. ASSUME NEW i \in 2..Len(s)
      PROVE  i - 1 \in 1..Len(r) /\ r[i - 1] = s[i]
  <2> DEFINE j == i - 1
  <2>1. j \in 1..Len(r) /\ j + 1 = i
    BY <1>6
  <2> HIDE DEF j
  <2>2. r[j] = s[i]
    BY <1>6, <2>1
  <2> QED
    BY <2>1, <2>2 DEF j
<1> QED
  BY <1>1, <1>2, <1>3, <1>4, <1>5, <1>6, <1>7, <1>8 DEF s, r

(* A thread started at a frame that relies on nothing else keeps what the  *)
(* stacks promise.                                                         *)
LEMMA SpawnKeeps ==
    ASSUME ConstantsAssumption, Core, NEW t \in Threads, NEW w,
           NEW f \in FrameType, Spawns(t, w, f)
    PROVE  /\ StackType' /\ FramesOK' /\ StacksOK' /\ LockInv'
           /\ ~At(t, "delay")'
<1>1. /\ w \in Threads \ {t} /\ stack[w] = <<>>
      /\ StackType'
      /\ \A u \in Threads \ {t, w} : stack'[u] = stack[u]
      /\ Len(stack'[w]) = 1 /\ stack'[w][1] = f
      /\ Top(t) = stack[t][1] /\ Len(stack[t]) \in Nat \ {0}
      /\ Len(stack'[t]) = Len(stack[t]) - 1
      /\ \A i \in 1..Len(stack'[t]) :
            i + 1 \in 2..Len(stack[t]) /\ stack'[t][i] = stack[t][i + 1]
      /\ \A i \in 2..Len(stack[t]) :
            i - 1 \in 1..Len(stack'[t]) /\ stack'[t][i - 1] = stack[t][i]
  BY SpawnStacks
<1>2. FramesOK'
  <2> SUFFICES ASSUME NEW u \in Threads, NEW i \in 1..Len(stack'[u]),
                      NEW e, e = stack'[u][i]
               PROVE  FrameOK(e)'
    BY DEF FramesOK, FrameOK
  <2>1. CASE u = w
    BY <1>1, <2>1 DEF Spawns
  <2>2. CASE u = t
    <3>1. e = stack[t][i + 1] /\ i + 1 \in 1..Len(stack[t])
      BY <1>1, <2>2
    <3> QED
      BY <3>1 DEF Core, FramesOK, Spawns
  <2>3. CASE u \notin {t, w}
    BY <1>1, <2>3 DEF Core, FramesOK, Spawns
  <2> QED
    BY <2>1, <2>2, <2>3
<1>3. ASSUME NEW u \in Threads PROVE Nested(stack'[u])
  <2>1. CASE u = w
    <3>1. \A i \in 1..Len(stack'[w]) : i = 1 /\ i = Len(stack'[w])
      BY <1>1
    <3>2. \A i, j \in 1..Len(stack'[w]) : ~(j > i)
      BY <3>1
    <3> QED
      BY <1>1, <2>1, <3>1, <3>2 DEF Nested
  <2>2. CASE u = t
    <3>1. Nested(stack[t])
      BY DEF Core, StacksOK
    <3> SUFFICES ASSUME NEW i \in 1..Len(stack'[t])
                 PROVE  /\ stack'[t][i].at \in {"delay", "loop"} => Len(stack'[t]) = 1
                        /\ stack'[t][i].at = "received" => i = Len(stack'[t])
                        /\ stack'[t][i].at \in EarlyLabels =>
                              \A j \in 1..Len(stack'[t]) : j > i =>
                                 stack'[t][j].at \in {"registered", "phoneStarted"}
      BY <2>2 DEF Nested
    <3>2. /\ i + 1 \in 1..Len(stack[t]) /\ stack'[t][i] = stack[t][i + 1]
          /\ Len(stack[t]) # 1
      BY <1>1
    <3>3. /\ stack'[t][i].at \notin {"delay", "loop"}
          /\ stack'[t][i].at = "received" => i + 1 = Len(stack[t])
      BY <3>1, <3>2 DEF Nested
    <3>4. ASSUME stack'[t][i].at \in EarlyLabels,
                 NEW j \in 1..Len(stack'[t]), j > i
          PROVE  stack'[t][j].at \in {"registered", "phoneStarted"}
      <4>1. /\ j + 1 \in 1..Len(stack[t]) /\ j + 1 > i + 1
            /\ stack'[t][j] = stack[t][j + 1]
        BY <1>1, <3>4
      <4> QED
        BY <3>1, <3>2, <3>4, <4>1 DEF Nested
    <3>5. i + 1 = Len(stack[t]) => i = Len(stack'[t])
      BY <1>1
    <3> QED
      BY <3>3, <3>4, <3>5
  <2>3. CASE u \notin {t, w}
    BY <1>1, <2>3 DEF Core, StacksOK
  <2> QED
    BY <2>1, <2>2, <2>3
<1>4. ASSUME NEW u \in Threads PROVE Stopping(stack[u])'
  <2>0. gen' = gen
    BY DEF Spawns
  <2>1. CASE u = w
    BY <1>1, <2>1 DEF Stopping, Spawns
  <2>2. CASE u = t
    <3> SUFFICES ASSUME NEW i \in 1..Len(stack'[t]),
                        stack'[t][i].at = "gaveUp", stack'[t][i].g = gen
                 PROVE  i > 1 /\ Stops(stack'[t][i - 1])
      BY <2>0, <2>2 DEF Stopping, Stops
    <3>1. i + 1 \in 2..Len(stack[t]) /\ stack'[t][i] = stack[t][i + 1]
      BY <1>1
    <3>2. Stops(stack[t][i + 1 - 1])
      BY <3>1 DEF Core, StacksOK, Stopping
    <3>3. Stops(stack[t][i])
      BY <3>2
    <3>4. i # 1
      BY <1>1, <3>3 DEF Spawns
    <3>5. i \in 2..Len(stack[t])
      BY <3>1, <3>4
    <3> QED
      BY <1>1, <3>3, <3>5
  <2>3. CASE u \notin {t, w}
    BY <1>1, <2>0, <2>3 DEF Core, StacksOK, Stopping, Stops
  <2> QED
    BY <2>1, <2>2, <2>3
<1>5. \A u \in Receivers \cup Timers : u \notin used' => stack'[u] = <<>>
  <2> SUFFICES ASSUME NEW u \in Receivers \cup Timers, u \notin used'
               PROVE  stack'[u] = <<>>
    OBVIOUS
  <2>1. u \in Threads /\ u # w /\ stack[u] = <<>>
    BY DEF Threads, Spawns, Core, StacksOK
  <2>2. u # t
    BY <2>1 DEF Spawns
  <2> QED
    BY <1>1, <2>1, <2>2
<1>6. StacksOK'
  BY <1>3, <1>4, <1>5 DEF StacksOK
<1>7. LockInv'
  <2> SUFFICES ASSUME NEW u \in Threads, recvLock' = u
               PROVE  \E i \in 1..Len(stack'[u]) : stack'[u][i].at \in HoldingLabels
    BY DEF LockInv
  <2>1. PICK i \in 1..Len(stack[u]) : stack[u][i].at \in HoldingLabels
    BY DEF Core, LockInv, Spawns
  <2>2. u # w
    BY <1>1, <2>1
  <2>3. CASE u = t
    <3>1. i \in 2..Len(stack[t])
      BY <1>1, <2>1, <2>3 DEF Spawns
    <3> QED
      BY <1>1, <2>1, <2>3, <3>1
  <2>4. CASE u # t
    BY <1>1, <2>1, <2>2, <2>4
  <2> QED
    BY <2>3, <2>4
<1>8. ~At(t, "delay")'
  <2> SUFFICES ASSUME stack'[t] # <<>>, Top(t)'.at = "delay" PROVE FALSE
    BY DEF At
  <2>1. stack'[t] \in Seq(FrameType)
    BY <1>1 DEF StackType
  <2>2. Len(stack'[t]) \in Nat \ {0} /\ Top(t)' = stack'[t][1]
    BY <2>1, EmptySeq DEF Top
  <2>3. 2 \in 1..Len(stack[t]) /\ stack[t][2].at = "delay"
    BY <1>1, <2>2
  <2>4. Nested(stack[t])
    BY DEF Core, StacksOK
  <2> QED
    BY <2>3, <2>4 DEF Nested
<1> QED
  BY <1>1, <1>2, <1>6, <1>7, <1>8

(* start() starts the receive thread of its run, unless the run has ended. *)
LEMMA RegisteredKeeps ==
    ASSUME ConstantsAssumption, TypeOK, Core, NEW t \in Threads, Registered(t)
    PROVE  Core'
<1>1. /\ stack[t] # <<>> /\ Top(t).at = "registered"
      /\ UNCHANGED <<clientVars, renewVars, accepted>>
      /\ UNCHANGED recvLock
  BY DEF Registered, At, historyVars, lockVars
<1>2. /\ Top(t) \in FrameType /\ FrameOK(Top(t)) /\ Top(t).g \in Nat
      /\ ~Stops(Top(t)) /\ ~Registers(Top(t)) /\ ~Works(Top(t))
      /\ Top(t).at \notin HoldingLabels \cup ClosingLabels
      /\ Top(t).at \notin {"publish", "connect", "open", "undoStart"}
  BY <1>1, TopFrame
     DEF Stops, Registers, Works, ChainLabels, RegisterLabels, ClosingLabels,
         HoldingLabels, FrameType
<1>3. CASE Leave(t) /\ used' = used
  BY <1>1, <1>2, <1>3, LeaveKeeps
<1>4. CASE Go(t, "undoStart") /\ used' = used
  BY <1>1, <1>4, WaysOn, GoKeeps DEF LockGoes
<1>5. ASSUME NEW r \in Receivers \ used, used' = used \cup {r},
             stack' = [stack EXCEPT ![t] = Tail(@),
                                    ![r] = <<Frame("loop", Top(t).g, 0)>>]
      PROVE  Core'
  <2>1. "loop" \in Labels
    BY DEF Labels
  <2>2. PICK f \in FrameType : /\ f = Frame("loop", Top(t).g, 0)
                               /\ f.at = "loop" /\ f.g = Top(t).g
    BY <1>2, <2>1, NewFrame
  <2>3. UNCHANGED <<gen, nsd, conn, opened, event, cancelled, accepted>>
    BY <1>1 DEF clientVars, renewVars
  <2>4. \A e : FrameOK(e) => FrameOK(e)'
    BY <1>5, <2>3 DEF FrameOK
  <2>5. FrameOK(f)' /\ ~Registers(f)
    BY <1>2, <2>2, <2>3
       DEF FrameOK, ChainLabels, RegisterLabels, ClosingLabels, Registers
  <2>6. Spawns(t, r, f)
    BY <1>1, <1>2, <1>5, <2>2, <2>3, <2>4, <2>5 DEF Spawns
  <2>7. /\ r \in Threads \ {t} /\ stack[r] = <<>>
        /\ \A u \in Threads \ {t, r} : stack'[u] = stack[u]
        /\ Len(stack'[r]) = 1 /\ stack'[r][1] = f /\ Top(r)' = f
        /\ Top(t) = stack[t][1] /\ Len(stack[t]) \in Nat \ {0}
        /\ \A i \in 1..Len(stack'[t]) :
              i + 1 \in 2..Len(stack[t]) /\ stack'[t][i] = stack[t][i + 1]
        /\ \A i \in 2..Len(stack[t]) :
              i - 1 \in 1..Len(stack'[t]) /\ stack'[t][i - 1] = stack[t][i]
    BY <2>6, SpawnStacks
  <2>8. /\ StackType' /\ FramesOK' /\ StacksOK' /\ LockInv'
        /\ ~At(t, "delay")'
    BY <2>6, SpawnKeeps
  <2>9. OneRegisters'
    <3>1. \A u \in Threads : \A i \in 1..Len(stack'[u]) :
            Registers(stack'[u][i]) =>
               /\ u # r
               /\ \E j \in 1..Len(stack[u]) :
                     /\ Registers(stack[u][j])
                     /\ j = IF u = t THEN i + 1 ELSE i
      BY <2>5, <2>7
    <3> SUFFICES ASSUME NEW u \in Threads, NEW v \in Threads,
                        NEW i \in 1..Len(stack'[u]), NEW j \in 1..Len(stack'[v]),
                        Registers(stack'[u][i]), Registers(stack'[v][j])
                 PROVE  u = v /\ i = j
      BY <2>3 DEF OneRegisters, Registers
    <3>2. PICK m \in 1..Len(stack[u]), n \in 1..Len(stack[v]) :
            /\ Registers(stack[u][m]) /\ Registers(stack[v][n])
            /\ m = IF u = t THEN i + 1 ELSE i
            /\ n = IF v = t THEN j + 1 ELSE j
      BY <3>1
    <3>3. u = v /\ m = n
      BY <3>2 DEF Core, OneRegisters
    <3> QED
      BY <3>2, <3>3
  <2>10. KeptAlive'
    <3> SUFFICES ASSUME nsd, event # Later
                 PROVE  \/ \E u \in Threads : \E i \in 1..Len(stack'[u]) :
                              Works(stack'[u][i])
                        \/ Armed'
      BY <2>3 DEF KeptAlive, Works
    <3>1. ASSUME NEW u \in Threads, NEW i \in 1..Len(stack[u]), Works(stack[u][i])
          PROVE  \E j \in 1..Len(stack'[u]) : Works(stack'[u][j])
      <4>1. u # r
        BY <2>7
      <4>2. CASE u = t
        <5>1. i \in 2..Len(stack[t])
          BY <1>2, <2>7, <3>1, <4>2
        <5> QED
          BY <2>7, <3>1, <4>2, <5>1
      <4>3. CASE u # t
        BY <2>7, <3>1, <4>1, <4>3
      <4> QED
        BY <4>2, <4>3
    <3>2. ASSUME Armed PROVE Armed'
      <4>1. event \in Threads \ {t, r} /\ At(event, "delay")
        BY <1>1, <2>7, <3>2 DEF Armed, At, Threads
      <4>2. Top(event)' = Top(event) /\ (At(event, "delay"))'
        BY <2>3, <2>7, <4>1 DEF At, Top
      <4> QED
        BY <2>3, <3>2, <4>2 DEF Armed, Top
    <3> QED
      BY <3>1, <3>2 DEF Core, KeptAlive
  <2>11. SocketInv'
    BY <1>2, <2>3, <2>7, SocketStays
  <2>12. TimerInv'
    <3>1. ASSUME NEW w \in Timers, At(w, "delay")'
          PROVE  At(w, "delay") /\ Top(w)' = Top(w)
      <4>1. w # t /\ w # r
        BY <2>2, <2>7, <2>8, <3>1 DEF At
      <4> QED
        BY <2>7, <3>1, <4>1, OthersStay DEF Threads
    <3>2. \A u \in Threads : \A w : Cancels(u, w) => Cancels(u, w)'
      <4> SUFFICES ASSUME NEW u \in Threads, NEW w, Cancels(u, w)
                   PROVE  Cancels(u, w)'
        OBVIOUS
      <4>1. u # t /\ u # r
        BY <1>2, <2>7 DEF Cancels
      <4> QED
        BY <2>7, <4>1, OthersStay
    <3> QED
      BY <1>5, <2>3, <3>1, <3>2 DEF Core, TimerInv
  <2> QED
    BY <2>8, <2>9, <2>10, <2>11, <2>12 DEF Core
<1> QED
  BY <1>1, <1>3, <1>4, <1>5 DEF Registered, Return

(* The new register thread takes over the run.                             *)
LEMMA ArmSpawnKeeps ==
    ASSUME ConstantsAssumption, TypeOK, Core, NEW t \in Threads,
           At(t, "arm"), Top(t).g = gen, nsd,
           NEW w \in Timers, event' = w,
           NEW f \in FrameType, f.at = "delay", f.g = gen, Spawns(t, w, f),
           UNCHANGED <<clientVars, cancelled>>
    PROVE  Core'
<1>1. /\ stack[t] # <<>> /\ Top(t).at = "arm"
      /\ UNCHANGED <<gen, nsd, conn, opened, cancelled>>
  BY DEF At, clientVars
<1>2. /\ Registers(Top(t))
      /\ Top(t).at \notin HoldingLabels \cup ClosingLabels
      /\ Top(t).at \notin {"publish", "connect", "open", "undoStart"}
  BY <1>1
     DEF Registers, ChainLabels, RegisterLabels, ClosingLabels, HoldingLabels
<1>9. /\ w \in Threads \ {t} /\ stack[w] = <<>>
      /\ \A u \in Threads \ {t, w} : stack'[u] = stack[u]
      /\ Len(stack'[w]) = 1 /\ stack'[w][1] = f /\ stack'[w] # <<>>
      /\ Top(w)' = f
      /\ Top(t) = stack[t][1] /\ Len(stack[t]) \in Nat \ {0}
  BY SpawnStacks
<1>15. \A i \in 1..Len(stack'[t]) :
          i + 1 \in 2..Len(stack[t]) /\ stack'[t][i] = stack[t][i + 1]
  BY SpawnStacks
<1>10. /\ StackType' /\ FramesOK' /\ StacksOK' /\ LockInv'
       /\ ~At(t, "delay")'
  BY SpawnKeeps
<1>11. OneRegisters'
  <2>1. 1 \in 1..Len(stack[t]) /\ Registers(stack[t][1])
    BY <1>2, <1>9
  <2>2. ASSUME NEW u \in Threads, NEW i \in 1..Len(stack'[u]),
               Registers(stack'[u][i])
        PROVE  u = w /\ i = 1
    <3>1. CASE u = w
      <4>1. i \in 1..1
        BY <1>9, <2>2, <3>1
      <4> QED
        BY <3>1, <4>1
    <3>2. CASE u = t
      <4>1. i + 1 \in 2..Len(stack[t]) /\ Registers(stack[t][i + 1])
        BY <1>15, <2>2, <3>2
      <4> QED
        BY <2>1, <4>1 DEF Core, OneRegisters
    <3>3. CASE u \notin {t, w}
      <4>1. i \in 1..Len(stack[u]) /\ Registers(stack[u][i])
        BY <1>9, <2>2, <3>3
      <4> QED
        BY <2>1, <3>3, <4>1 DEF Core, OneRegisters
    <3> QED
      BY <3>1, <3>2, <3>3
  <2> QED
    BY <1>1, <2>2 DEF OneRegisters, Registers
<1>12. KeptAlive'
  <2>1. At(w, "delay")' /\ Top(w)'.g = gen
    BY <1>9 DEF At
  <2>2. w \in Timers \ cancelled
    BY DEF Core, TimerInv, Spawns
  <2>3. Armed'
    <3>1. event' \in Timers \ cancelled' /\ gen' = gen
      BY <1>1, <2>2
    <3>2. At(event, "delay")' /\ Top(event)'.g = gen
      BY <2>1 DEF At, Top
    <3> QED
      BY <3>1, <3>2 DEF Armed
  <2> QED
    BY <2>3 DEF KeptAlive
<1>13. SocketInv'
  BY <1>1, <1>2, <1>9, SocketStays
<1>14. TimerInv'
  <2>1. ASSUME NEW v \in Timers, At(v, "delay")', v # w
        PROVE  v \in cancelled \/ \E u \in Threads : Cancels(u, v)'
    <3>1. v # t
      BY <1>10, <2>1
    <3>2. At(v, "delay")
      BY <1>9, <2>1, <3>1, OthersStay DEF Threads
    <3>3. event # v
      BY <1>1, <3>2, NoOtherTimer
    <3>4. v \in cancelled \/ \E u \in Threads : Cancels(u, v)
      BY <3>2, <3>3 DEF Core, TimerInv
    <3>5. \A u \in Threads : Cancels(u, v) => u # t /\ u # w
      BY <1>2, <1>9 DEF Cancels
    <3> QED
      BY <1>9, <3>4, <3>5, OthersStay
  <2>2. Top(w)'.g = gen
    BY <1>9
  <2> QED
    BY <1>1, <2>1, <2>2 DEF Core, TimerInv, Spawns
<1> QED
  BY <1>10, <1>11, <1>12, <1>13, <1>14 DEF Core

(* A register thread is armed, unless the run has ended.                   *)
LEMMA ArmKeeps ==
    ASSUME ConstantsAssumption, TypeOK, Core, NEW t \in Threads, Arm(t)
    PROVE  Core'
<1>1. /\ At(t, "arm") /\ stack[t] # <<>> /\ Top(t).at = "arm"
      /\ UNCHANGED <<clientVars, cancelled, accepted, recvLock>>
  BY DEF Arm, At, historyVars, lockVars
<1>2. CASE (~nsd \/ Top(t).g # gen) /\ Leave(t) /\ UNCHANGED <<event, renewing, used>>
  <2>1. ~Registers(Top(t)) /\ ~Stops(Top(t))
    BY <1>1, <1>2, TopFrame DEF Registers, FrameOK, Stops
  <2> QED
    BY <1>1, <1>2, <2>1, LeaveKeeps
       DEF renewVars, ClosingLabels, HoldingLabels
<1>3. CASE nsd /\ Top(t).g = gen /\ event' = Later /\ Leave(t) /\ UNCHANGED used
  BY <1>1, <1>3, ArmLaterKeeps
<1>4. ASSUME nsd, Top(t).g = gen, NEW w \in Timers \ used, event' = w,
             used' = used \cup {w},
             stack' = [stack EXCEPT ![t] = Tail(@),
                                    ![w] = <<Frame("delay", gen, 0)>>]
      PROVE  Core'
  <2>1. Top(t) \in FrameType /\ FrameOK(Top(t)) /\ gen \in Nat
    BY <1>1, TopFrame DEF TypeOK
  <2>2. "delay" \in Labels
    BY DEF Labels, EarlyLabels, ChainLabels
  <2>3. PICK f \in FrameType : /\ f = Frame("delay", gen, 0)
                               /\ f.at = "delay" /\ f.g = gen
    BY <2>1, <2>2, NewFrame
  <2>4. UNCHANGED <<gen, nsd, conn, opened, accepted>>
    BY <1>1 DEF clientVars
  <2>5. \A e : FrameOK(e) => FrameOK(e)'
    BY <1>4, <2>4 DEF FrameOK
  <2>6. gen >= 1
    BY <1>1, <1>4, <2>1 DEF FrameOK, ChainLabels, RegisterLabels
  <2>7. FrameOK(f)'
    BY <1>4, <2>1, <2>3, <2>4, <2>6 DEF FrameOK, RegisterLabels, ClosingLabels
  <2>8. Spawns(t, w, f)
    BY <1>1, <1>4, <2>3, <2>4, <2>5, <2>7 DEF Spawns, Stops, HoldingLabels
  <2> QED
    BY <1>1, <1>4, <2>3, <2>8, ArmSpawnKeeps
<1> QED
  BY <1>2, <1>3, <1>4 DEF Arm

----------------------------------------------------------------------------
(* A run begins, and a run ends *)

(* The generation goes up: what a frame of the old run did is over.        *)
LEMMA RaiseGen ==
    ASSUME ConstantsAssumption, TypeOK, Core, NEW t \in Threads, stack[t] # <<>>,
           NEW f \in FrameType, Replace(t, f),
           gen' = gen + 1, used' = used, event' \in {event, None},
           recvLock' = recvLock, Top(t).at \notin HoldingLabels,
           f.at \notin {"delay", "loop", "received", "gaveUp"},
           f.at \in EarlyLabels => Top(t).at \in EarlyLabels,
           FrameOK(f)'
    PROVE  /\ Stacks'
           /\ stack'[t] # <<>> /\ Top(t)' = f
           /\ 1 \in 1..Len(stack'[t]) /\ stack'[t][1] = f
           /\ \A u \in Threads \ {t} : stack'[u] = stack[u]
<1>1. Moves(t, 1) /\ stack'[t][1] = f
  BY ReplaceMoves DEF Core
<1>2. \A i \in 1..1 : i = 1
  OBVIOUS
<1>3. StackType'
  BY <1>1 DEF Moves, StackType
<1>4. NestFits(t, 1)
  BY <1>1, <1>2 DEF NestFits
<1>5. \A u \in Threads : Nested(stack'[u])
  <2>1. Nested(stack'[t])
    BY <1>1, <1>4, NestedMove DEF Core, StacksOK
  <2> QED
    BY <1>1, <2>1 DEF Moves, Core, StacksOK
<1>6. \A u \in Threads : \A i \in 1..Len(stack'[u]) :
          \/ u = t /\ i = 1
          \/ /\ stack'[u][i] = stack[u][i] /\ i \in 1..Len(stack[u])
             /\ FrameOK(stack[u][i]) /\ stack[u][i].g <= gen
  <2> SUFFICES ASSUME NEW u \in Threads, NEW i \in 1..Len(stack'[u]),
                      ~(u = t /\ i = 1)
               PROVE  stack'[u][i] = stack[u][i] /\ i \in 1..Len(stack[u])
    BY DEF Core, FramesOK, FrameOK
  <2>1. CASE u # t
    BY <1>1, <2>1 DEF Moves
  <2>2. CASE u = t
    <3>1. Len(stack'[t]) = Len(stack[t]) /\ Len(stack[t]) \in Nat
      BY <1>1 DEF Moves
    <3>2. i > 1
      BY <2>2, <3>1
    <3>3. i - 1 + 1 \in 2..Len(stack[t]) /\ stack'[t][i] = stack[t][i - 1 + 1]
      BY <1>1, <2>2, <3>2, Shift
    <3> QED
      BY <2>2, <3>1, <3>2, <3>3
  <2> QED
    BY <2>1, <2>2
<1>7. \A e : FrameOK(e) /\ e.g <= gen /\ e \in FrameType => FrameOK(e)'
  <2> SUFFICES ASSUME NEW e \in FrameType, FrameOK(e), e.g <= gen
               PROVE  FrameOK(e)'
    OBVIOUS
  <2>0. e.g \in Nat /\ e.conn \in Nat
    BY DEF FrameType
  <2>1. e.g \in Nat /\ gen \in Nat /\ e.conn \in Nat /\ e.g # gen'
    BY <2>0, <1>1 DEF TypeOK
  <2>2. e.at \in ClosingLabels /\ e.event \in Timers =>
            e.event \in used \ {event'}
    BY ConstantsAssumption DEF FrameOK
  <2> QED
    BY <2>1, <2>2 DEF FrameOK
<1>8. FramesOK'
  <2> SUFFICES ASSUME NEW u \in Threads, NEW i \in 1..Len(stack'[u]),
                      NEW e, e = stack'[u][i]
               PROVE  FrameOK(e)'
    BY DEF FramesOK, FrameOK
  <2>1. CASE u = t /\ i = 1
    BY <1>1, <2>1
  <2>2. CASE ~(u = t /\ i = 1)
    <3>1. e = stack[u][i] /\ i \in 1..Len(stack[u]) /\ FrameOK(e) /\ e.g <= gen
      BY <1>6, <2>2
    <3>2. stack[u] \in Seq(FrameType)
      BY DEF Core, StackType
    <3>3. e \in FrameType
      BY <3>1, <3>2, ElementOfSeq
    <3> QED
      BY <1>7, <3>1, <3>3
  <2> QED
    BY <2>1, <2>2
<1>9. ASSUME NEW u \in Threads, NEW i \in 1..Len(stack'[u]),
             stack'[u][i].g = gen'
      PROVE  u = t /\ i = 1
  <2> SUFFICES ASSUME ~(u = t /\ i = 1) PROVE FALSE
    OBVIOUS
  <2>1. stack'[u][i].g <= gen
    BY <1>6
  <2> QED
    BY <1>9, <2>1 DEF TypeOK
<1>10. \A u \in Threads : Stopping(stack[u])'
  <2> SUFFICES ASSUME NEW u \in Threads, NEW i \in 1..Len(stack'[u]),
                      stack'[u][i].at = "gaveUp", stack'[u][i].g = gen'
               PROVE  FALSE
    BY DEF Stopping
  <2>1. u = t /\ i = 1
    BY <1>9
  <2> QED
    BY <1>1, <2>1
<1>11. \A u \in Receivers \cup Timers : u \notin used' => stack'[u] = <<>>
  BY <1>1 DEF Moves, Core, StacksOK, Threads
<1>12. StacksOK'
  BY <1>5, <1>10, <1>11 DEF StacksOK
<1>13. LockInv'
  <2>1. LockFits(t, 1)
    BY DEF LockFits
  <2> QED
    BY <1>1, <2>1, LockMove DEF Core
<1>14. OneRegisters'
  <2> SUFFICES ASSUME NEW u \in Threads, NEW v \in Threads,
                      NEW i \in 1..Len(stack'[u]), NEW j \in 1..Len(stack'[v]),
                      stack'[u][i].g = gen', stack'[v][j].g = gen'
               PROVE  u = v /\ i = j
    BY DEF OneRegisters, Registers
  <2> QED
    BY <1>9
<1>15. stack'[t] # <<>> /\ 1 \in 1..Len(stack'[t]) /\ Top(t)' = f
  BY <1>1 DEF Moves, Top
<1> QED
  BY <1>1, <1>3, <1>8, <1>12, <1>13, <1>14, <1>15 DEF Stacks, Moves

(* A new run: no frame of an earlier one registers it, and start() is to   *)
(* open its socket.                                                        *)
LEMMA SipStartKeeps ==
    ASSUME ConstantsAssumption, TypeOK, Core, NEW t \in Threads, SipStart(t)
    PROVE  Core'
<1>1. /\ stack[t] # <<>> /\ Top(t).at = "sipStart"
      /\ UNCHANGED <<conn, opened, event, cancelled, used>>
      /\ UNCHANGED recvLock
  BY DEF SipStart, At, renewVars, lockVars
<1>2. CASE Leave(t) /\ UNCHANGED <<gen, nsd, accepted>>
  <2>1. UNCHANGED <<clientVars, renewVars, used, accepted>>
    BY <1>2 DEF SipStart, clientVars
  <2>2. ~Registers(Top(t)) /\ ~Stops(Top(t))
    BY <1>1 DEF Registers, Stops, ChainLabels, RegisterLabels
  <2> QED
    BY <1>1, <1>2, <2>1, <2>2, LeaveKeeps DEF ClosingLabels, HoldingLabels
<1>3. CASE /\ ~nsd /\ nsd' = TRUE /\ gen' = gen + 1
           /\ Replace(t, Frame("connect", gen + 1, 0))
  <2>1. /\ "connect" \in Labels /\ gen + 1 \in Nat /\ gen \in Nat
        /\ "connect" \in ChainLabels
    BY DEF Labels, EarlyLabels, ChainLabels, TypeOK
  <2>2. PICK f \in FrameType : /\ f = Frame("connect", gen + 1, 0)
                               /\ f.at = "connect" /\ f.g = gen + 1
    BY <2>1, NewFrame
  <2>3. Replace(t, f)
    BY <1>3, <2>2
  <2>4. FrameOK(f)'
    BY <1>3, <2>1, <2>2 DEF FrameOK, RegisterLabels, ClosingLabels
  <2>5. Top(t).at \in EarlyLabels /\ Top(t).at \notin HoldingLabels
    BY <1>1 DEF EarlyLabels, HoldingLabels
  <2>6. /\ Stacks'
        /\ stack'[t] # <<>> /\ Top(t)' = f
        /\ 1 \in 1..Len(stack'[t]) /\ stack'[t][1] = f
        /\ \A u \in Threads \ {t} : stack'[u] = stack[u]
    BY <1>1, <1>3, <2>2, <2>3, <2>4, <2>5, RaiseGen
  <2>7. KeptAlive'
    <3>1. Works(f)'
      BY <1>3, <2>2 DEF Works, ChainLabels
    <3> QED
      BY <2>6, <3>1 DEF KeptAlive, Works
  <2>8. SocketInv'
    <3>1. conn = 0
      BY <1>3 DEF Core, SocketInv
    <3>2. ASSUME NEW c \in opened
          PROVE  \E u \in Threads : Closes(u, c)'
      <4>1. c # conn
        BY <3>1, <3>2 DEF TypeOK
      <4>2. PICK u \in Threads : Closes(u, c)
        BY <3>2, <4>1 DEF Core, SocketInv
      <4>3. u # t
        BY <1>1, <4>2 DEF Closes, ClosingLabels
      <4> QED
        BY <2>6, <4>2, <4>3, OthersStay
    <3>3. Opens(t)'
      BY <1>3, <2>2, <2>6 DEF Opens
    <3> QED
      BY <1>1, <3>1, <3>2, <3>3 DEF SocketInv
  <2>9. TimerInv'
    <3>1. \A w \in Timers : At(w, "delay")' => At(w, "delay")
      <4> SUFFICES ASSUME NEW w \in Timers, At(w, "delay")'
                   PROVE  At(w, "delay")
        OBVIOUS
      <4>1. w # t
        BY <2>2, <2>6 DEF At
      <4> QED
        BY <2>6, <4>1, OthersStay DEF Threads
    <3>2. \A u \in Threads : \A w : Cancels(u, w) => Cancels(u, w)'
      <4> SUFFICES ASSUME NEW u \in Threads, NEW w, Cancels(u, w)
                   PROVE  Cancels(u, w)'
        OBVIOUS
      <4>1. u # t
        BY <1>1 DEF Cancels, ClosingLabels
      <4> QED
        BY <2>6, <4>1, OthersStay
    <3>3. \A w \in Timers : At(w, "delay") => event # w
      BY <1>3 DEF Core, TimerInv
    <3> QED
      BY <1>1, <3>1, <3>2, <3>3 DEF Core, TimerInv
  <2> QED
    BY <2>6, <2>7, <2>8, <2>9 DEF Core, Stacks
<1> QED
  BY <1>2, <1>3 DEF SipStart, Raise

(* The run is ended: what it holds passes to the frame that cleans it up,  *)
(* and no frame belongs to the run any more.                               *)
LEMMA DetachKeeps ==
    ASSUME ConstantsAssumption, TypeOK, Core, NEW t \in Threads,
           stack[t] # <<>>, Top(t).at \in {"undoStart", "detach", "fail"},
           NEW label \in ClosingLabels, Detach(t, label),
           UNCHANGED <<opened, cancelled, used, recvLock>>
    PROVE  Core'
<1>1. /\ gen' = gen + 1 /\ nsd' = FALSE /\ conn' = 0 /\ event' = None
      /\ Replace(t, [Top(t) EXCEPT !.at = label, !.conn = conn, !.event = event])
  BY DEF Detach
<1>2. /\ Top(t) \in FrameType /\ FrameOK(Top(t)) /\ Top(t).g \in Nat
      /\ gen \in Nat /\ conn \in 0..gen /\ event \in Timers \cup {None, Later}
  BY TopFrame DEF FrameType, TypeOK
<1>3. label \in Labels /\ conn \in Nat
  BY <1>2 DEF Labels
<1> DEFINE e == [Top(t) EXCEPT !.at = label, !.conn = conn, !.event = event]
<1>4. e \in FrameType
  BY <1>2, <1>3 DEF FrameType
<1>5. e.at = label /\ e.g = Top(t).g /\ e.conn = conn /\ e.event = event
  BY <1>2 DEF FrameType
<1>6. Replace(t, e)
  BY <1>1
<1> HIDE DEF e
<1>7. PICK f \in FrameType :
        f = e /\ f.at = label /\ f.g = Top(t).g /\ f.conn = conn /\ f.event = event
  BY <1>4, <1>5
<1>8. Replace(t, f)
  BY <1>6, <1>7
<1>9. event \in Timers => event \in used
  BY DEF Core, TimerInv
<1>10. /\ f.at \notin ChainLabels \cup RegisterLabels \cup EarlyLabels
       /\ f.at \notin {"delay", "loop", "received", "gaveUp", "open", "publish",
                      "commit"}
  BY <1>7 DEF ClosingLabels, EarlyLabels, ChainLabels, RegisterLabels
<1>11. FrameOK(f)'
  <2>1. f.g <= gen'
    BY <1>1, <1>2, <1>7 DEF FrameOK
  <2>2. f.conn < gen'
    BY <1>1, <1>2, <1>7
  <2>3. f.event \in Timers => f.event \in used' \ {event'}
    BY <1>1, <1>7, <1>9, ConstantsAssumption
  <2> QED
    BY <1>10, <2>1, <2>2, <2>3 DEF FrameOK
<1>12. Top(t).at \notin HoldingLabels \cup ClosingLabels \cup {"publish", "delay"}
  BY DEF HoldingLabels, ClosingLabels
<1>13. /\ Stacks'
       /\ stack'[t] # <<>> /\ Top(t)' = f
       /\ \A u \in Threads \ {t} : stack'[u] = stack[u]
  BY <1>1, <1>8, <1>10, <1>11, <1>12, RaiseGen
<1>14. KeptAlive'
  BY <1>1 DEF KeptAlive
<1>15. SocketInv'
  <2>1. ASSUME NEW c \in opened
        PROVE  \E u \in Threads : Closes(u, c)'
    <3>1. CASE c = conn
      <4>1. Closes(t, c)'
        BY <1>7, <1>13, <3>1 DEF Closes
      <4> QED
        BY <4>1
    <3>2. CASE c # conn
      <4>1. PICK u \in Threads : Closes(u, c)
        BY <2>1, <3>2 DEF Core, SocketInv
      <4>2. u # t
        BY <1>12, <4>1 DEF Closes
      <4> QED
        BY <1>13, <4>1, <4>2, OthersStay
    <3> QED
      BY <3>1, <3>2
  <2> QED
    BY <1>1, <2>1 DEF SocketInv
<1>16. TimerInv'
  <2>1. ASSUME NEW w \in Timers, At(w, "delay")'
        PROVE  w \in cancelled \/ \E u \in Threads : Cancels(u, w)'
    <3>1. w # t
      BY <1>10, <1>13, <2>1 DEF At
    <3>2. At(w, "delay")
      BY <1>13, <2>1, <3>1, OthersStay DEF Threads
    <3>3. CASE event = w
      <4>1. Cancels(t, w)'
        BY <1>7, <1>13, <3>3 DEF Cancels
      <4> QED
        BY <4>1
    <3>4. CASE \E u \in Threads : Cancels(u, w)
      <4>1. PICK u \in Threads : Cancels(u, w)
        BY <3>4
      <4>2. u # t
        BY <1>12, <4>1 DEF Cancels
      <4> QED
        BY <1>13, <4>1, <4>2, OthersStay
    <3> QED
      BY <3>2, <3>3, <3>4 DEF Core, TimerInv
  <2> QED
    BY <1>1, <2>1, ConstantsAssumption DEF Core, TimerInv
<1> QED
  BY <1>13, <1>14, <1>15, <1>16 DEF Core, Stacks

(* The three places that end a run do so only if it is theirs.             *)
LEMMA EndsKeeps ==
    ASSUME ConstantsAssumption, TypeOK, Core, NEW t \in Threads,
           UndoStart(t) \/ StopDetach(t) \/ Fail(t)
    PROVE  Core'
<1>1. /\ stack[t] # <<>> /\ Top(t).at \in {"undoStart", "detach", "fail"}
      /\ UNCHANGED <<opened, cancelled, used, recvLock, accepted>>
  BY DEF UndoStart, StopDetach, Fail, At, lockVars
<1>2. {"closeStart", "closeStop", "closeFailed"} = ClosingLabels
  BY DEF ClosingLabels
<1>3. ASSUME NEW label \in ClosingLabels, Detach(t, label)
      PROVE  Core'
  BY <1>1, <1>3, DetachKeeps
<1>4. CASE Leave(t) /\ Detached /\ (Top(t).at = "fail" \/ Top(t).g # gen)
  <2>1. UNCHANGED <<clientVars, renewVars, used, accepted>>
    BY <1>1, <1>4 DEF Detached, clientVars, renewVars
  <2>2. ~Registers(Top(t)) /\ ~Stops(Top(t))
    BY <1>1, <1>4 DEF Registers, Stops, ChainLabels, RegisterLabels
  <2> QED
    BY <1>1, <1>4, <2>1, <2>2, LeaveKeeps DEF ClosingLabels, HoldingLabels
<1> QED
  BY <1>1, <1>2, <1>3, <1>4 DEF UndoStart, StopDetach, Fail, Return, Raise, At

(* A call of the application puts its frames on an empty stack.            *)
LEMMA CallKeeps ==
    ASSUME ConstantsAssumption, TypeOK, Core, NEW a \in Apps,
           PhoneStart(a) \/ StopPhone(a)
    PROVE  Core'
<1>1. /\ a \in Threads /\ stack[a] = <<>>
      /\ UNCHANGED <<clientVars, renewVars, used, accepted, recvLock>>
  BY DEF PhoneStart, StopPhone, Threads, lockVars, historyVars
<1>2. PICK s \in Seq(FrameType) :
        /\ stack' = [stack EXCEPT ![a] = s] /\ s # <<>>
        /\ \A i \in 1..Len(s) :
              /\ s[i].at \in {"sipStart", "phoneStarted", "phoneStop"}
              /\ s[i].at = "sipStart" => i = 1
              /\ i # 1 => s[i].at = "phoneStarted"
              /\ s[i].g = 0
  <2>1. CASE StopPhone(a)
    <3> DEFINE e == PhoneStopFrame(0, 0, FALSE)
    <3>1. e \in FrameType /\ e.at = "phoneStop" /\ e.g = 0
      BY NewPhoneStopFrame
    <3>2. stack' = [stack EXCEPT ![a] = <<e>>]
      BY <2>1 DEF StopPhone
    <3> HIDE DEF e
    <3>3. \A i \in 1..Len(<<e>>) : i = 1 /\ <<e>>[i] = e
      OBVIOUS
    <3>4. <<e>> \in Seq(FrameType) /\ <<e>> # <<>>
      BY <3>1
    <3> QED
      BY <3>1, <3>2, <3>3, <3>4
  <2>2. CASE PhoneStart(a)
    <3> DEFINE d == Frame("sipStart", 0, 0)
               e == [Frame("phoneStarted", 0, 0) EXCEPT !.phone = phoneGen + 1]
    <3>1. "sipStart" \in Labels /\ "phoneStarted" \in Labels
      BY DEF Labels, EarlyLabels
    <3>2. d \in FrameType /\ d.at = "sipStart" /\ d.g = 0
      BY <3>1, NewFrame
    <3>3. Frame("phoneStarted", 0, 0) \in FrameType /\ phoneGen + 1 \in Nat
      BY <3>1, NewFrame DEF TypeOK
    <3>4. e \in FrameType /\ e.at = "phoneStarted" /\ e.g = 0
      BY <3>1, <3>3, NewFrame DEF FrameType, Frame
    <3>5. stack' = [stack EXCEPT ![a] = <<d, e>>]
      BY <2>2 DEF PhoneStart
    <3> HIDE DEF d, e
    <3>6. \A i \in 1..Len(<<d, e>>) : \/ i = 1 /\ <<d, e>>[i] = d
                                      \/ i = 2 /\ <<d, e>>[i] = e
      OBVIOUS
    <3>7. <<d, e>> \in Seq(FrameType) /\ <<d, e>> # <<>>
      BY <3>2, <3>4
    <3> QED
      BY <3>2, <3>4, <3>5, <3>6, <3>7
  <2> QED
    BY <2>1, <2>2
<1>3. /\ stack'[a] = s /\ StackType'
      /\ \A u \in Threads \ {a} : stack'[u] = stack[u]
  BY <1>1, <1>2 DEF Core, StackType
<1>4. /\ UNCHANGED <<gen, nsd, conn, opened, event, cancelled, used>>
      /\ \A f : FrameOK(f) => FrameOK(f)'
  BY <1>1, SameRun
<1>5. \A i \in 1..Len(s) : ~Registers(s[i])
  BY <1>2 DEF Registers, ChainLabels, RegisterLabels
<1>6. FramesOK'
  <2> SUFFICES ASSUME NEW u \in Threads, NEW i \in 1..Len(stack'[u]),
                      NEW e, e = stack'[u][i]
               PROVE  FrameOK(e)'
    BY DEF FramesOK, FrameOK
  <2>1. CASE u = a
    <3>1. e.at \in {"sipStart", "phoneStarted", "phoneStop"} /\ e.g = 0
      BY <1>2, <1>3, <2>1
    <3> QED
      BY <1>4, <3>1
         DEF FrameOK, ChainLabels, RegisterLabels, ClosingLabels, TypeOK
  <2>2. CASE u # a
    BY <1>3, <1>4, <2>2 DEF Core, FramesOK
  <2> QED
    BY <2>1, <2>2
<1>7. StacksOK'
  <2>1. Nested(s)
    <3> SUFFICES ASSUME NEW i \in 1..Len(s)
                 PROVE  /\ s[i].at \in {"delay", "loop"} => Len(s) = 1
                        /\ s[i].at = "received" => i = Len(s)
                        /\ s[i].at \in EarlyLabels =>
                              \A j \in 1..Len(s) :
                                 j > i => s[j].at \in {"registered", "phoneStarted"}
      BY DEF Nested
    <3>1. s[i].at \notin {"delay", "loop", "received"}
      BY <1>2
    <3>2. \A j \in 1..Len(s) : j > i => s[j].at = "phoneStarted"
      BY <1>2
    <3> QED
      BY <3>1, <3>2
  <2>2. Stopping(stack[a])'
    BY <1>2, <1>3 DEF Stopping
  <2>3. \A u \in Threads \ {a} : Stopping(stack[u])'
    BY <1>3, <1>4 DEF Stopping, Stops, Core, StacksOK
  <2>4. \A u \in Receivers \cup Timers : u \notin used' => stack'[u] = <<>>
    <3>1. a \notin Receivers \cup Timers
      BY ConstantsAssumption
    <3> QED
      BY <1>3, <1>4, <3>1 DEF Core, StacksOK, Threads
  <2> QED
    BY <1>3, <2>1, <2>2, <2>3, <2>4 DEF Core, StacksOK
<1>8. LockInv'
  <2> SUFFICES ASSUME NEW u \in Threads, recvLock' = u
               PROVE  \E i \in 1..Len(stack'[u]) : stack'[u][i].at \in HoldingLabels
    BY DEF LockInv
  <2>1. PICK i \in 1..Len(stack[u]) : stack[u][i].at \in HoldingLabels
    BY <1>1 DEF Core, LockInv
  <2>2. u # a
    BY <1>1, <2>1
  <2> QED
    BY <1>3, <2>1, <2>2
<1>9. OneRegisters'
  <2> SUFFICES ASSUME NEW u \in Threads, NEW v \in Threads,
                      NEW i \in 1..Len(stack'[u]), NEW j \in 1..Len(stack'[v]),
                      Registers(stack'[u][i]), Registers(stack'[v][j])
               PROVE  u = v /\ i = j
    BY <1>4 DEF OneRegisters, Registers
  <2>1. u # a /\ v # a
    BY <1>3, <1>5
  <2> QED
    BY <1>3, <2>1 DEF Core, OneRegisters
<1>10. KeptAlive'
  <2>1. ASSUME NEW u \in Threads, NEW i \in 1..Len(stack[u]), Works(stack[u][i])
        PROVE  \E v \in Threads : \E j \in 1..Len(stack'[v]) : Works(stack'[v][j])
    <3>1. u # a
      BY <1>1
    <3> QED
      BY <1>3, <2>1, <3>1
  <2>2. ASSUME Armed PROVE Armed'
    <3>1. event \in Threads \ {a} /\ At(event, "delay")
      BY <1>1, <2>2 DEF Armed, At, Threads
    <3>2. Top(event)' = Top(event) /\ (At(event, "delay"))'
      BY <1>3, <1>4, <3>1 DEF At, Top
    <3> QED
      BY <1>4, <2>2, <3>2 DEF Armed, Top
  <2> QED
    BY <1>4, <2>1, <2>2 DEF Core, KeptAlive, Works
<1>11. SocketInv'
  BY <1>1, <1>3, <1>4, SocketStays
<1>12. TimerInv'
  <2>1. ASSUME NEW w \in Timers, At(w, "delay")'
        PROVE  At(w, "delay") /\ Top(w)' = Top(w)
    <3>1. w # a
      BY ConstantsAssumption
    <3> QED
      BY <1>3, <2>1, <3>1, OthersStay DEF Threads
  <2>2. \A u \in Threads : \A w : Cancels(u, w) => Cancels(u, w)'
    <3> SUFFICES ASSUME NEW u \in Threads, NEW w, Cancels(u, w)
                 PROVE  Cancels(u, w)'
      OBVIOUS
    <3>1. u # a
      BY <1>1 DEF Cancels
    <3> QED
      BY <1>3, <3>1, OthersStay
  <2> QED
    BY <1>4, <2>1, <2>2 DEF Core, TimerInv
<1> QED
  BY <1>3, <1>6, <1>7, <1>8, <1>9, <1>10, <1>11, <1>12 DEF Core

----------------------------------------------------------------------------
(* Types *)

ClientType ==
    /\ gen \in Nat /\ nsd \in BOOLEAN /\ conn \in 0..gen /\ sock \in 0..gen
    /\ opened \subseteq 1..gen
    /\ event \in Timers \cup {None, Later} /\ renewing \in BOOLEAN
    /\ fails \in Nat
    /\ recvLock \in Threads \cup {None} /\ lockRun \in 0..gen
    /\ accepted \in 0..gen
PhoneType ==
    /\ status \in {"INACTIVE", "REGISTERING", "REGISTERED", "DEREGISTERING",
                   "FAILED"}
    /\ phoneOn \in BOOLEAN /\ phoneGen \in Nat /\ starting \in BOOLEAN
    /\ startGen \in 0..gen \cup {None}
ThreadType ==
    /\ raised \in [Threads -> BOOLEAN]
    /\ cancelled \subseteq Timers
    /\ used \subseteq Receivers \cup Timers
    /\ torn \subseteq Receivers \cup Timers
    /\ stops \in 0..MaxStops
    /\ faults \in 0..MaxFaults

(* The type invariant in three parts.                                      *)
LEMMA Types == TypeOK <=> ClientType /\ PhoneType /\ ThreadType
  BY DEF TypeOK, ClientType, PhoneType, ThreadType

(* A step that raises the generation leaves what the client holds in range. *)
LEMMA ClientMoves ==
    ASSUME ClientType, gen' \in {gen, gen + 1}, nsd' \in BOOLEAN,
           conn' \in {0, gen, conn}, sock' \in {0, gen, sock},
           opened' \subseteq 1..gen,
           event' \in Timers \cup {None, Later}, renewing' \in BOOLEAN,
           fails' \in Nat, recvLock' \in Threads \cup {None},
           lockRun' \in {0, gen, lockRun}, accepted' \in {0, gen, accepted}
    PROVE  ClientType'
<1>1. gen' \in Nat /\ \A i : i \in 0..gen => i \in 0..gen'
  BY DEF ClientType
<1>2. opened' \subseteq 1..gen'
  BY DEF ClientType
<1>3. 0 \in 0..gen /\ gen \in 0..gen /\ conn \in 0..gen /\ sock \in 0..gen
      /\ lockRun \in 0..gen /\ accepted \in 0..gen
  BY DEF ClientType
<1>4. conn' \in 0..gen' /\ sock' \in 0..gen' /\ lockRun' \in 0..gen'
      /\ accepted' \in 0..gen'
  BY <1>1, <1>3
<1> QED
  BY <1>1, <1>2, <1>4 DEF ClientType

(* What every step does to the variables of the client.                    *)
LEMMA ClientTypeStep ==
    ASSUME ConstantsAssumption, TypeOK, Core, NEW t \in Threads,
           Step(t) \/ (t \in Timers /\ Delayed(t)) \/ (t \in Receivers /\ Receive(t))
    PROVE  ClientType' /\ gen' \in {gen, gen + 1}
<1>0. ClientType
  BY Types
<1>a. /\ gen \in Nat /\ nsd \in BOOLEAN /\ opened \subseteq 1..gen
      /\ event \in Timers \cup {None, Later} /\ renewing \in BOOLEAN
      /\ fails \in Nat /\ fails + 1 \in Nat /\ recvLock \in Threads \cup {None}
  BY <1>0 DEF ClientType
<1>b. ASSUME UNCHANGED <<gen, nsd, conn, sock, opened, event, renewing, lockRun,
                         recvLock, fails, accepted>>
      PROVE  ClientType' /\ gen' \in {gen, gen + 1}
  BY <1>0, <1>b DEF ClientType
<1>1. stack[t] # <<>> =>
         /\ Top(t).g \in Nat /\ Top(t).g <= gen
         /\ Top(t).at \in {"open", "publish"} => Top(t).g >= 1
  BY TopFrame DEF FrameType, FrameOK, ChainLabels
<1>2. CASE \/ PhoneStarted(t) \/ Registered(t)
           \/ SipStop(t) \/ PhoneStop(t) \/ PhoneOwned(t) \/ PhoneStopped(t)
  <2>1. UNCHANGED <<clientVars, renewVars, fails, lockVars, historyVars>>
    BY <1>2 DEF PhoneStarted, Registered, SipStop, PhoneStop, PhoneOwned,
                PhoneStopped
  <2> QED
    BY <1>b, <2>1 DEF clientVars, renewVars, lockVars, historyVars
<1>3. CASE SipStart(t)
  <2>1. /\ UNCHANGED <<conn, sock, opened, renewVars, fails, lockVars>>
        /\ \/ UNCHANGED <<gen, nsd, accepted>>
           \/ gen' = gen + 1 /\ nsd' = TRUE /\ accepted' = 0
    BY <1>3 DEF SipStart
  <2>2. ClientType'
    BY <1>0, <1>a, <2>1, ClientMoves DEF renewVars, lockVars
  <2> QED
    BY <2>1, <2>2
<1>4. CASE Open(t)
  <2>1. UNCHANGED <<gen, nsd, conn, sock, renewVars, fails, lockVars, historyVars>>
    BY <1>4 DEF Open
  <2>2. opened' = opened \/ (opened' = opened \cup {Top(t).g} /\ Top(t).g \in 1..gen)
    <3>1. Top(t).g \in 1..gen
      BY <1>1, <1>4, <1>a DEF Open, At
    <3> QED
      BY <1>4, <3>1 DEF Open
  <2>3. opened' \subseteq 1..gen
    BY <1>a, <2>2
  <2>4. ClientType'
    BY <1>0, <1>a, <2>1, <2>3, ClientMoves DEF renewVars, lockVars, historyVars
  <2> QED
    BY <2>1, <2>4
<1>5. CASE Publish(t) \/ Connect(t)
  <2>1. UNCHANGED <<gen, nsd, renewVars, fails, lockVars, historyVars>>
    BY <1>5 DEF Publish, Connect
  <2>2. opened' \subseteq 1..gen
    BY <1>5, <1>a DEF Publish, Connect
  <2>3. conn' \in {0, gen, conn} /\ sock' \in {0, gen, sock}
    BY <1>5 DEF Publish, Connect
  <2>4. ClientType'
    BY <1>0, <1>a, <2>1, <2>2, <2>3, ClientMoves DEF renewVars, lockVars, historyVars
  <2> QED
    BY <2>1, <2>4
<1>6. CASE UndoStart(t) \/ StopDetach(t) \/ Fail(t)
  <2>1. /\ UNCHANGED <<opened, fails, lockVars, accepted>>
        /\ \/ UNCHANGED <<gen, nsd, conn, sock, event, renewing>>
           \/ /\ gen' = gen + 1 /\ nsd' = FALSE /\ conn' = 0 /\ sock' = 0
              /\ event' = None /\ renewing' = FALSE
    BY <1>6 DEF UndoStart, StopDetach, Fail, Detach, Detached
  <2>2. ClientType'
    BY <1>0, <1>a, <2>1, ClientMoves DEF lockVars
  <2> QED
    BY <2>1, <2>2
<1>7. CASE Cleanup(t)
  <2>1. UNCHANGED <<gen, nsd, conn, sock, renewing, fails, lockVars, historyVars>>
    BY <1>7 DEF Cleanup
  <2>2. event' \in {None, event} /\ opened' \subseteq 1..gen
    BY <1>7, <1>a DEF Cleanup
  <2>3. ClientType'
    BY <1>0, <1>a, <2>1, <2>2, ClientMoves DEF lockVars, historyVars
  <2> QED
    BY <2>1, <2>3
<1>8. CASE Failed(t) \/ GaveUp(t)
  <2>1. UNCHANGED <<clientVars, renewVars, fails, lockVars, historyVars>>
    BY <1>8 DEF Failed, GaveUp, Report
  <2> QED
    BY <1>b, <2>1 DEF clientVars, renewVars, lockVars, historyVars
<1>9. CASE Transact(t) \/ Send(t) \/ Challenged(t) \/ TimedOut(t) \/ StreamFails(t)
           \/ Lost(t) \/ Received(t) \/ (t \in Receivers /\ Receive(t))
  <2>1. UNCHANGED <<clientVars, renewVars, fails, historyVars>>
    BY <1>9 DEF Transact, Send, Challenged, TimedOut, StreamFails, Lost, Received,
                Receive
  <2>2. recvLock' \in {t, None, recvLock} /\ lockRun' \in {0, gen, lockRun}
    <3>1. CASE Transact(t)
      BY <3>1 DEF Transact, lockVars
    <3>2. CASE Send(t)
      BY <3>2 DEF Send, lockVars, Release
    <3>3. CASE Challenged(t)
      BY <3>3 DEF Challenged, lockVars, Release
    <3>4. CASE TimedOut(t) \/ Lost(t) \/ Received(t)
      BY <3>4 DEF TimedOut, Lost, Received, Release
    <3>5. CASE StreamFails(t)
      BY <3>5 DEF StreamFails, lockVars
    <3>6. CASE t \in Receivers /\ Receive(t)
      BY <3>6 DEF Receive
    <3> QED
      BY <1>9, <3>1, <3>2, <3>3, <3>4, <3>5, <3>6
  <2>3. recvLock' \in Threads \cup {None}
    BY <1>a, <2>2
  <2>4. ClientType'
    BY <1>0, <1>a, <2>1, <2>2, <2>3, ClientMoves
       DEF clientVars, renewVars, historyVars
  <2> QED
    BY <2>1, <2>4 DEF clientVars
<1>10. CASE Answered(t)
  <2>1. /\ UNCHANGED <<clientVars, renewVars, fails>>
        /\ recvLock' = None /\ lockRun' = 0 /\ accepted' \in {gen, accepted}
    BY <1>10 DEF Answered, Release
  <2>2. ClientType'
    BY <1>0, <1>a, <2>1, ClientMoves DEF clientVars, renewVars
  <2> QED
    BY <2>1, <2>2 DEF clientVars
<1>11. CASE Commit(t) \/ Erred(t)
  <2>1. /\ UNCHANGED <<clientVars, renewVars, lockVars, historyVars>>
        /\ fails' \in {0, fails, fails + 1}
    BY <1>11 DEF Commit, Erred
  <2>2. fails' \in Nat
    BY <1>a, <2>1
  <2>3. ClientType'
    BY <1>0, <1>a, <2>1, <2>2, ClientMoves
       DEF clientVars, renewVars, lockVars, historyVars
  <2> QED
    BY <2>1, <2>3 DEF clientVars
<1>12. CASE \/ ErredOff(t) \/ LeaveOff(t) \/ Deregistered(t) \/ LoopEnds(t)
            \/ (t \in Timers /\ Delayed(t))
  <2>1. UNCHANGED <<clientVars, renewVars, fails, lockVars, historyVars>>
    BY <1>12 DEF ErredOff, LeaveOff, Deregistered, LoopEnds, Delayed
  <2> QED
    BY <1>b, <2>1 DEF clientVars, renewVars, lockVars, historyVars
<1>13. CASE Renew(t) \/ Arm(t)
  <2>1. /\ UNCHANGED <<clientVars, fails, lockVars, historyVars>>
        /\ renewing' \in {TRUE, renewing}
    BY <1>13 DEF Renew, Arm, renewVars
  <2>2. event' \in Timers \cup {None, Later}
    BY <1>13, <1>a DEF Renew, Arm
  <2>3. ClientType'
    BY <1>0, <1>a, <2>1, <2>2, ClientMoves DEF clientVars, lockVars, historyVars
  <2> QED
    BY <2>1, <2>3 DEF clientVars
<1> QED
  BY <1>2, <1>3, <1>4, <1>5, <1>6, <1>7, <1>8, <1>9, <1>10, <1>11, <1>12, <1>13
     DEF Step

(* What every step does to the variables of the phone.                     *)
LEMMA PhoneTypeStep ==
    ASSUME TypeOK, NEW t \in Threads, gen' \in {gen, gen + 1},
           Step(t) \/ (t \in Timers /\ Delayed(t)) \/ (t \in Receivers /\ Receive(t))
    PROVE  PhoneType'
<1>0. PhoneType /\ gen \in Nat /\ nsd \in BOOLEAN
  BY Types DEF ClientType
<1>1. ASSUME UNCHANGED <<status, phoneOn, startVars>> PROVE PhoneType'
  BY <1>0, <1>1 DEF PhoneType, startVars
<1>2. ASSUME status' \in {"INACTIVE", "REGISTERING", "REGISTERED", "DEREGISTERING",
                          "FAILED"},
             UNCHANGED <<phoneOn, startVars>>
      PROVE  PhoneType'
  BY <1>0, <1>2 DEF PhoneType, startVars
<1>3. CASE PhoneStarted(t)
  BY <1>0, <1>3 DEF PhoneType, PhoneStarted, clientVars
<1>4. CASE PhoneStop(t)
  <2>1. /\ phoneOn' = phoneOn /\ phoneGen' = phoneGen + 1
        /\ status' = "DEREGISTERING" /\ starting' = FALSE /\ startGen' = None
    BY <1>4 DEF PhoneStop
  <2>2. phoneGen' \in Nat /\ phoneOn' \in BOOLEAN
    BY <1>0, <2>1 DEF PhoneType
  <2> QED
    BY <2>1, <2>2 DEF PhoneType
<1>5. CASE PhoneStopped(t)
  BY <1>0, <1>5 DEF PhoneType, PhoneStopped, clientVars, startVars
<1>6. CASE \/ SipStart(t) \/ Connect(t) \/ Open(t) \/ Publish(t) \/ Registered(t)
           \/ UndoStart(t) \/ Cleanup(t) \/ SipStop(t) \/ StopDetach(t)
           \/ PhoneOwned(t) \/ Fail(t)
  BY <1>1, <1>6
     DEF SipStart, Connect, Open, Publish, Registered, UndoStart, Cleanup, SipStop,
         StopDetach, PhoneOwned, Fail
<1>7. CASE \/ Transact(t) \/ Answered(t) \/ Challenged(t) \/ TimedOut(t)
           \/ StreamFails(t) \/ Lost(t) \/ Erred(t) \/ ErredOff(t) \/ LeaveOff(t)
           \/ Renew(t) \/ Arm(t) \/ LoopEnds(t) \/ Received(t)
           \/ (t \in Timers /\ Delayed(t)) \/ (t \in Receivers /\ Receive(t))
  BY <1>1, <1>7
     DEF Transact, Answered, Challenged, TimedOut, StreamFails, Lost, Erred,
         ErredOff, LeaveOff, Renew, Arm, LoopEnds, Received, Delayed, Receive
<1>8. CASE \/ Failed(t) \/ GaveUp(t) \/ Send(t) \/ Commit(t) \/ Deregistered(t)
  <2>1. UNCHANGED <<phoneOn, startVars>>
    BY <1>8 DEF Failed, GaveUp, Report, Send, Commit, Deregistered
  <2>2. status' \in {"INACTIVE", "REGISTERING", "REGISTERED", "DEREGISTERING",
                     "FAILED", status}
    BY <1>8 DEF Failed, GaveUp, Report, Send, Commit, Deregistered
  <2> QED
    BY <1>0, <1>2, <2>1, <2>2 DEF PhoneType
<1> QED
  BY <1>3, <1>4, <1>5, <1>6, <1>7, <1>8 DEF Step

(* What every step does to the variables of the threads: what a step tears  *)
(* down is on a daemon thread, and no other one is created or cancelled.    *)
LEMMA ThreadTypeStep ==
    ASSUME ConstantsAssumption, TypeOK, NEW t \in Threads,
           Step(t) \/ (t \in Timers /\ Delayed(t)) \/ (t \in Receivers /\ Receive(t))
    PROVE  ThreadType'
<1>0. ThreadType /\ MaxFaults \in Nat
  BY Types, ConstantsAssumption
<1>1. raised' \in [Threads -> BOOLEAN]
  <2>0. raised \in [Threads -> BOOLEAN]
    BY DEF TypeOK
  <2>1. ASSUME NEW b \in BOOLEAN, raised' = [raised EXCEPT ![t] = b]
        PROVE  raised' \in [Threads -> BOOLEAN]
    BY <2>0, <2>1
  <2>2. ASSUME Caught(t) \/ UNCHANGED raised \/ Return(t) \/ Raise(t)
        PROVE  raised' \in [Threads -> BOOLEAN]
    BY <2>0, <2>1, <2>2 DEF Caught, Raise, Return
  <2>3. CASE PhoneStopped(t)
    <3>1. raised' = [raised EXCEPT ![t] = raised[t] /\ Len(stack[t]) > 1]
      BY <2>3 DEF PhoneStopped
    <3> DEFINE b == raised[t] /\ Len(stack[t]) > 1
    <3>2. b \in BOOLEAN
      OBVIOUS
    <3>3. raised' = [raised EXCEPT ![t] = b]
      BY <3>1
    <3> HIDE DEF b
    <3> QED
      BY <2>1, <3>2, <3>3
  <2>4. CASE \/ PhoneStarted(t) \/ SipStart(t) \/ Connect(t) \/ Open(t) \/ Publish(t)
             \/ UndoStart(t)
    BY <2>2, <2>4 DEF PhoneStarted, SipStart, Connect, Open, Publish, UndoStart
  <2>5. CASE Registered(t) \/ Cleanup(t) \/ SipStop(t) \/ StopDetach(t) \/ PhoneStop(t)
    BY <2>2, <2>5 DEF Registered, Cleanup, SipStop, StopDetach, PhoneStop
  <2>6. CASE PhoneOwned(t) \/ Fail(t) \/ Failed(t) \/ GaveUp(t)
    BY <2>2, <2>6 DEF PhoneOwned, Fail, Failed, GaveUp, Report
  <2>7. CASE \/ Transact(t) \/ Send(t) \/ Answered(t) \/ Challenged(t) \/ TimedOut(t)
             \/ StreamFails(t) \/ Lost(t)
    BY <2>2, <2>7 DEF Transact, Send, Answered, Challenged, TimedOut, StreamFails,
                      Lost
  <2>8. CASE \/ Commit(t) \/ Erred(t) \/ ErredOff(t) \/ LeaveOff(t)
             \/ Deregistered(t)
    BY <2>2, <2>8 DEF Commit, Erred, ErredOff, LeaveOff, Deregistered
  <2>9. CASE \/ Renew(t) \/ Arm(t) \/ LoopEnds(t) \/ Received(t)
             \/ (t \in Timers /\ Delayed(t)) \/ (t \in Receivers /\ Receive(t))
    BY <2>2, <2>9 DEF Renew, Arm, LoopEnds, Received, Delayed, Receive
  <2> QED
    BY <2>3, <2>4, <2>5, <2>6, <2>7, <2>8, <2>9 DEF Step
<1>2. stops' = stops /\ faults' \in 0..MaxFaults
  <2>1. ASSUME UNCHANGED boundVars \/ Fault \/ NoFault
        PROVE  stops' = stops /\ faults' \in 0..MaxFaults
    <3>1. CASE Fault
      BY <1>0, <3>1 DEF Fault, ThreadType
    <3>2. CASE UNCHANGED boundVars \/ NoFault
      BY <1>0, <3>2 DEF NoFault, boundVars, ThreadType
    <3> QED
      BY <2>1, <3>1, <3>2
  <2>2. CASE \/ PhoneStarted(t) \/ SipStart(t) \/ Connect(t) \/ Open(t) \/ Publish(t)
             \/ Registered(t) \/ UndoStart(t) \/ Cleanup(t) \/ SipStop(t)
    BY <2>1, <2>2 DEF PhoneStarted, SipStart, Connect, Open, Publish, Registered,
                      UndoStart, Cleanup, SipStop
  <2>3. CASE \/ StopDetach(t) \/ PhoneStop(t) \/ PhoneOwned(t) \/ PhoneStopped(t)
             \/ Fail(t) \/ Failed(t) \/ GaveUp(t)
    BY <2>1, <2>3 DEF StopDetach, PhoneStop, PhoneOwned, PhoneStopped, Fail, Failed,
                      GaveUp, Report
  <2>4. CASE \/ Transact(t) \/ Send(t) \/ Answered(t) \/ Challenged(t) \/ TimedOut(t)
             \/ StreamFails(t) \/ Lost(t)
    BY <2>1, <2>4 DEF Transact, Send, Answered, Challenged, TimedOut, StreamFails,
                      Lost
  <2>5. CASE \/ Commit(t) \/ Erred(t) \/ ErredOff(t) \/ LeaveOff(t)
             \/ Deregistered(t)
    BY <2>1, <2>5 DEF Commit, Erred, ErredOff, LeaveOff, Deregistered
  <2>6. CASE \/ Renew(t) \/ Arm(t) \/ LoopEnds(t) \/ Received(t)
             \/ (t \in Timers /\ Delayed(t)) \/ (t \in Receivers /\ Receive(t))
    BY <2>1, <2>6 DEF Renew, Arm, LoopEnds, Received, Delayed, Receive
  <2> QED
    BY <2>2, <2>3, <2>4, <2>5, <2>6 DEF Step
<1>3. cancelled' \subseteq Timers
  <2>0. cancelled \subseteq Timers
    BY DEF TypeOK
  <2>1. CASE Cleanup(t)
    BY <2>0, <2>1 DEF Cleanup
  <2>2. CASE Renew(t)
    BY <2>0, <2>2 DEF Renew
  <2>3. CASE \/ PhoneStarted(t) \/ SipStart(t) \/ Connect(t) \/ Open(t) \/ Publish(t)
             \/ Registered(t) \/ UndoStart(t) \/ SipStop(t) \/ StopDetach(t)
             \/ PhoneStop(t) \/ PhoneOwned(t) \/ PhoneStopped(t)
             \/ Fail(t) \/ Failed(t) \/ GaveUp(t)
    BY <2>0, <2>3 DEF PhoneStarted, SipStart, Connect, Open, Publish, Registered,
       UndoStart, SipStop, StopDetach, PhoneStop, PhoneOwned, PhoneStopped, Fail,
       Failed, GaveUp, Report, renewVars
  <2>4. CASE \/ Transact(t) \/ Send(t) \/ Answered(t) \/ Challenged(t) \/ TimedOut(t)
             \/ StreamFails(t) \/ Lost(t) \/ Commit(t) \/ Erred(t) \/ ErredOff(t)
             \/ LeaveOff(t) \/ Deregistered(t) \/ Arm(t) \/ LoopEnds(t)
             \/ Received(t) \/ (t \in Timers /\ Delayed(t))
             \/ (t \in Receivers /\ Receive(t))
    BY <2>0, <2>4 DEF Transact, Send, Answered, Challenged, TimedOut, StreamFails,
       Lost, Commit, Erred, ErredOff, LeaveOff, Deregistered, Arm, LoopEnds,
       Received, Delayed, Receive, renewVars
  <2> QED
    BY <2>1, <2>2, <2>3, <2>4 DEF Step
<1>4. used' \subseteq Receivers \cup Timers
  <2>0. used \subseteq Receivers \cup Timers
    BY DEF TypeOK
  <2>1. CASE Registered(t)
    BY <2>0, <2>1 DEF Registered
  <2>2. CASE Arm(t)
    BY <2>0, <2>2 DEF Arm
  <2>3. CASE \/ PhoneStarted(t) \/ SipStart(t) \/ Connect(t) \/ Open(t) \/ Publish(t)
             \/ Cleanup(t) \/ UndoStart(t) \/ SipStop(t) \/ StopDetach(t)
             \/ PhoneStop(t) \/ PhoneOwned(t) \/ PhoneStopped(t)
             \/ Fail(t) \/ Failed(t) \/ GaveUp(t)
    BY <2>0, <2>3 DEF PhoneStarted, SipStart, Connect, Open, Publish, Cleanup,
       UndoStart, SipStop, StopDetach, PhoneStop, PhoneOwned, PhoneStopped, Fail,
       Failed, GaveUp, Report
  <2>4. CASE \/ Transact(t) \/ Send(t) \/ Answered(t) \/ Challenged(t) \/ TimedOut(t)
             \/ StreamFails(t) \/ Lost(t) \/ Commit(t) \/ Erred(t) \/ ErredOff(t)
             \/ LeaveOff(t) \/ Deregistered(t) \/ Renew(t) \/ LoopEnds(t)
             \/ Received(t) \/ (t \in Timers /\ Delayed(t))
             \/ (t \in Receivers /\ Receive(t))
    BY <2>0, <2>4 DEF Transact, Send, Answered, Challenged, TimedOut, StreamFails,
       Lost, Commit, Erred, ErredOff, LeaveOff, Deregistered, Renew, LoopEnds,
       Received, Delayed, Receive
  <2> QED
    BY <2>1, <2>2, <2>3, <2>4 DEF Step
<1>5. torn' \subseteq Receivers \cup Timers
  <2>0. torn \subseteq Receivers \cup Timers
    BY DEF TypeOK
  <2>1. CASE UndoStart(t) \/ StopDetach(t) \/ Fail(t)
    <3>1. torn' = torn \/ (t \notin Apps /\ torn' = torn \cup {t})
      BY <2>1 DEF UndoStart, StopDetach, Fail, Detach, Detached
    <3> QED
      BY <2>0, <3>1 DEF Threads
  <2>2. CASE \/ PhoneStarted(t) \/ SipStart(t) \/ Connect(t) \/ Open(t) \/ Publish(t)
             \/ Cleanup(t) \/ Registered(t) \/ SipStop(t)
             \/ PhoneStop(t) \/ PhoneOwned(t) \/ PhoneStopped(t)
             \/ Failed(t) \/ GaveUp(t)
    BY <2>0, <2>2 DEF PhoneStarted, SipStart, Connect, Open, Publish, Cleanup,
       Registered, SipStop, PhoneStop, PhoneOwned, PhoneStopped,
       Failed, GaveUp, Report, historyVars
  <2>3. CASE \/ Transact(t) \/ Send(t) \/ Answered(t) \/ Challenged(t) \/ TimedOut(t)
             \/ StreamFails(t) \/ Lost(t) \/ Commit(t) \/ Erred(t) \/ ErredOff(t)
             \/ LeaveOff(t) \/ Deregistered(t) \/ Renew(t) \/ Arm(t) \/ LoopEnds(t)
             \/ Received(t) \/ (t \in Timers /\ Delayed(t))
             \/ (t \in Receivers /\ Receive(t))
    BY <2>0, <2>3 DEF Transact, Send, Answered, Challenged, TimedOut, StreamFails,
       Lost, Commit, Erred, ErredOff, LeaveOff, Deregistered, Renew, Arm, LoopEnds,
       Received, Delayed, Receive, historyVars
  <2> QED
    BY <2>1, <2>2, <2>3 DEF Step
<1> QED
  BY <1>0, <1>1, <1>2, <1>3, <1>4, <1>5 DEF ThreadType

(* The same for the two calls of an application.                           *)
LEMMA CallTypes ==
    ASSUME ConstantsAssumption, TypeOK, NEW a \in Apps, PhoneStart(a) \/ StopPhone(a)
    PROVE  TypeOK'
<1>0. ClientType /\ PhoneType /\ ThreadType /\ a \in Threads
  BY Types DEF Threads
<1>1. ClientType' /\ gen' = gen
  <2>1. UNCHANGED <<clientVars, renewVars, fails, lockVars, historyVars>>
    BY DEF PhoneStart, StopPhone
  <2> QED
    BY <1>0, <2>1 DEF ClientType, clientVars, renewVars, lockVars, historyVars
<1>2. PhoneType'
  <2>1. CASE PhoneStart(a)
    <3>1. /\ phoneGen' = phoneGen + 1 /\ starting' = TRUE /\ startGen' = gen
          /\ status' = "REGISTERING" /\ phoneOn' = phoneOn
      BY <2>1 DEF PhoneStart
    <3> QED
      BY <1>0, <1>1, <3>1 DEF PhoneType, ClientType
  <2>2. CASE StopPhone(a)
    BY <1>0, <1>1, <2>2 DEF PhoneType, StopPhone, startVars
  <2> QED
    BY <2>1, <2>2
<1>3. ThreadType'
  <2>1. Caught(a) /\ UNCHANGED <<cancelled, used, torn, faults>>
        /\ stops' \in {stops, stops + 1} /\ (stops' # stops => stops < MaxStops)
    BY DEF PhoneStart, StopPhone, renewVars, historyVars, boundVars
  <2>2. raised' \in [Threads -> BOOLEAN]
    BY <1>0, <2>1 DEF Caught, ThreadType
  <2>3. stops' \in 0..MaxStops
    BY <1>0, <2>1, ConstantsAssumption DEF ThreadType
  <2> QED
    BY <1>0, <2>1, <2>2, <2>3 DEF ThreadType
<1> QED
  BY <1>1, <1>2, <1>3, Types DEF TypeOK, ClientType, PhoneType, ThreadType

----------------------------------------------------------------------------
(* The invariant                                                           *)

(* At the start no thread has a frame and nothing is on.                   *)
LEMMA InitInv ==
    ASSUME ConstantsAssumption, Init
    PROVE  IInv
<1>1. TypeOK
  <2>1. /\ gen = 0 /\ nsd = FALSE /\ conn = 0 /\ sock = 0 /\ opened = {}
        /\ event = None /\ renewing = FALSE /\ fails = 0 /\ recvLock = None
        /\ lockRun = 0 /\ accepted = 0
    BY DEF Init
  <2>2. ClientType
    <3>1. gen \in Nat /\ 0 \in 0..gen
      BY <2>1
    <3>2. conn \in 0..gen /\ sock \in 0..gen /\ lockRun \in 0..gen /\ accepted \in 0..gen
      BY <2>1, <3>1
    <3>3. opened \subseteq 1..gen /\ fails \in Nat
      BY <2>1
    <3> QED
      BY <2>1, <3>1, <3>2, <3>3 DEF ClientType
  <2>3. PhoneType
    BY DEF Init, PhoneType
  <2>4. ThreadType
    BY ConstantsAssumption DEF Init, ThreadType
  <2> QED
    BY <2>2, <2>3, <2>4, Types
<1>2. \A t \in Threads : stack[t] = <<>> /\ Len(stack[t]) = 0
  BY DEF Init
<1>3. StackType
  BY DEF Init, StackType
<1>4. FramesOK /\ OneRegisters
  BY <1>2 DEF FramesOK, OneRegisters
<1>5. StacksOK
  BY <1>2 DEF StacksOK, Nested, Stopping, Threads
<1>6. LockInv
  BY ConstantsAssumption DEF Init, LockInv, Threads
<1>7. KeptAlive /\ SocketInv
  BY DEF Init, KeptAlive, SocketInv
<1>8. TimerInv
  <2>1. None \notin Timers
    BY ConstantsAssumption
  <2>2. \A w \in Timers : ~At(w, "delay")
    BY <1>2 DEF At, Threads
  <2> QED
    BY <2>1, <2>2 DEF TimerInv, Init
<1> QED
  BY <1>1, <1>3, <1>4, <1>5, <1>6, <1>7, <1>8 DEF IInv

(* A step of a thread keeps what the stacks promise.                       *)
LEMMA StepKeeps ==
    ASSUME ConstantsAssumption, TypeOK, Core, NEW t \in Threads, Step(t)
    PROVE  Core'
<1>1. CASE \/ PhoneStarted(t) \/ SipStart(t) \/ Connect(t) \/ Open(t) \/ Publish(t)
           \/ Registered(t)
  BY <1>1, PhoneBackKeeps, SipStartKeeps, ConnectKeeps, OpenKeeps, PublishKeeps,
     RegisteredKeeps
<1>2. CASE UndoStart(t) \/ StopDetach(t) \/ Fail(t) \/ Cleanup(t)
  BY <1>2, EndsKeeps, CleanupKeeps
<1>3. CASE SipStop(t) \/ PhoneStop(t) \/ PhoneOwned(t) \/ PhoneStopped(t)
  BY <1>3, SipStopKeeps, PhoneStopKeeps, PhoneOwnedKeeps, PhoneBackKeeps
<1>4. CASE Failed(t) \/ GaveUp(t)
  BY <1>4, ReportKeeps
<1>5. CASE \/ Transact(t) \/ Send(t) \/ Answered(t) \/ Challenged(t) \/ TimedOut(t)
           \/ StreamFails(t) \/ Lost(t)
  BY <1>5, TransactKeeps, SendKeeps, AnsweredKeeps, ChallengedKeeps, TimedOutKeeps,
     StreamFailsKeeps, LostKeeps
<1>6. CASE Commit(t) \/ Erred(t) \/ ErredOff(t) \/ LeaveOff(t) \/ Deregistered(t)
  BY <1>6, CommitKeeps, ErredKeeps, LeaveOffKeeps
<1>7. CASE Renew(t) \/ Arm(t) \/ LoopEnds(t) \/ Received(t)
  BY <1>7, RenewKeeps, ArmKeeps, LoopEndsKeeps, ReceivedKeeps
<1> QED
  BY <1>1, <1>2, <1>3, <1>4, <1>5, <1>6, <1>7 DEF Step

(* Every step, whoever takes it, keeps the invariant.                      *)
LEMMA NextInv ==
    ASSUME ConstantsAssumption, IInv, [Next]_vars
    PROVE  IInv'
<1>0. TypeOK /\ Core
  BY DEF IInv, Core
<1>1. ASSUME NEW t \in Threads,
             Step(t) \/ (t \in Timers /\ Delayed(t)) \/ (t \in Receivers /\ Receive(t))
      PROVE  IInv'
  <2>1. TypeOK'
    <3>1. ClientType' /\ gen' \in {gen, gen + 1}
      BY <1>0, <1>1, ClientTypeStep
    <3>2. PhoneType' /\ ThreadType'
      BY <1>0, <1>1, <3>1, PhoneTypeStep, ThreadTypeStep
    <3> QED
      BY <3>1, <3>2 DEF TypeOK, ClientType, PhoneType, ThreadType
  <2>2. Core'
    BY <1>0, <1>1, StepKeeps, DelayedKeeps, ReceiveKeeps
  <2> QED
    BY <2>1, <2>2 DEF IInv, Core
<1>2. ASSUME NEW a \in Apps, PhoneStart(a) \/ StopPhone(a)
      PROVE  IInv'
  <2>1. TypeOK' /\ Core'
    BY <1>0, <1>2, CallTypes, CallKeeps
  <2> QED
    BY <2>1 DEF IInv, Core
<1>3. CASE UNCHANGED vars
  <2>1. UNCHANGED <<gen, nsd, conn, sock, opened, event, renewing, cancelled, fails,
                    recvLock, lockRun, status, phoneOn, phoneGen, starting, startGen,
                    stack, raised, used, stops, faults, accepted, torn>>
    BY <1>3 DEF vars, clientVars, renewVars, lockVars, startVars, boundVars,
                historyVars
  <2>2. TypeOK' /\ StackType' /\ FramesOK' /\ StacksOK'
    BY <1>0, <2>1 DEF TypeOK, Core, StackType, FramesOK, FrameOK, StacksOK, Stopping,
                      Stops
  <2>3. LockInv' /\ OneRegisters' /\ KeptAlive'
    BY <1>0, <2>1 DEF Core, LockInv, OneRegisters, Registers, KeptAlive, Works, Armed,
                      At, Top
  <2>4. SocketInv' /\ TimerInv'
    BY <1>0, <2>1 DEF Core, SocketInv, TimerInv, Closes, Opens, Cancels, At, Top
  <2> QED
    BY <2>2, <2>3, <2>4 DEF IInv
<1> QED
  BY <1>1, <1>2, <1>3 DEF Next, Threads

----------------------------------------------------------------------------
(* What follows from the invariant                                         *)

(* When no thread is in the middle of an operation, a thread with a frame   *)
(* has one frame, at which it waits.                                       *)
LEMMA QuietStacks ==
    ASSUME IInv, Quiet, NEW t \in Threads, NEW i \in 1..Len(stack[t])
    PROVE  /\ i = 1 /\ stack[t][i] = Top(t) /\ stack[t] # <<>>
           /\ Top(t).at \in {"delay", "loop"}
<1>1. stack[t] \in Seq(FrameType) /\ stack[t] # <<>>
  BY DEF IInv, StackType
<1>2. Top(t) = stack[t][1] /\ 1 \in 1..Len(stack[t])
  BY <1>1 DEF Top
<1>3. Top(t).at \in {"delay", "loop"}
  BY <1>1 DEF Quiet, Busy, Waiting, At
<1>4. Len(stack[t]) = 1
  BY <1>2, <1>3 DEF IInv, StacksOK, Nested
<1> QED
  BY <1>1, <1>2, <1>3, <1>4

(* In a quiet state no frame registers the run, closes a socket, opens the  *)
(* run's own, or cancels a register thread.                                *)
LEMMA QuietNothing ==
    ASSUME IInv, Quiet, NEW t \in Threads
    PROVE  /\ \A i \in 1..Len(stack[t]) : ~Works(stack[t][i])
           /\ ~Opens(t) /\ (\A c : ~Closes(t, c)) /\ (\A w : ~Cancels(t, w))
<1>1. stack[t] # <<>> => Top(t).at \in {"delay", "loop"}
  BY DEF Quiet, Busy, Waiting, At
<1>2. \A i \in 1..Len(stack[t]) : stack[t][i].at \in {"delay", "loop"}
  BY QuietStacks
<1>3. \A i \in 1..Len(stack[t]) : ~Works(stack[t][i])
  BY <1>2 DEF Works, ChainLabels, RegisterLabels
<1>4. ~Opens(t)
  BY <1>1 DEF Opens
<1>5. \A c : ~Closes(t, c)
  BY <1>1 DEF Closes, ClosingLabels
<1>6. \A w : ~Cancels(t, w)
  BY <1>1 DEF Cancels, ClosingLabels
<1> QED
  BY <1>3, <1>4, <1>5, <1>6

(* The invariant says of a quiet state that nothing is left.               *)
LEMMA InvNothingLeft ==
    ASSUME ConstantsAssumption, IInv
    PROVE  NothingLeft
<1> SUFFICES ASSUME Quiet
             PROVE  /\ opened = IF nsd THEN {conn} ELSE {}
                    /\ conn # 0 <=> nsd
                    /\ \A w \in Timers : At(w, "delay") /\ w \notin cancelled
                                             => nsd /\ event = w
  BY DEF NothingLeft
<1>1. \A t \in Threads : /\ ~Opens(t) /\ (\A c : ~Closes(t, c))
                         /\ (\A w : ~Cancels(t, w))
  BY QuietNothing
<1>2. \A c \in opened : c = conn
  BY <1>1 DEF IInv, SocketInv
<1>3. nsd => conn = gen /\ gen \in opened
  BY <1>1 DEF IInv, SocketInv
<1>4. conn # 0 => nsd
  BY DEF IInv, SocketInv
<1>5. \A c \in opened : c # 0
  BY DEF IInv, TypeOK
<1>6. \A w \in Timers : At(w, "delay") /\ w \notin cancelled => nsd /\ event = w
  BY <1>1 DEF IInv, TimerInv
<1>7. opened = IF nsd THEN {conn} ELSE {}
  <2>1. CASE nsd
    BY <1>2, <1>3, <2>1
  <2>2. CASE ~nsd
    BY <1>2, <1>4, <1>5, <2>2
  <2> QED
    BY <2>1, <2>2
<1>8. nsd => conn # 0
  BY <1>3, <1>5
<1> QED
  BY <1>4, <1>6, <1>7, <1>8

(* The invariant says of a quiet run that is on that it registers again.   *)
LEMMA InvKeepsRegistering ==
    ASSUME ConstantsAssumption, IInv
    PROVE  KeepsRegistering
<1> SUFFICES ASSUME Quiet, nsd
             PROVE  /\ event # None /\ event \notin cancelled
                    /\ \/ event = Later
                       \/ At(event, "delay") /\ Top(event).g = gen
  BY DEF KeepsRegistering
<1>1. event = Later \/ Armed
  BY QuietNothing DEF IInv, KeptAlive
<1>2. CASE event = Later
  BY <1>2, ConstantsAssumption DEF IInv, TypeOK
<1>3. CASE Armed
  BY <1>3, ConstantsAssumption DEF Armed
<1> QED
  BY <1>1, <1>2, <1>3

(* Only a commit of the run that is on writes REGISTERED, and its frame     *)
(* knows that the REGISTER of the run has been accepted.                   *)
LEMMA RegisteredStep ==
    ASSUME ConstantsAssumption, IInv, [Next]_vars,
           status' = "REGISTERED", status # "REGISTERED"
    PROVE  nsd' /\ gen' = accepted'
<1>0. TypeOK /\ Core
  BY DEF IInv, Core
<1>1. ASSUME NEW t \in Threads,
             \/ Step(t) /\ ~Commit(t)
             \/ t \in Timers /\ Delayed(t)
             \/ t \in Receivers /\ Receive(t)
      PROVE  FALSE
  <2>1. CASE \/ PhoneStarted(t) \/ SipStart(t) \/ Connect(t) \/ Open(t)
             \/ Publish(t) \/ Registered(t) \/ UndoStart(t) \/ Cleanup(t)
             \/ SipStop(t) \/ StopDetach(t) \/ PhoneOwned(t) \/ Fail(t)
    BY <2>1 DEF PhoneStarted, SipStart, Connect, Open, Publish, Registered,
       UndoStart, Cleanup, SipStop, StopDetach, PhoneOwned, Fail
  <2>2. CASE \/ PhoneStop(t) \/ PhoneStopped(t) \/ Failed(t) \/ GaveUp(t) \/ Send(t)
             \/ Deregistered(t)
    BY <2>2 DEF PhoneStop, PhoneStopped, Failed, GaveUp, Report, Send, Deregistered
  <2>3. CASE \/ Transact(t) \/ Answered(t) \/ Challenged(t) \/ TimedOut(t)
             \/ StreamFails(t) \/ Lost(t) \/ Erred(t) \/ ErredOff(t) \/ LeaveOff(t)
             \/ Renew(t) \/ Arm(t) \/ LoopEnds(t) \/ Received(t)
             \/ (t \in Timers /\ Delayed(t)) \/ (t \in Receivers /\ Receive(t))
    BY <2>3 DEF Transact, Answered, Challenged, TimedOut, StreamFails, Lost, Erred,
       ErredOff, LeaveOff, Renew, Arm, LoopEnds, Received, Delayed, Receive
  <2> QED
    BY <1>1, <2>1, <2>2, <2>3 DEF Step
<1>2. ASSUME NEW a \in Apps, PhoneStart(a) \/ StopPhone(a) PROVE FALSE
  BY <1>2 DEF PhoneStart, StopPhone
<1>3. ASSUME UNCHANGED vars PROVE FALSE
  BY <1>3 DEF vars
<1>4. PICK t \in Threads : Commit(t)
  BY <1>1, <1>2, <1>3 DEF Next, Threads
<1>5. nsd /\ Top(t).g = gen /\ UNCHANGED <<gen, nsd, accepted>>
  BY <1>4 DEF Commit, clientVars, historyVars
<1>6. stack[t] # <<>> /\ Top(t).at = "commit"
  BY <1>4 DEF Commit, At
<1>7. FrameOK(Top(t))
  BY <1>0, <1>6, TopFrame
<1>8. accepted = gen
  BY <1>5, <1>6, <1>7 DEF FrameOK
<1> QED
  BY <1>5, <1>8

----------------------------------------------------------------------------
(* Theorems                                                                *)

(* Every variable keeps a value of its kind, whatever the number of         *)
(* threads, runs, stops and failures: connections, the lock's run and the   *)
(* accepted run are runs begun so far, and only daemon threads are created  *)
(* or tear down a run that is not their own.                               *)
THEOREM TypeCorrect == Spec => []TypeOK
<1>1. Init => IInv
  BY ConstantsAssumption, InitInv
<1>2. IInv /\ [Next]_vars => IInv'
  BY ConstantsAssumption, NextInv
<1>3. IInv => TypeOK
  BY DEF IInv
<1> QED
  BY <1>1, <1>2, <1>3, PTL DEF Spec

(* The inductive invariant holds in every reachable state.                 *)
THEOREM Invariant == Spec => []IInv
<1>1. Init => IInv
  BY ConstantsAssumption, InitInv
<1>2. IInv /\ [Next]_vars => IInv'
  BY ConstantsAssumption, NextInv
<1> QED
  BY <1>1, <1>2, PTL DEF Spec

(* However start(), stop(), fatal() and the failures of a stream overlap,   *)
(* each end of a run cleans up what it took and only that: when no thread   *)
(* is at it any more, no socket is open but that of the run that is on, and *)
(* no register thread of an ended run waits uncancelled.                   *)
THEOREM NothingIsLeft == Spec => []NothingLeft
<1>1. IInv => NothingLeft
  BY ConstantsAssumption, InvNothingLeft
<1> QED
  BY <1>1, Invariant, PTL

(* register() leaves no run without a next registration: when no thread is  *)
(* at work and the run is on, its register thread waits for its delay, not  *)
(* cancelled.                                                              *)
THEOREM RunKeepsRegistering == Spec => []KeepsRegistering
<1>1. IInv => KeepsRegistering
  BY ConstantsAssumption, InvKeepsRegistering
<1> QED
  BY <1>1, Invariant, PTL

(* The phone turns to REGISTERED only for the run that is on and whose own  *)
(* REGISTER the server has accepted, never for an answer to an earlier run. *)
THEOREM RegisteredRunIsAccepted == Spec => RegisteredIsThisRun
<1>1. IInv /\ [Next]_vars =>
          [status' = "REGISTERED" /\ status # "REGISTERED"
               => nsd' /\ gen' = accepted']_vars
  BY ConstantsAssumption, RegisteredStep
<1> QED
  BY <1>1, Invariant, PTL DEF Spec, RegisteredIsThisRun
=============================================================================
