--------------------------- MODULE RTPSendProofs ---------------------------
(***************************************************************************)
(* Proofs about RTPSend, for any clock rates, wraps and sizes: the         *)
(* timestamps of frames follow the clock through holds, key presses,       *)
(* missed intervals and frames that fail to encode, but for what the       *)
(* thread was late between its two looks at the clock at the end of a      *)
(* hold; every digit is given to one tone, but for one refused on hold     *)
(* when the hold ends; and what is sent is whole samples.                  *)
(***************************************************************************)
EXTENDS RTPSend, SequenceTheorems, WellFoundedInduction, TLAPS

----------------------------------------------------------------------------
(* Arithmetic on timestamps *)

(* Division with remainder, and that the remainder is the only one.        *)
LEMMA Division ==
    ASSUME NEW m \in Nat \ {0}, NEW a \in Int
    PROVE  /\ a = m * (a \div m) + (a % m)
           /\ a % m \in 0..(m - 1) /\ a \div m \in Int
  BY SMT

LEMMA Remainder ==
    ASSUME NEW m \in Nat \ {0}, NEW q \in Int, NEW r \in 0..(m - 1)
    PROVE  (m * q + r) % m = r
  BY SMT

(* A sum may be reduced before or after it is taken.                       *)
LEMMA ReducedSum ==
    ASSUME NEW m \in Nat \ {0}, NEW a \in Int, NEW b \in Int
    PROVE  ((a % m) + b) % m = (a + b) % m
<1> DEFINE q == a \div m
           r == a % m
           p == (r + b) \div m
           s == (r + b) % m
<1>1. /\ q \in Int /\ r \in Int /\ a = m * q + r
      /\ p \in Int /\ s \in 0..(m - 1) /\ r + b = m * p + s
  BY Division
<1> HIDE DEF q, r, p, s
<1>2. a + b = m * (q + p) + s
  BY <1>1
<1>3. q + p \in Int
  BY <1>1
<1>4. (m * (q + p) + s) % m = s
  BY <1>1, <1>3, Remainder
<1> QED
  BY <1>2, <1>4 DEF r, s

LEMMA Reduced ==
    ASSUME NEW m \in Nat \ {0}, NEW a \in Int
    PROVE  /\ (a % m) % m = a % m
           /\ a \in 0..(m - 1) => a % m = a
<1>1. ASSUME NEW c \in 0..(m - 1) PROVE c % m = c
  <2>1. (m * 0 + c) % m = c
    BY Remainder
  <2> QED
    BY <2>1
<1>2. a % m \in 0..(m - 1)
  BY Division
<1> QED
  BY <1>1, <1>2

(* So many periods as fit into a time.                                     *)
LEMMA WholePeriods ==
    ASSUME NEW p \in Nat \ {0}, NEW t \in Nat
    PROVE  /\ t \div p \in Nat
           /\ (t \div p) * p \in Nat /\ (t \div p) * p <= t
           /\ t < (t \div p) * p + p
  BY SMT

(* The constants are numbers.                                              *)
LEMMA Rates ==
    /\ TsWrap \in Nat \ {0} /\ AudioRate \in Nat \ {0} /\ EventRate \in Nat \ {0}
    /\ Tone \in Nat \ {0} /\ Finals \in Nat /\ Finals > 1 /\ Poll \in Nat \ {0}
    /\ Period \in Nat \ {0} /\ StartTs \in Int /\ None \notin Nat
    /\ Reports \in Nat /\ Reports > Tone
  BY SendAssumption, FrameAssumption DEF StartTs, Reports, Larger

(* What a timestamp stands for moves with it, at either rate.              *)
LEMMA Moves ==
    ASSUME NEW ts \in Int, NEW x \in Int, NEW t \in Int, NEW d \in Int,
           Shows(ts, x, t)
    PROVE  /\ Shows(Plus(ts, d, AudioRate), x + d, t)
           /\ Shows(Plus(ts, d, EventRate), x + d, t + d)
<1> DEFINE place == StartTs + (x - t) * AudioRate + t * EventRate
<1>0. /\ TsWrap \in Nat \ {0} /\ AudioRate \in Int /\ EventRate \in Int
      /\ StartTs \in Int /\ place \in Int
  BY Rates
<1>1. ASSUME NEW k \in Int
      PROVE  ((ts + k) % TsWrap) % TsWrap = (place + k) % TsWrap
  <2>1. ((ts % TsWrap) + k) % TsWrap = (ts + k) % TsWrap
    BY <1>0, ReducedSum
  <2>2. ((place % TsWrap) + k) % TsWrap = (place + k) % TsWrap
    BY <1>0, ReducedSum
  <2>3. ((ts + k) % TsWrap) % TsWrap = (ts + k) % TsWrap
    <3>1. ts + k \in Int
      OBVIOUS
    <3> QED
      BY <1>0, <3>1, Reduced
  <2>4. ts % TsWrap = place % TsWrap
    BY DEF Shows
  <2> QED
    BY <2>1, <2>2, <2>3, <2>4
<1>2. place + d * AudioRate = StartTs + ((x + d) - t) * AudioRate + t * EventRate
  BY <1>0
<1>3. place + d * EventRate =
          StartTs + ((x + d) - (t + d)) * AudioRate + (t + d) * EventRate
  BY <1>0
<1>4. d * AudioRate \in Int /\ d * EventRate \in Int
  BY <1>0
<1> HIDE DEF place
<1> QED
  BY <1>1, <1>2, <1>3, <1>4 DEF Shows, Plus

(* A sum with a timestamp is one.                                          *)
LEMMA PlusStamp ==
    ASSUME NEW ts \in Int, NEW d \in Int, NEW rate \in Nat
    PROVE  Plus(ts, d, rate) \in Stamps /\ Plus(ts, d, rate) \in Int
<1>1. ts + d * rate \in Int /\ TsWrap \in Nat \ {0}
  BY Rates
<1>2. (ts + d * rate) % TsWrap \in 0..(TsWrap - 1)
  BY <1>1, Division
<1> QED
  BY <1>1, <1>2 DEF Plus, Stamps

----------------------------------------------------------------------------
(* How the transmitter moves *)

(* What Transmit leaves alone.                                             *)
Steady == UNCHANGED <<now, running, held, direct, raced, counts>>

(* Going on at a label keeps the rest of the frame, and going around the   *)
(* top of the loop only the loop's own variables.                          *)
LEMMA GoesOn ==
    ASSUME now \in Nat, NEW t, TxType(t), NEW l \in Labels, NEW sleep \in Nat,
           Goes(t, l, sleep)
    PROVE  /\ TxType(tx') /\ tx'.at = l /\ tx'.wake = now + sleep
           /\ tx'.due = t.due /\ tx'.since = t.since /\ tx'.gap = t.gap
           /\ tx'.digit = t.digit /\ tx'.began = t.began /\ tx'.sent = t.sent
           /\ tx'.ts = t.ts /\ tx'.kept = t.kept
<1>1. tx' = [at |-> l, wake |-> now + sleep, due |-> t.due, since |-> t.since,
             gap |-> t.gap, after |-> t.after, digit |-> t.digit,
             began |-> t.began, sent |-> t.sent, ts |-> t.ts, kept |-> t.kept]
  BY DEF Goes, TxType
<1>2. now + sleep \in Nat
  OBVIOUS
<1> QED
  BY <1>1, <1>2 DEF TxType

LEMMA LoopsOn ==
    ASSUME now \in Nat, NEW t, TxType(t), NEW l \in Labels, NEW sleep \in Nat,
           Loops(t, l, sleep)
    PROVE  /\ TxType(tx') /\ tx'.at = l /\ tx'.wake = now + sleep
           /\ tx'.due = t.due /\ tx'.since = t.since /\ tx'.gap = t.gap
           /\ tx'.digit = None
<1>1. tx' = [at |-> l, wake |-> now + sleep, due |-> t.due,
             since |-> t.since, gap |-> t.gap, after |-> t.after, digit |-> None,
             began |-> 0, sent |-> 0, ts |-> 0,
             kept |-> [ts |-> 0, gap |-> 0, toned |-> 0]]
  BY DEF Loops, Idle
<1>2. now + sleep \in Nat /\ 0 \in Stamps
  BY Rates DEF Stamps
<1>3. KeptType([ts |-> 0, gap |-> 0, toned |-> 0])
  BY DEF KeptType
<1> QED
  BY <1>1, <1>2, <1>3 DEF TxType

(* The bearings of the transmitter, for its steps: it runs when it is due, *)
(* and what it was late by then adds up.                                   *)
LEMMA Running ==
    ASSUME IInv, NEW l, Runs(l)
    PROVE  /\ tx.at = l /\ now \in Nat /\ tx.wake \in Nat /\ tx.wake <= now
           /\ late \in Nat /\ late' \in Nat /\ late' = late + (now - tx.wake)
           /\ TxType(tx) /\ tx.due \in Nat /\ tx.due <= tx.wake
           /\ tx.gap \in Nat /\ outTs \in Int /\ toned \in Nat /\ twice \in Nat
           /\ tx.since # None => tx.since \in Nat /\ tx.since <= tx.wake
           /\ pending \in Seq(Nat) /\ begun \in Seq(Nat) /\ None \notin Nat
<1>1. /\ tx.at = l /\ now \in Nat /\ tx.wake \in Nat /\ tx.wake <= now
      /\ late \in Nat /\ late' = late + (now - tx.wake)
      /\ TxType(tx) /\ tx.due \in Nat /\ tx.due <= tx.wake
  BY DEF IInv, TypeOK, TxType, TxInv, Runs
<1>2. /\ tx.gap \in Nat /\ outTs \in Int /\ toned \in Nat /\ twice \in Nat
      /\ pending \in Seq(Nat) /\ begun \in Seq(Nat)
  BY DEF IInv, TypeOK, TxType
<1>3. tx.since # None => tx.since \in Nat /\ tx.since <= tx.wake
  BY DEF IInv, TypeOK, TxType, TxInv
<1>4. late' \in Nat
  BY <1>1
<1> QED
  BY <1>1, <1>2, <1>3, <1>4, Rates

(* The stream is at y, and ahead of that by lead: what ClockInv says, and  *)
(* what it takes to say it again.                                          *)
LEMMA ClockFrom ==
    ASSUME IInv, nows = 0, stops = 0
    PROVE  \E y \in Int, lead \in Nat :
               /\ lead <= twice /\ Anchor - (late - Between) <= y /\ y <= Anchor
               /\ IsAt(y + lead) /\ InTime(y)
<1>1. PICK lag \in 0..(late - Between), lead \in 0..twice :
          IsAt(Anchor - lag + lead) /\ InTime(Anchor - lag)
  BY DEF IInv, ClockInv
<1>2. /\ late \in Int /\ twice \in Nat /\ tx.wake \in Int /\ tx.began \in Int
      /\ tx.due \in Int /\ (tx.since # None => tx.since \in Int)
  BY DEF IInv, TypeOK, TxType
<1>3. Anchor \in Int /\ Between \in Int
  BY <1>2 DEF Anchor, Between
<1>4. PICK y \in Int : y = Anchor - lag
  BY <1>3
<1>5. Anchor - lag + lead = y + lead
  BY <1>3, <1>4
<1>6. Anchor - (late - Between) <= y /\ y <= Anchor /\ lead \in Nat /\ lead <= twice
  BY <1>2, <1>3, <1>4
<1> QED
  BY <1>1, <1>4, <1>5, <1>6

LEMMA ClockAt ==
    ASSUME NEW a \in Int, Anchor' = a, NEW room \in Int, (late - Between)' = room,
           NEW y \in Int, NEW lead \in Nat, twice' \in Nat, lead <= twice',
           a - room <= y, y <= a, IsAt(y + lead)', InTime(y)'
    PROVE  ClockInv'
<1>1. PICK lag \in 0..room : lag = a - y
  <2>1. a - y \in 0..room
    OBVIOUS
  <2> QED
    BY <2>1
<1>2. /\ Anchor' - lag + lead = y + lead /\ Anchor' - lag = y
      /\ lead \in 0..twice' /\ lag \in 0..(late - Between)'
  BY <1>1
<1>3. IsAt(Anchor - lag + lead)'
  BY <1>2 DEF IsAt
<1>4. InTime(Anchor - lag)'
  BY <1>2 DEF InTime
<1> QED
  BY <1>2, <1>3, <1>4 DEF ClockInv

----------------------------------------------------------------------------
(* Digits *)

(* A line of digits out of 1..n in order, that lacks only lost ones.       *)
InLine(line, n, lost) ==
    /\ Ascends(line) /\ Digits(line) \subseteq 1..n
    /\ (1..n) \ lost \subseteq Digits(line)

LEMMA DigitsStay ==
    ASSUME IInv, Line' = Line, UNCHANGED <<dials, raced, stops>>
    PROVE  DigitsInOrder'
<1>1. Ascends(Line)' <=> Ascends(Line)
  BY DEF Ascends
<1>2. Digits(Line)' = Digits(Line)
  BY DEF Digits
<1> QED
  BY <1>1, <1>2 DEF IInv, DigitInv, DigitsInOrder

(* A digit goes from what waits into the hand, from there to its tone or   *)
(* back, and a new one waits behind the others.                            *)
LEMMA DigitTaken ==
    ASSUME NEW b \in Seq(Nat), NEW p \in Seq(Nat), p # <<>>
    PROVE  /\ p[1] \in Nat /\ Tail(p) \in Seq(Nat)
           /\ b \o <<>> \o p = b \o <<p[1]>> \o Tail(p)
<1>1. p[1] \in Nat /\ Tail(p) \in Seq(Nat) /\ p = <<p[1]>> \o Tail(p)
  OBVIOUS
<1>2. <<p[1]>> \in Seq(Nat)
  BY <1>1
<1>3. (b \o <<p[1]>>) \o Tail(p) = b \o (<<p[1]>> \o Tail(p))
  BY <1>1, <1>2, ConcatAssociative
<1>4. b \o <<>> = b
  BY ConcatEmptySeq
<1> QED
  BY <1>1, <1>3, <1>4

LEMMA DigitBegins ==
    ASSUME NEW b \in Seq(Nat), NEW p \in Seq(Nat), NEW d \in Nat
    PROVE  /\ Append(b, d) \in Seq(Nat)
           /\ Append(b, d) \o <<>> \o p = b \o <<d>> \o p
<1>1. Append(b, d) \in Seq(Nat) /\ Append(b, d) = b \o <<d>>
  BY AppendProperties, AppendIsConcat
<1>2. Append(b, d) \o <<>> = Append(b, d)
  BY <1>1, ConcatEmptySeq
<1> QED
  BY <1>1, <1>2

LEMMA DigitReturns ==
    ASSUME NEW b \in Seq(Nat), NEW p \in Seq(Nat), NEW d \in Nat
    PROVE  /\ <<d>> \o p \in Seq(Nat)
           /\ b \o <<>> \o (<<d>> \o p) = b \o <<d>> \o p
<1>1. <<d>> \in Seq(Nat) /\ b \o <<>> = b
  BY ConcatEmptySeq
<1>2. <<d>> \o p \in Seq(Nat) /\ (b \o <<d>>) \o p = b \o (<<d>> \o p)
  BY <1>1, ConcatProperties, ConcatAssociative
<1> QED
  BY <1>1, <1>2

LEMMA DigitDialled ==
    ASSUME NEW b \in Seq(Nat), NEW h \in Seq(Nat), NEW p \in Seq(Nat),
           NEW d \in Nat
    PROVE  b \o h \o Append(p, d) = (b \o h \o p) \o <<d>>
<1>1. <<d>> \in Seq(Nat)
  OBVIOUS
<1>2. Append(p, d) = p \o <<d>> /\ b \o h \in Seq(Nat)
  BY AppendIsConcat, ConcatProperties
<1> QED
  BY <1>1, <1>2, ConcatAssociative

LEMMA LineDialled ==
    ASSUME NEW line \in Seq(Nat), NEW n \in Nat, NEW lost, InLine(line, n, lost)
    PROVE  InLine(line \o <<n + 1>>, n + 1, lost)
<1>0. n + 1 \in Nat /\ <<n + 1>> \in Seq(Nat)
  OBVIOUS
<1>1. PICK more \in Seq(Nat) : more = line \o <<n + 1>>
  BY <1>0, ConcatProperties
<1>2. PICK m \in Nat : m = Len(line)
  OBVIOUS
<1>3. /\ DOMAIN line = 1..m /\ DOMAIN more = 1..(m + 1)
      /\ \A k \in 1..m : more[k] = line[k] /\ more[k] \in 1..n
      /\ more[m + 1] = n + 1
  BY <1>1, <1>2 DEF InLine, Digits
<1>4. Ascends(more)
  <2>1. SUFFICES ASSUME NEW j \in 1..(m + 1), NEW k \in 1..(m + 1), j < k
                 PROVE  more[j] < more[k]
    BY <1>3 DEF Ascends
  <2>2. j \in 1..m
    BY <2>1
  <2>3. CASE k \in 1..m
    BY <1>3, <2>1, <2>2, <2>3 DEF InLine, Ascends
  <2>4. CASE k = m + 1
    BY <1>3, <2>2, <2>4
  <2> QED
    BY <2>3, <2>4
<1>5. Digits(more) = Digits(line) \cup {n + 1}
  <2>1. m + 1 \in 1..(m + 1) /\ 1..m \subseteq 1..(m + 1)
    OBVIOUS
  <2>2. \A k \in 1..(m + 1) : k \in 1..m \/ k = m + 1
    OBVIOUS
  <2> QED
    BY <1>3, <2>1, <2>2 DEF Digits
<1>6. 1..(n + 1) = (1..n) \cup {n + 1}
  OBVIOUS
<1> QED
  BY <1>1, <1>4, <1>5, <1>6 DEF InLine

(* A digit is lost from the middle of the line.                            *)
LEMMA LineDrops ==
    ASSUME NEW b \in Seq(Nat), NEW p \in Seq(Nat), NEW d \in Nat,
           NEW n \in Nat, NEW lost, InLine(b \o <<d>> \o p, n, lost), d \in lost
    PROVE  InLine(b \o <<>> \o p, n, lost)
<1>1. PICK i \in Nat, m \in Nat : i = Len(b) /\ m = Len(p)
  OBVIOUS
<1>a. PICK c \in Seq(Nat) : c = b \o <<d>>
  <2>1. <<d>> \in Seq(Nat)
    OBVIOUS
  <2> QED
    BY <2>1, ConcatProperties
<1>2. PICK line \in Seq(Nat) : line = c \o p
  BY ConcatProperties
<1>b. line = b \o <<d>> \o p
  BY <1>a, <1>2
<1>3. PICK rest \in Seq(Nat) : rest = b \o p
  BY ConcatProperties
<1>c. rest = b \o <<>> \o p
  BY <1>3, ConcatEmptySeq
<1>4. /\ DOMAIN line = 1..(i + 1 + m) /\ DOMAIN rest = 1..(i + m)
      /\ line[i + 1] = d
      /\ \A k \in 1..i : line[k] = b[k] /\ rest[k] = b[k]
      /\ \A k \in 1..m : line[i + 1 + k] = p[k] /\ rest[i + k] = p[k]
  <2>2. /\ Len(c) = i + 1 /\ c[i + 1] = d /\ \A k \in 1..i : c[k] = b[k]
    BY <1>1, <1>a
  <2>3. /\ Len(line) = i + 1 + m /\ \A k \in 1..(i + 1) : line[k] = c[k]
        /\ \A k \in 1..m : line[i + 1 + k] = p[k]
    <3>1. /\ Len(line) = Len(c) + Len(p)
          /\ \A k \in 1..Len(c) : line[k] = c[k]
          /\ \A k \in 1..Len(p) : line[Len(c) + k] = p[k]
      BY <1>2
    <3> QED
      BY <1>1, <2>2, <3>1
  <2>4. /\ Len(rest) = i + m /\ \A k \in 1..i : rest[k] = b[k]
        /\ \A k \in 1..m : rest[i + k] = p[k]
    BY <1>1, <1>3
  <2> QED
    BY <2>2, <2>3, <2>4
<1>5. DEFINE place(k) == IF k <= i THEN k ELSE k + 1
<1>6. ASSUME NEW k \in 1..(i + m)
      PROVE  place(k) \in 1..(i + 1 + m) /\ rest[k] = line[place(k)]
  <2>1. CASE k <= i
    BY <1>4, <2>1
  <2>2. CASE k > i
    <3>1. PICK q \in 1..m : k = i + q
      <4>1. k - i \in 1..m /\ k = i + (k - i)
        BY <2>2
      <4> QED
        BY <4>1
    <3>2. place(k) = i + 1 + q /\ i + 1 + q \in 1..(i + 1 + m)
      BY <2>2, <3>1
    <3>3. rest[i + q] = p[q] /\ line[i + 1 + q] = p[q]
      BY <1>4
    <3> QED
      BY <3>1, <3>2, <3>3
  <2> QED
    BY <2>1, <2>2
<1>7. Ascends(rest)
  <2>1. SUFFICES ASSUME NEW j \in 1..(i + m), NEW k \in 1..(i + m), j < k
                 PROVE  rest[j] < rest[k]
    BY <1>4 DEF Ascends
  <2>2. place(j) < place(k)
    BY <2>1
  <2> HIDE DEF place
  <2>3. PICK x \in 1..(i + 1 + m) : x = place(j) /\ rest[j] = line[x]
    BY <1>6
  <2>4. PICK y \in 1..(i + 1 + m) : y = place(k) /\ rest[k] = line[y]
    BY <1>6
  <2>5. Ascends(line)
    BY <1>b DEF InLine
  <2>6. line[x] < line[y]
    BY <1>4, <2>2, <2>3, <2>4, <2>5 DEF Ascends
  <2> QED
    BY <2>3, <2>4, <2>6
<1>8. Digits(rest) \subseteq Digits(line)
  <2> HIDE DEF place
  <2> QED
    BY <1>4, <1>6 DEF Digits
<1>9. Digits(line) \subseteq Digits(rest) \cup {d}
  <2>1. \A j \in 1..(i + m) : rest[j] \in Digits(rest)
    BY <1>4 DEF Digits
  <2>2. ASSUME NEW k \in 1..(i + 1 + m), k # i + 1
        PROVE  line[k] \in Digits(rest)
    <3>1. CASE k <= i
      <4>1. k \in 1..i /\ k \in 1..(i + m)
        BY <3>1
      <4> QED
        BY <1>4, <2>1, <4>1
    <3>2. CASE k > i + 1
      <4>1. PICK q \in 1..m : k = i + 1 + q
        <5>1. k - (i + 1) \in 1..m /\ k = i + 1 + (k - (i + 1))
          BY <3>2
        <5> QED
          BY <5>1
      <4>2. i + q \in 1..(i + m)
        OBVIOUS
      <4>3. rest[i + q] = p[q] /\ line[i + 1 + q] = p[q]
        BY <1>4
      <4> QED
        BY <2>1, <4>1, <4>2, <4>3
    <3> QED
      BY <2>2, <3>1, <3>2
  <2>3. ASSUME NEW v \in Digits(line) PROVE v \in Digits(rest) \cup {d}
    <3>1. PICK k \in 1..(i + 1 + m) : v = line[k]
      BY <1>4 DEF Digits
    <3> QED
      BY <1>4, <2>2, <3>1
  <2> QED
    BY <2>3
<1> QED
  BY <1>b, <1>c, <1>7, <1>8, <1>9 DEF InLine

----------------------------------------------------------------------------
(* Steps of the transmitter *)

(* A look at the direction, on to the hold or past it.                     *)
LEMMA LookKeeps ==
    ASSUME IInv, Look, Steady
    PROVE  IInv'
<1>0. /\ tx.at = "head" /\ now \in Nat /\ tx.wake \in Nat /\ tx.wake <= now
      /\ late \in Nat /\ late' \in Nat /\ late' = late + (now - tx.wake)
      /\ TxType(tx) /\ tx.due \in Nat /\ tx.due <= tx.wake /\ tx.gap \in Nat
      /\ twice \in Nat /\ None \notin Nat
      /\ tx.since # None => tx.since \in Nat /\ tx.since <= tx.wake
  BY Running DEF Look
<1>1. PICK l \in {"hold", "turn"} : Goes(tx, l, 0)
  BY DEF Look
<1>2. tx.digit = None
  BY <1>0 DEF IInv, DigitInv
<1>3. /\ TxType(tx') /\ tx'.at = l /\ tx'.wake = now /\ tx'.due = tx.due
      /\ tx'.since = tx.since /\ tx'.gap = tx.gap /\ tx'.digit = None
  <2>1. l \in Labels /\ 0 \in Nat /\ now + 0 = now
    BY <1>0 DEF Labels
  <2> QED
    BY <1>0, <1>1, <1>2, <2>1, GoesOn
<1>4. /\ UNCHANGED <<outTs, pending, toned, twice, begun, now, running, held,
                     direct, raced, dials, nows, stops>>
  BY DEF Look, Steady, counts
<1>5. TypeOK'
  BY <1>0, <1>3, <1>4 DEF IInv, TypeOK
<1>6. TxInv'
  BY <1>0, <1>3, <1>4 DEF IInv, TxInv
<1>7. ClockInv'
  <2>1. SUFFICES ASSUME nows = 0, stops = 0 PROVE ClockInv'
    BY <1>4 DEF ClockInv
  <2>2. PICK y \in Int, lead \in Nat :
            /\ lead <= twice /\ Anchor - (late - Between) <= y /\ y <= Anchor
            /\ IsAt(y + lead) /\ InTime(y)
    BY <2>1, ClockFrom
  <2>3. PICK a \in Int : a = IF tx.since = None THEN now ELSE tx.since
    BY <1>0
  <2>4. PICK b \in Int :
            b = IF l = "turn" /\ tx.since # None THEN now - tx.due ELSE 0
    BY <1>0
  <2>5. Anchor' = a /\ (late - Between)' = late' - b /\ late' - b \in Int
    BY <1>0, <1>3, <1>4, <2>3, <2>4 DEF Anchor, Between
  <2>6. a - (late' - b) <= y /\ y <= a
    <3>1. CASE tx.since = None
      <4>1. Anchor = tx.wake /\ Between = 0 /\ b = 0 /\ a = now
        BY <1>0, <2>3, <2>4, <3>1 DEF Anchor, Between
      <4> QED
        BY <1>0, <2>2, <4>1
    <3>2. CASE tx.since # None
      <4>1. Anchor = tx.since /\ Between = tx.wake - tx.due /\ a = tx.since
        BY <1>0, <2>3, <3>2 DEF Anchor, Between
      <4>2. b <= (now - tx.wake) + (tx.wake - tx.due)
        BY <1>0, <2>4
      <4> QED
        BY <1>0, <2>2, <4>1, <4>2
    <3> QED
      BY <3>1, <3>2
  <2>7. IsAt(y + lead)'
    BY <1>0, <1>3, <1>4, <2>2 DEF IsAt
  <2>8. InTime(y)'
    BY <1>0, <1>3, <2>2 DEF InTime
  <2>9. twice' \in Nat /\ lead <= twice'
    BY <1>0, <1>4, <2>2
  <2> QED
    BY <2>5, <2>6, <2>7, <2>8, <2>9, ClockAt
<1>8. DigitInv'
  <2>1. DigitsInOrder'
    BY <1>2, <1>3, <1>4, DigitsStay DEF Line
  <2> QED
    BY <1>3, <2>1 DEF DigitInv
<1> QED
  BY <1>5, <1>6, <1>7, <1>8 DEF IInv

(* On hold nothing moves but the time of the next look.                    *)
LEMMA HoldKeeps ==
    ASSUME IInv, Hold, Steady
    PROVE  IInv'
<1>0. /\ tx.at = "hold" /\ now \in Nat /\ tx.wake \in Nat /\ tx.wake <= now
      /\ late \in Nat /\ late' \in Nat /\ late' = late + (now - tx.wake)
      /\ TxType(tx) /\ tx.due \in Nat /\ tx.due <= tx.wake /\ tx.gap \in Nat
      /\ twice \in Nat /\ None \notin Nat
      /\ tx.since # None => tx.since \in Nat /\ tx.since <= tx.wake
  BY Running DEF Hold
<1>1. PICK since \in Nat : since = IF tx.since = None THEN now ELSE tx.since
  BY <1>0
<1>2. PICK t : t = [tx EXCEPT !.since = since]
  OBVIOUS
<1>3. TxType(t) /\ t.due = tx.due /\ t.since = since /\ t.gap = tx.gap
  BY <1>0, <1>2 DEF TxType
<1>4. /\ TxType(tx') /\ tx'.at = "again" /\ tx'.wake = now + Poll
      /\ tx'.due = tx.due /\ tx'.since = since /\ tx'.gap = tx.gap
      /\ tx'.digit = None
  <2>1. Loops(t, "again", Poll)
    BY <1>1, <1>2 DEF Hold
  <2>2. "again" \in Labels /\ Poll \in Nat
    BY Rates DEF Labels
  <2> QED
    BY <1>0, <1>3, <2>1, <2>2, LoopsOn
<1>5. /\ UNCHANGED <<outTs, pending, toned, twice, begun, now, running, held,
                     direct, raced, dials, nows, stops>>
  BY DEF Hold, Steady, counts
<1>6. since <= now /\ Poll \in Nat
  BY <1>0, <1>1, Rates
<1>7. TypeOK'
  BY <1>0, <1>4, <1>5 DEF IInv, TypeOK
<1>8. TxInv'
  BY <1>0, <1>4, <1>5, <1>6 DEF IInv, TxInv
<1>9. ClockInv'
  <2>1. SUFFICES ASSUME nows = 0, stops = 0 PROVE ClockInv'
    BY <1>5 DEF ClockInv
  <2>2. PICK y \in Int, lead \in Nat :
            /\ lead <= twice /\ Anchor - (late - Between) <= y /\ y <= Anchor
            /\ IsAt(y + lead) /\ InTime(y)
    BY <2>1, ClockFrom
  <2>3. Anchor' = since /\ (late - Between)' = late' /\ Between = 0
    BY <1>0, <1>4, <1>5 DEF Anchor, Between
  <2>4. Anchor = IF tx.since = None THEN tx.wake ELSE tx.since
    BY <1>0 DEF Anchor
  <2>5. since - late' <= y /\ y <= since
    BY <1>0, <1>1, <2>2, <2>3, <2>4
  <2>6. IsAt(y + lead)' /\ InTime(y)'
    BY <1>0, <1>4, <1>5, <2>2 DEF IsAt, InTime
  <2>7. twice' \in Nat /\ lead <= twice' /\ since \in Int /\ late' \in Int
    BY <1>0, <1>5, <2>2
  <2> QED
    BY <2>3, <2>5, <2>6, <2>7, ClockAt
<1>10. DigitInv'
  <2>1. tx.digit = None
    BY <1>0 DEF IInv, DigitInv
  <2>2. DigitsInOrder'
    BY <1>4, <1>5, <2>1, DigitsStay DEF Line
  <2> QED
    BY <1>4, <2>2 DEF DigitInv
<1> QED
  BY <1>7, <1>8, <1>9, <1>10 DEF IInv

(* The deadline is due anew.                                               *)
LEMMA AgainKeeps ==
    ASSUME IInv, Again, Steady
    PROVE  IInv'
<1>0. /\ tx.at = "again" /\ now \in Nat /\ tx.wake \in Nat /\ tx.wake <= now
      /\ late \in Nat /\ late' \in Nat /\ late' = late + (now - tx.wake)
      /\ TxType(tx) /\ tx.gap \in Nat /\ twice \in Nat /\ None \notin Nat
      /\ tx.since # None => tx.since \in Nat /\ tx.since <= tx.wake
  BY Running DEF Again
<1>1. tx.digit = None
  BY <1>0 DEF IInv, DigitInv
<1>2. PICK t : t = [tx EXCEPT !.due = now]
  OBVIOUS
<1>3. /\ TxType(t) /\ t.due = now /\ t.since = tx.since /\ t.gap = tx.gap
      /\ t.digit = None
  BY <1>0, <1>1, <1>2 DEF TxType
<1>4. /\ TxType(tx') /\ tx'.at = "head" /\ tx'.wake = now /\ tx'.due = now
      /\ tx'.since = tx.since /\ tx'.gap = tx.gap /\ tx'.digit = None
  <2>1. "head" \in Labels /\ 0 \in Nat /\ now + 0 = now /\ Goes(t, "head", 0)
    BY <1>0, <1>2 DEF Labels, Again
  <2> QED
    BY <1>0, <1>3, <2>1, GoesOn
<1>5. /\ UNCHANGED <<outTs, pending, toned, twice, begun, now, running, held,
                     direct, raced, dials, nows, stops>>
  BY DEF Again, Steady, counts
<1>6. TypeOK'
  BY <1>0, <1>4, <1>5 DEF IInv, TypeOK
<1>7. TxInv'
  BY <1>0, <1>4, <1>5 DEF IInv, TxInv
<1>8. ClockInv'
  <2>1. SUFFICES ASSUME nows = 0, stops = 0 PROVE ClockInv'
    BY <1>5 DEF ClockInv
  <2>2. PICK y \in Int, lead \in Nat :
            /\ lead <= twice /\ Anchor - (late - Between) <= y /\ y <= Anchor
            /\ IsAt(y + lead) /\ InTime(y)
    BY <2>1, ClockFrom
  <2>3. PICK a \in Int : a = IF tx.since = None THEN now ELSE tx.since
    BY <1>0
  <2>4. Anchor' = a /\ (late - Between)' = late' /\ Between = 0
    BY <1>0, <1>4, <1>5, <2>3 DEF Anchor, Between
  <2>5. Anchor = IF tx.since = None THEN tx.wake ELSE tx.since
    BY <1>0 DEF Anchor
  <2>6. a - late' <= y /\ y <= a /\ y <= now
    BY <1>0, <2>2, <2>3, <2>4, <2>5
  <2>7. IsAt(y + lead)' /\ InTime(y)'
    BY <1>0, <1>4, <1>5, <2>2, <2>6 DEF IsAt, InTime
  <2>8. twice' \in Nat /\ lead <= twice' /\ late' \in Int
    BY <1>0, <1>5, <2>2
  <2> QED
    BY <2>4, <2>6, <2>7, <2>8, ClockAt
<1>9. DigitInv'
  <2>1. DigitsInOrder'
    BY <1>1, <1>4, <1>5, DigitsStay DEF Line
  <2> QED
    BY <1>4, <2>1 DEF DigitInv
<1> QED
  BY <1>6, <1>7, <1>8, <1>9 DEF IInv

(* Past a hold the stream has gone on for as long as it lasted, in the     *)
(* timestamp or in the gap after a tone; what the transmitter was late     *)
(* since the deadline was set will count again.                            *)
LEMMA TurnKeeps ==
    ASSUME IInv, Turn, Steady
    PROVE  IInv'
<1>0. /\ tx.at = "turn" /\ now \in Nat /\ tx.wake \in Nat /\ tx.wake <= now
      /\ late \in Nat /\ late' \in Nat /\ late' = late + (now - tx.wake)
      /\ TxType(tx) /\ tx.due \in Nat /\ tx.due <= tx.wake /\ tx.gap \in Nat
      /\ outTs \in Int /\ toned \in Nat /\ None \notin Nat /\ twice \in Nat
      /\ tx.since # None => tx.since \in Nat /\ tx.since <= tx.wake
      /\ pending \in Seq(Nat) /\ begun \in Seq(Nat)
  BY Running DEF Turn
<1>1. PICK pause \in Nat : pause = Paused
  BY <1>0 DEF Paused
<1>2. pause = IF tx.since = None THEN 0 ELSE now - tx.since
  BY <1>1 DEF Paused
<1>3. PICK over \in Nat : over = IF tx.since = None THEN 0 ELSE now - tx.due
  BY <1>0
<1>4. twice' = twice + over /\ twice' \in Nat
  <2>1. twice' = IF tx.since = None THEN twice ELSE twice + (now - tx.due)
    BY DEF Turn
  <2> QED
    BY <1>0, <1>3, <2>1
<1>5. PICK gap \in Nat : gap = IF tx.after THEN tx.gap + Paused ELSE tx.gap
  BY <1>0, <1>1
<1>6. PICK on : on = [tx EXCEPT !.since = None, !.gap = gap]
  OBVIOUS
<1>7. /\ outTs' = IF tx.after THEN outTs ELSE Plus(outTs, pause, AudioRate)
      /\ \/ pending = <<>> /\ Goes(on, "frame", 0) /\ pending' = pending
         \/ /\ pending # <<>> /\ pending' = Tail(pending)
            /\ Goes([on EXCEPT !.digit = pending[1]], "event", 0)
  BY <1>1, <1>5, <1>6 DEF Turn
<1>8. tx.digit = None
  BY <1>0 DEF IInv, DigitInv
<1>9. /\ TxType(on) /\ on.due = tx.due /\ on.since = None /\ on.gap = gap
      /\ on.digit = None
  BY <1>0, <1>6, <1>8 DEF TxType
<1>10. pending # <<>> =>
           /\ pending[1] \in Nat /\ Tail(pending) \in Seq(Nat)
           /\ begun \o <<>> \o pending = begun \o <<pending[1]>> \o Tail(pending)
  BY <1>0, DigitTaken
<1>11. /\ UNCHANGED <<toned, begun, now, running, held, direct, raced, dials,
                      nows, stops>>
  BY DEF Turn, Steady, counts
<1>12. /\ TxType(tx') /\ tx'.wake = now /\ tx'.due = tx.due /\ tx'.since = None
       /\ tx'.gap = gap
       /\ \/ tx'.at = "frame" /\ tx'.digit = None /\ pending' = pending
          \/ /\ tx'.at = "event" /\ pending # <<>> /\ tx'.digit = pending[1]
             /\ pending' = Tail(pending)
  <2>1. "frame" \in Labels /\ "event" \in Labels /\ 0 \in Nat /\ now + 0 = now
    BY <1>0 DEF Labels
  <2>2. CASE pending = <<>>
    <3>1. Goes(on, "frame", 0) /\ pending' = pending
      BY <1>7, <2>2
    <3> QED
      BY <1>0, <1>9, <2>1, <3>1, GoesOn
  <2>3. CASE pending # <<>>
    <3>1. PICK with : with = [on EXCEPT !.digit = pending[1]]
      OBVIOUS
    <3>2. Goes(with, "event", 0) /\ pending' = Tail(pending)
      BY <1>7, <2>3, <3>1
    <3>3. /\ TxType(with) /\ with.due = tx.due /\ with.since = None
          /\ with.gap = gap /\ with.digit = pending[1]
      BY <1>9, <1>10, <2>3, <3>1 DEF TxType
    <3>4. /\ TxType(tx') /\ tx'.at = "event" /\ tx'.wake = now
          /\ tx'.due = tx.due /\ tx'.since = None /\ tx'.gap = gap
          /\ tx'.digit = pending[1]
      BY <1>0, <2>1, <3>2, <3>3, GoesOn
    <3> QED
      BY <2>3, <3>2, <3>4
  <2> QED
    BY <2>2, <2>3
<1>13. outTs' \in Int
  <2>1. Plus(outTs, pause, AudioRate) \in Int
    BY <1>0, PlusStamp, Rates
  <2> QED
    BY <1>0, <1>7, <2>1
<1>14. pending' \in Seq(Nat)
  BY <1>0, <1>7, <1>10
<1>15. TypeOK'
  BY <1>0, <1>4, <1>11, <1>12, <1>13, <1>14 DEF IInv, TypeOK
<1>16. TxInv'
  <2>1. /\ tx'.at \in {"frame", "event"} /\ tx'.due <= tx'.wake
        /\ tx'.since = None
    BY <1>0, <1>12
  <2>2. stops' = 0 => running'
    BY <1>11 DEF IInv, TxInv
  <2>3. nows' = 0 => direct' = Nobody
    BY <1>11 DEF IInv, TxInv
  <2> QED
    BY <2>1, <2>2, <2>3 DEF TxInv
<1>17. ClockInv'
  <2>1. SUFFICES ASSUME nows = 0, stops = 0 PROVE ClockInv'
    BY <1>11 DEF ClockInv
  <2>2. PICK y \in Int, lead \in Nat :
            /\ lead <= twice /\ Anchor - (late - Between) <= y /\ y <= Anchor
            /\ IsAt(y + lead) /\ InTime(y)
    BY <2>1, ClockFrom
  <2>3. PICK x \in Int : x = y + lead
    OBVIOUS
  <2>4. Shows(outTs, x - tx.gap, toned)
    BY <1>0, <2>2, <2>3 DEF IsAt
  <2>5. Shows(outTs', (x + pause) - gap, toned)
    <3>1. CASE tx.after
      <4>1. (x + pause) - gap = x - tx.gap
        BY <1>0, <1>1, <1>5, <3>1
      <4> QED
        BY <1>7, <2>4, <3>1, <4>1
    <3>2. CASE ~tx.after
      <4>1. Shows(Plus(outTs, pause, AudioRate), (x - tx.gap) + pause, toned)
        BY <1>0, <2>4, Moves
      <4>2. (x - tx.gap) + pause = (x + pause) - gap
        BY <1>0, <1>5, <3>2
      <4> QED
        BY <1>7, <3>2, <4>1, <4>2
    <3> QED
      BY <3>1, <3>2
  <2>6. PICK z \in Int : z = y + pause - over
    OBVIOUS
  <2>7. PICK more \in Nat : more = lead + over
    OBVIOUS
  <2>8. z + more = x + pause
    BY <2>3, <2>6, <2>7
  <2>9. now - late' <= z /\ z <= now /\ z <= tx.due
    <3>1. CASE tx.since = None
      <4>1. Anchor = tx.wake /\ Between = 0 /\ y <= tx.due /\ z = y
        BY <1>0, <1>2, <1>3, <2>2, <2>6, <3>1 DEF Anchor, Between, InTime
      <4> QED
        BY <1>0, <2>2, <4>1
    <3>2. CASE tx.since # None
      <4>1. PICK since \in Int, wake \in Int, due \in Int :
                since = tx.since /\ wake = tx.wake /\ due = tx.due
        BY <1>0, <3>2
      <4>2. Anchor = since /\ Between = wake - due
        BY <1>0, <3>2, <4>1 DEF Anchor, Between
      <4>3. since - (late - (wake - due)) <= y /\ y <= since
        BY <2>2, <4>2
      <4>4. pause = now - since /\ over = now - due
        BY <1>2, <1>3, <3>2, <4>1
      <4>5. z = (y - since) + due
        BY <1>0, <2>6, <4>4
      <4>6. /\ now \in Int /\ late \in Int /\ late' = late + (now - wake)
            /\ due <= now /\ due = tx.due
        BY <1>0, <4>1
      <4>7. z <= due
        BY <4>3, <4>5
      <4>8. now - late' <= z
        BY <4>3, <4>5, <4>6
      <4> QED
        BY <4>6, <4>7, <4>8
    <3> QED
      BY <3>1, <3>2
  <2>10. Anchor' = now /\ (late - Between)' = late'
    BY <1>0, <1>11, <1>12 DEF Anchor, Between
  <2>11. IsAt(z + more)' /\ InTime(z)'
    BY <1>11, <1>12, <2>5, <2>8, <2>9 DEF IsAt, InTime
  <2>12. more <= twice' /\ late' \in Int /\ now \in Int
    BY <1>0, <1>4, <2>2, <2>7
  <2> QED
    BY <1>4, <2>9, <2>10, <2>11, <2>12, ClockAt
<1>18. DigitInv'
  <2>1. tx'.digit # None <=> tx'.at \in {"event", "begin", "refused"}
    BY <1>0, <1>10, <1>12
  <2>2. Line' = Line
    <3>1. Line = begun \o <<>> \o pending
      BY <1>8 DEF Line
    <3>2. CASE tx'.at = "frame"
      BY <1>8, <1>11, <1>12, <3>2 DEF Line
    <3>3. CASE tx'.at = "event"
      <4>1. /\ tx'.digit = pending[1] /\ pending[1] # None
            /\ pending' = Tail(pending) /\ pending # <<>>
        BY <1>0, <1>10, <1>12, <3>3
      <4>2. Line' = begun \o <<pending[1]>> \o Tail(pending)
        BY <1>11, <4>1 DEF Line
      <4> QED
        BY <1>10, <3>1, <4>1, <4>2
    <3> QED
      BY <1>12, <3>2, <3>3
  <2>3. DigitsInOrder'
    BY <1>11, <2>2, DigitsStay
  <2> QED
    BY <1>12, <2>1, <2>3 DEF DigitInv
<1> QED
  BY <1>15, <1>16, <1>17, <1>18 DEF IInv


(* The same past the top of the loop, where no hold is being looked at.    *)
LEMMA PlainFrom ==
    ASSUME IInv, nows = 0, stops = 0, tx.since = None,
           NEW a \in Int, a = IF tx.at = "tone" THEN tx.began ELSE tx.wake
    PROVE  \E y \in Int, lead \in Nat :
               /\ lead <= twice /\ a - late <= y /\ y <= a
               /\ IsAt(y + lead) /\ InTime(y)
<1>1. PICK y \in Int, lead \in Nat :
          /\ lead <= twice /\ Anchor - (late - Between) <= y /\ y <= Anchor
          /\ IsAt(y + lead) /\ InTime(y)
  BY ClockFrom
<1>2. Anchor = a /\ Between = 0
  BY DEF Anchor, Between
<1>3. late \in Nat
  BY DEF IInv, TypeOK
<1>4. Anchor - (late - Between) = a - late
  BY <1>2, <1>3
<1> QED
  BY <1>1, <1>2, <1>4

LEMMA LessNothing ==
    ASSUME NEW n \in Int
    PROVE  n - 0 = n
  BY SMT

LEMMA PlainAt ==
    ASSUME tx'.since = None, late' \in Nat,
           NEW a \in Int, a = IF tx'.at = "tone" THEN tx'.began ELSE tx'.wake,
           NEW y \in Int, NEW lead \in Nat, twice' \in Nat, lead <= twice',
           a - late' <= y, y <= a, IsAt(y + lead)', InTime(y)'
    PROVE  ClockInv'
<1>1. Anchor' = a /\ Between' = 0
  BY DEF Anchor, Between
<1>2. PICK room \in Int : room = late'
  OBVIOUS
<1>3. (late - Between)' = room
  <2>1. room - 0 = room
    BY LessNothing
  <2> QED
    BY <1>1, <1>2, <2>1
<1>4. a - room <= y
  BY <1>2
<1> QED
  BY <1>1, <1>3, <1>4, ClockAt

(* The gap before a tone goes into the timestamp, at the rate of events;   *)
(* the transmitter keeps what it was.                                      *)
LEMMA EventKeeps ==
    ASSUME IInv, Event, Steady
    PROVE  IInv'
<1>0. /\ tx.at = "event" /\ now \in Nat /\ tx.wake \in Nat /\ tx.wake <= now
      /\ late \in Nat /\ late' \in Nat /\ late' = late + (now - tx.wake)
      /\ TxType(tx) /\ tx.due \in Nat /\ tx.due <= tx.wake /\ tx.gap \in Nat
      /\ outTs \in Int /\ toned \in Nat /\ twice \in Nat
  BY Running DEF Event
<1>1. tx.since = None
  BY <1>0 DEF IInv, TxInv
<1>2. PICK kept : kept = [ts |-> outTs, gap |-> tx.gap, toned |-> toned]
  OBVIOUS
<1>3. /\ KeptType(kept) /\ kept.ts = outTs /\ kept.gap = tx.gap
      /\ kept.toned = toned
  BY <1>0, <1>2 DEF KeptType
<1>4. PICK t : t = [tx EXCEPT !.gap = 0, !.kept = kept, !.began = now, !.sent = 0]
  OBVIOUS
<1>5. /\ TxType(t) /\ t.due = tx.due /\ t.since = None /\ t.gap = 0
      /\ t.digit = tx.digit /\ t.began = now /\ t.sent = 0 /\ t.kept = kept
  BY <1>0, <1>1, <1>3, <1>4 DEF TxType
<1>6. /\ TxType(tx') /\ tx'.at = "begin" /\ tx'.wake = now /\ tx'.due = tx.due
      /\ tx'.since = None /\ tx'.gap = 0 /\ tx'.digit = tx.digit
      /\ tx'.began = now /\ tx'.sent = 0 /\ tx'.kept = kept
  <2>1. "begin" \in Labels /\ 0 \in Nat /\ now + 0 = now /\ Goes(t, "begin", 0)
    BY <1>0, <1>2, <1>4 DEF Labels, Event
  <2> QED
    BY <1>0, <1>5, <2>1, GoesOn
<1>7. /\ UNCHANGED <<pending, twice, begun, now, running, held, direct, raced,
                     dials, nows, stops>>
      /\ outTs' = Plus(outTs, tx.gap, EventRate) /\ toned' = toned + tx.gap
  BY DEF Event, Steady, counts
<1>8. outTs' \in Int /\ toned' \in Nat
  <2>0. tx.gap \in Int /\ EventRate \in Nat
    BY <1>0, Rates
  <2>1. Plus(outTs, tx.gap, EventRate) \in Int
    BY <1>0, <2>0, PlusStamp
  <2> QED
    BY <1>0, <1>7, <2>1
<1>9. TypeOK'
  BY <1>0, <1>6, <1>7, <1>8 DEF IInv, TypeOK
<1>10. TxInv'
  <2>1. tx'.due <= tx'.wake
    BY <1>0, <1>6
  <2>2. stops' = 0 => running'
    BY <1>7 DEF IInv, TxInv
  <2>3. nows' = 0 => direct' = Nobody
    BY <1>7 DEF IInv, TxInv
  <2> QED
    BY <1>6, <2>1, <2>2, <2>3 DEF TxInv
<1>11. ClockInv'
  <2>1. SUFFICES ASSUME nows = 0, stops = 0 PROVE ClockInv'
    BY <1>7 DEF ClockInv
  <2>2. PICK a \in Int : a = tx.wake
    BY <1>0
  <2>3. PICK y \in Int, lead \in Nat :
            /\ lead <= twice /\ a - late <= y /\ y <= a
            /\ IsAt(y + lead) /\ InTime(y)
    BY <1>0, <1>1, <2>1, <2>2, PlainFrom
  <2>4. Shows(outTs, (y + lead) - tx.gap, toned)
    BY <1>0, <2>3 DEF IsAt
  <2>5. Shows(outTs', ((y + lead) - tx.gap) + tx.gap, toned')
    BY <1>0, <1>7, <2>4, Moves
  <2>6. ((y + lead) - tx.gap) + tx.gap = y + lead
    BY <1>0
  <2>7. IsAt(y + lead)' /\ InTime(y)'
    BY <1>3, <1>6, <2>4, <2>5, <2>6 DEF IsAt, InTime
  <2>8. now - late' <= y /\ y <= now /\ now \in Int
    BY <1>0, <2>2, <2>3
  <2>9. twice' \in Nat /\ lead <= twice'
    BY <1>0, <1>7, <2>3
  <2> QED
    BY <1>0, <1>6, <2>7, <2>8, <2>9, PlainAt
<1>12. DigitInv'
  <2>1. tx.digit # None
    BY <1>0 DEF IInv, DigitInv
  <2>2. DigitsInOrder'
    BY <1>6, <1>7, DigitsStay DEF Line
  <2> QED
    BY <1>6, <2>1, <2>2 DEF DigitInv
<1> QED
  BY <1>9, <1>10, <1>11, <1>12 DEF IInv

(* What held for less lateness holds for more.                             *)
LEMMA MoreLate ==
    ASSUME NEW a \in Int, NEW y \in Int, NEW l \in Int, NEW m \in Int,
           a - l <= y, l <= m
    PROVE  a - m <= y
  OBVIOUS

(* The tone begins where the stream is, unless the call is on hold.        *)
LEMMA BeginKeeps ==
    ASSUME IInv, Begin, Steady
    PROVE  IInv'
<1>0. /\ tx.at = "begin" /\ now \in Nat /\ tx.wake \in Nat /\ tx.wake <= now
      /\ late \in Nat /\ late' \in Nat /\ late' = late + (now - tx.wake)
      /\ TxType(tx) /\ tx.due \in Nat /\ tx.due <= tx.wake
      /\ outTs \in Int /\ toned \in Nat /\ twice \in Nat
      /\ pending \in Seq(Nat) /\ begun \in Seq(Nat) /\ None \notin Nat
  BY Running DEF Begin
<1>1. /\ tx.since = None /\ tx.gap = 0 /\ tx.sent = 0 /\ tx.began = tx.wake
      /\ tx.digit \in Nat
  BY <1>0 DEF IInv, TxInv, DigitInv, TxType
<1>2. /\ UNCHANGED <<outTs, toned, pending, twice, now, running, held, direct,
                     raced, dials, nows, stops>>
  BY DEF Begin, Steady, counts
<1>3. CASE running /\ ~held
  <2>0. outTs % TsWrap \in 0..(TsWrap - 1) /\ TsWrap \in Nat
    BY <1>0, Rates, Division
  <2>1. PICK ts \in Int : ts = outTs % TsWrap
    BY <2>0
  <2>2. ts \in Stamps
    BY <2>0, <2>1 DEF Stamps
  <2>3. PICK t : t = [tx EXCEPT !.digit = None, !.ts = ts]
    OBVIOUS
  <2>4. /\ TxType(t) /\ t.due = tx.due /\ t.since = None /\ t.gap = 0
        /\ t.digit = None /\ t.began = tx.wake /\ t.sent = 0 /\ t.ts = ts
    BY <1>0, <1>1, <2>2, <2>3 DEF TxType
  <2>5. Goes(t, "tone", 0) /\ begun' = Append(begun, tx.digit)
    BY <1>3, <2>1, <2>3 DEF Begin
  <2>6. /\ TxType(tx') /\ tx'.at = "tone" /\ tx'.wake = now /\ tx'.due = tx.due
        /\ tx'.since = None /\ tx'.gap = 0 /\ tx'.digit = None
        /\ tx'.began = tx.wake /\ tx'.sent = 0 /\ tx'.ts = ts
    <3>1. "tone" \in Labels /\ 0 \in Nat /\ now + 0 = now
      BY <1>0 DEF Labels
    <3> QED
      BY <1>0, <2>4, <2>5, <3>1, GoesOn
  <2>7. /\ begun' \in Seq(Nat)
        /\ begun' \o <<>> \o pending = begun \o <<tx.digit>> \o pending
    BY <1>0, <1>1, <2>5, DigitBegins
  <2>8. TypeOK'
    BY <1>0, <1>2, <2>6, <2>7 DEF IInv, TypeOK
  <2>9. TxInv'
    <3>1. tx'.due <= tx'.wake /\ tx'.began + tx'.sent <= tx'.wake
      BY <1>0, <2>6
    <3>2. tx'.sent < Reports
      BY <2>6, Rates
    <3>3. stops' = 0 => running'
      BY <1>2 DEF IInv, TxInv
    <3>4. nows' = 0 => direct' = Nobody
      BY <1>2 DEF IInv, TxInv
    <3> QED
      BY <2>6, <3>1, <3>2, <3>3, <3>4 DEF TxInv
  <2>10. ClockInv'
    <3>1. SUFFICES ASSUME nows = 0, stops = 0 PROVE ClockInv'
      BY <1>2 DEF ClockInv
    <3>2. PICK a \in Int : a = tx.wake
      BY <1>0
    <3>3. PICK y \in Int, lead \in Nat :
              /\ lead <= twice /\ a - late <= y /\ y <= a
              /\ IsAt(y + lead) /\ InTime(y)
      BY <1>0, <1>1, <3>1, <3>2, PlainFrom
    <3>4. Shows(outTs, y + lead, toned)
      BY <1>0, <3>3 DEF IsAt
    <3>5. ts % TsWrap = outTs % TsWrap
      BY <1>0, <2>1, Reduced, Rates
    <3>6. IsAt(y + lead)' /\ InTime(y)'
      BY <1>2, <2>6, <3>4, <3>5 DEF IsAt, InTime, Shows
    <3>7. a - late' <= y
      <4>1. late \in Int /\ late' \in Int /\ late <= late'
        BY <1>0
      <4>2. a \in Int /\ y \in Int /\ a - late <= y
        BY <3>2, <3>3
      <4> QED
        BY <4>1, <4>2, MoreLate
    <3>8. twice' \in Nat /\ lead <= twice'
      BY <1>0, <1>2, <3>3
    <3> QED
      BY <1>0, <2>6, <3>2, <3>3, <3>6, <3>7, <3>8, PlainAt
  <2>11. DigitInv'
    <3>1. Line = begun \o <<tx.digit>> \o pending
      BY <1>0, <1>1 DEF Line
    <3>2. Line' = begun' \o <<>> \o pending
      BY <1>2, <2>6 DEF Line
    <3>3. DigitsInOrder'
      BY <1>2, <2>7, <3>1, <3>2, DigitsStay
    <3> QED
      BY <2>6, <3>3 DEF DigitInv
  <2> QED
    BY <2>8, <2>9, <2>10, <2>11 DEF IInv
<1>4. CASE ~(running /\ ~held)
  <2>1. Goes(tx, "refused", 0) /\ begun' = begun
    BY <1>4 DEF Begin
  <2>2. /\ TxType(tx') /\ tx'.at = "refused" /\ tx'.wake = now
        /\ tx'.due = tx.due /\ tx'.since = None /\ tx'.gap = 0
        /\ tx'.digit = tx.digit /\ tx'.kept = tx.kept
    <3>1. "refused" \in Labels /\ 0 \in Nat /\ now + 0 = now
      BY <1>0 DEF Labels
    <3> QED
      BY <1>0, <1>1, <2>1, <3>1, GoesOn
  <2>3. TypeOK'
    BY <1>0, <1>2, <2>1, <2>2 DEF IInv, TypeOK
  <2>4. TxInv'
    <3>1. tx'.due <= tx'.wake
      BY <1>0, <2>2
    <3>2. stops' = 0 => running'
      BY <1>2 DEF IInv, TxInv
    <3>3. nows' = 0 => direct' = Nobody
      BY <1>2 DEF IInv, TxInv
    <3> QED
      BY <2>2, <3>1, <3>2, <3>3 DEF TxInv
  <2>5. ClockInv'
    <3>1. SUFFICES ASSUME nows = 0, stops = 0 PROVE ClockInv'
      BY <1>2 DEF ClockInv
    <3>2. PICK a \in Int : a = tx.wake
      BY <1>0
    <3>3. PICK y \in Int, lead \in Nat :
              /\ lead <= twice /\ a - late <= y /\ y <= a
              /\ IsAt(y + lead) /\ InTime(y)
      BY <1>0, <1>1, <3>1, <3>2, PlainFrom
    <3>4. IsAt(y + lead)' /\ InTime(y)'
      BY <1>0, <1>2, <2>2, <3>3 DEF IsAt, InTime
    <3>5. now - late' <= y /\ y <= now /\ now \in Int
      BY <1>0, <3>2, <3>3
    <3>6. twice' \in Nat /\ lead <= twice'
      BY <1>0, <1>2, <3>3
    <3> QED
      BY <1>0, <2>2, <3>4, <3>5, <3>6, PlainAt
  <2>6. DigitInv'
    <3>1. tx.digit # None
      BY <1>0, <1>1
    <3>2. DigitsInOrder'
      BY <1>2, <2>1, <2>2, DigitsStay DEF Line
    <3>3. stops = 0 => held
      BY <1>4 DEF IInv, TxInv
    <3> QED
      BY <1>2, <2>2, <3>1, <3>2, <3>3 DEF DigitInv
  <2> QED
    BY <2>3, <2>4, <2>5, <2>6 DEF IInv
<1> QED
  BY <1>3, <1>4

(* A digit refused on hold goes back before the others, and the timestamp  *)
(* back to what it was; a digit that is lost was in hand when a hold ended. *)
LEMMA RefusedKeeps ==
    ASSUME IInv, Refused, Steady
    PROVE  IInv'
<1>0. /\ tx.at = "refused" /\ now \in Nat /\ tx.wake \in Nat /\ tx.wake <= now
      /\ late \in Nat /\ late' \in Nat /\ late' = late + (now - tx.wake)
      /\ TxType(tx) /\ tx.due \in Nat /\ tx.due <= tx.wake
      /\ outTs \in Int /\ toned \in Nat /\ twice \in Nat
      /\ pending \in Seq(Nat) /\ begun \in Seq(Nat) /\ None \notin Nat
  BY Running DEF Refused
<1>1. /\ tx.since = None /\ tx.gap = 0 /\ tx.digit \in Nat
      /\ KeptType(tx.kept) /\ tx.kept.ts \in Int /\ tx.kept.gap \in Nat
      /\ tx.kept.toned \in Nat
  BY <1>0 DEF IInv, TxInv, DigitInv, TxType, KeptType
<1>2. UNCHANGED <<begun, twice, now, running, held, direct, raced, dials, nows,
                  stops>>
  BY DEF Refused, Steady, counts
<1>3. PICK back \in BOOLEAN : back = (running /\ held)
  OBVIOUS
<1>4. PICK gap \in Nat : gap = IF back THEN tx.kept.gap ELSE 0
  BY <1>1
<1>5. /\ back => /\ outTs' = tx.kept.ts /\ toned' = tx.kept.toned
                 /\ pending' = <<tx.digit>> \o pending
      /\ ~back => UNCHANGED <<outTs, toned, pending>>
  BY <1>3 DEF Refused, Requeue
<1>6. /\ TxType(tx') /\ tx'.at = "again" /\ tx'.wake = now /\ tx'.due = tx.due
      /\ tx'.since = None /\ tx'.gap = gap /\ tx'.digit = None
  <2>1. "again" \in Labels /\ 0 \in Nat /\ now + 0 = now
    BY <1>0 DEF Labels
  <2>2. CASE back
    <3>1. PICK t : t = [tx EXCEPT !.gap = tx.kept.gap]
      OBVIOUS
    <3>2. TxType(t) /\ t.due = tx.due /\ t.since = None /\ t.gap = gap
      BY <1>0, <1>1, <1>4, <2>2, <3>1 DEF TxType
    <3>3. Loops(t, "again", 0)
      BY <1>3, <2>2, <3>1 DEF Refused
    <3> QED
      BY <1>0, <2>1, <3>2, <3>3, LoopsOn
  <2>3. CASE ~back
    <3>1. Loops(tx, "again", 0) /\ tx.gap = gap
      BY <1>1, <1>3, <1>4, <2>3 DEF Refused
    <3> QED
      BY <1>0, <1>1, <2>1, <3>1, LoopsOn
  <2> QED
    BY <2>2, <2>3
<1>7. /\ <<tx.digit>> \o pending \in Seq(Nat)
      /\ begun \o <<>> \o (<<tx.digit>> \o pending)
             = begun \o <<tx.digit>> \o pending
  BY <1>0, <1>1, DigitReturns
<1>8. outTs' \in Int /\ toned' \in Nat /\ pending' \in Seq(Nat)
  BY <1>0, <1>1, <1>5, <1>7
<1>9. TypeOK'
  BY <1>0, <1>2, <1>6, <1>8 DEF IInv, TypeOK
<1>10. TxInv'
  <2>1. tx'.due <= tx'.wake
    BY <1>0, <1>6
  <2>2. stops' = 0 => running'
    BY <1>2 DEF IInv, TxInv
  <2>3. nows' = 0 => direct' = Nobody
    BY <1>2 DEF IInv, TxInv
  <2> QED
    BY <1>6, <2>1, <2>2, <2>3 DEF TxInv
<1>11. ClockInv'
  <2>1. SUFFICES ASSUME nows = 0, stops = 0 PROVE ClockInv'
    BY <1>2 DEF ClockInv
  <2>2. PICK a \in Int : a = tx.wake
    BY <1>0
  <2>3. PICK y \in Int, lead \in Nat :
            /\ lead <= twice /\ a - late <= y /\ y <= a
            /\ IsAt(y + lead) /\ InTime(y)
    BY <1>0, <1>1, <2>1, <2>2, PlainFrom
  <2>4. /\ Shows(outTs, y + lead, toned)
        /\ Shows(tx.kept.ts, (y + lead) - tx.kept.gap, tx.kept.toned)
    BY <1>0, <2>3 DEF IsAt
  <2>5. Shows(outTs', (y + lead) - gap, toned')
    <3>1. CASE back
      BY <1>4, <1>5, <2>4, <3>1
    <3>2. CASE ~back
      <4>1. (y + lead) - gap = y + lead
        BY <1>4, <3>2
      <4> QED
        BY <1>5, <2>4, <3>2, <4>1
    <3> QED
      BY <3>1, <3>2
  <2>6. IsAt(y + lead)' /\ InTime(y)'
    BY <1>6, <2>5 DEF IsAt, InTime
  <2>7. now - late' <= y /\ y <= now /\ now \in Int
    BY <1>0, <2>2, <2>3
  <2>8. twice' \in Nat /\ lead <= twice'
    BY <1>0, <1>2, <2>3
  <2> QED
    BY <1>0, <1>6, <2>6, <2>7, <2>8, PlainAt
<1>12. DigitInv'
  <2>1. Line = begun \o <<tx.digit>> \o pending
    BY <1>0, <1>1 DEF Line
  <2>2. Line' = begun \o <<>> \o pending'
    BY <1>2, <1>6 DEF Line
  <2>3. DigitsInOrder'
    <3>1. CASE back
      <4>1. Line' = Line
        BY <1>5, <1>7, <2>1, <2>2, <3>1
      <4> QED
        BY <1>2, <4>1, DigitsStay
    <3>2. CASE ~back
      <4>1. SUFFICES ASSUME stops = 0
                     PROVE  InLine(Line', dials, raced)
        BY <1>2 DEF InLine, DigitsInOrder, Ascends, Digits
      <4>2. InLine(begun \o <<tx.digit>> \o pending, dials, raced)
        BY <2>1, <4>1 DEF InLine, DigitsInOrder, IInv, DigitInv
      <4>3. tx.digit \in raced
        BY <1>0, <1>3, <3>2, <4>1 DEF IInv, DigitInv, TxInv
      <4>4. dials \in Nat
        BY DEF IInv, TypeOK
      <4>5. InLine(begun \o <<>> \o pending, dials, raced)
        BY <1>0, <1>1, <4>2, <4>3, <4>4, LineDrops
      <4> QED
        BY <1>5, <2>2, <3>2, <4>5
    <3> QED
      BY <3>1, <3>2
  <2> QED
    BY <1>6, <2>3 DEF DigitInv
<1> QED
  BY <1>9, <1>10, <1>11, <1>12 DEF IInv

(* What sending a packet leaves alone.                                     *)
LEMMA SendLeaves ==
    ASSUME NEW kind, NEW ts, Send(kind, ts)
    PROVE  last' # last => last'.ts = ts
  BY DEF Send

(* Reports of a tone keep its timestamp and what it was late; after the    *)
(* last the stream moves by the length of the tone, and the gap is what    *)
(* the reports took longer than that.                                      *)
LEMMA ReportKeeps ==
    ASSUME IInv, Report, Steady
    PROVE  IInv'
<1>0. /\ tx.at = "tone" /\ now \in Nat /\ tx.wake \in Nat /\ tx.wake <= now
      /\ late \in Nat /\ late' \in Nat /\ late' = late + (now - tx.wake)
      /\ TxType(tx) /\ tx.due \in Nat /\ tx.due <= tx.wake
      /\ outTs \in Int /\ toned \in Nat /\ twice \in Nat /\ None \notin Nat
  BY Running DEF Report
<1>1. /\ tx.since = None /\ tx.gap = 0 /\ tx.digit = None
      /\ tx.began \in Nat /\ tx.sent \in Nat /\ tx.ts \in Stamps
      /\ tx.began + tx.sent <= tx.wake /\ tx.sent < Reports
  BY <1>0 DEF IInv, TxInv, DigitInv, TxType
<1>2. /\ tx.ts \in Int /\ Tone \in Nat /\ Tone \in Int /\ toned \in Int
      /\ EventRate \in Nat /\ Reports \in Nat /\ Reports > Tone
  BY <1>0, <1>1, Rates DEF Stamps
<1>3. UNCHANGED <<pending, begun, twice, now, running, held, direct, raced,
                  dials, nows, stops>>
  BY DEF Report, Steady, counts
<1>4. PICK end \in BOOLEAN : end = (~running \/ tx.sent = Reports - 1)
  OBVIOUS
<1>5. CASE end
  <2>1. PICK gap \in Nat : gap = Larger(0, now - tx.began - Tone)
    BY <1>0, <1>1, <1>2 DEF Larger
  <2>2. PICK t : t = [tx EXCEPT !.gap = gap, !.after = TRUE]
    OBVIOUS
  <2>3. TxType(t) /\ t.due = tx.due /\ t.since = None /\ t.gap = gap
    BY <1>0, <1>1, <2>2 DEF TxType
  <2>4. /\ outTs' = Plus(tx.ts, Tone, EventRate) /\ toned' = toned + Tone
        /\ Loops(t, "again", 0)
    BY <1>4, <1>5, <2>1, <2>2 DEF Report
  <2>5. /\ TxType(tx') /\ tx'.at = "again" /\ tx'.wake = now
        /\ tx'.due = tx.due /\ tx'.since = None /\ tx'.gap = gap
        /\ tx'.digit = None
    <3>1. "again" \in Labels /\ 0 \in Nat /\ now + 0 = now
      BY <1>0 DEF Labels
    <3> QED
      BY <1>0, <2>3, <2>4, <3>1, LoopsOn
  <2>6. TypeOK'
    <3>1. outTs' \in Int
      BY <1>2, <2>4, PlusStamp
    <3>2. toned' \in Nat
      BY <1>0, <1>2, <2>4
    <3> QED
      BY <1>0, <1>3, <2>5, <3>1, <3>2 DEF IInv, TypeOK
  <2>7. TxInv'
    <3>1. tx'.due <= tx'.wake
      BY <1>0, <2>5
    <3>2. stops' = 0 => running'
      BY <1>3 DEF IInv, TxInv
    <3>3. nows' = 0 => direct' = Nobody
      BY <1>3 DEF IInv, TxInv
    <3> QED
      BY <2>5, <3>1, <3>2, <3>3 DEF TxInv
  <2>8. ClockInv'
    <3>1. SUFFICES ASSUME nows = 0, stops = 0 PROVE ClockInv'
      BY <1>3 DEF ClockInv
    <3>2. PICK a \in Int : a = tx.began
      BY <1>1
    <3>3. PICK y \in Int, lead \in Nat :
              /\ lead <= twice /\ a - late <= y /\ y <= a
              /\ IsAt(y + lead) /\ InTime(y)
      BY <1>0, <1>1, <3>1, <3>2, PlainFrom
    <3>4. Shows(tx.ts, y + lead, toned)
      BY <1>0, <3>3 DEF IsAt
    <3>5. Shows(Plus(tx.ts, Tone, EventRate), (y + lead) + Tone, toned + Tone)
      <4>1. y + lead \in Int
        OBVIOUS
      <4> QED
        BY <1>2, <3>4, <4>1, Moves
    <3>6. running /\ tx.sent = Reports - 1
      BY <1>4, <1>5, <3>1 DEF IInv, TxInv
    <3>7. a + Tone <= now
      BY <1>0, <1>1, <1>2, <3>2, <3>6
    <3>8. gap = now - a - Tone
      BY <1>0, <1>2, <2>1, <3>2, <3>7 DEF Larger
    <3>9. PICK z \in Int : z = y + (now - a)
      BY <1>0
    <3>10. (z + lead) - gap = (y + lead) + Tone
      BY <1>0, <1>2, <3>8, <3>9
    <3>11. Shows(outTs', (z + lead) - gap, toned')
      BY <2>4, <3>5, <3>10
    <3>12. IsAt(z + lead)' /\ InTime(z)'
      BY <2>5, <3>11 DEF IsAt, InTime
    <3>13. now - late' <= z /\ z <= now /\ now \in Int
      BY <1>0, <3>3, <3>9
    <3>14. twice' \in Nat /\ lead <= twice'
      BY <1>0, <1>3, <3>3
    <3> QED
      BY <1>0, <2>5, <3>12, <3>13, <3>14, PlainAt
  <2>9. DigitInv'
    <3>1. DigitsInOrder'
      BY <1>1, <1>3, <2>5, DigitsStay DEF Line
    <3> QED
      BY <2>5, <3>1 DEF DigitInv
  <2> QED
    BY <2>6, <2>7, <2>8, <2>9 DEF IInv
<1>6. CASE ~end
  <2>1. PICK sent \in Nat : sent = tx.sent + 1
    BY <1>1
  <2>2. PICK t : t = [tx EXCEPT !.sent = sent]
    OBVIOUS
  <2>3. /\ TxType(t) /\ t.due = tx.due /\ t.since = None /\ t.gap = 0
        /\ t.digit = None /\ t.began = tx.began /\ t.sent = sent /\ t.ts = tx.ts
    BY <1>0, <1>1, <2>2 DEF TxType
  <2>4. outTs' = outTs /\ toned' = toned /\ Goes(t, "tone", 1)
    BY <1>4, <1>6, <2>1, <2>2 DEF Report
  <2>5. /\ TxType(tx') /\ tx'.at = "tone" /\ tx'.wake = now + 1
        /\ tx'.due = tx.due /\ tx'.since = None /\ tx'.gap = 0
        /\ tx'.digit = None /\ tx'.began = tx.began /\ tx'.sent = sent
        /\ tx'.ts = tx.ts
    <3>1. "tone" \in Labels /\ 1 \in Nat
      BY DEF Labels
    <3> QED
      BY <1>0, <2>3, <2>4, <3>1, GoesOn
  <2>6. TypeOK'
    BY <1>0, <1>3, <2>4, <2>5 DEF IInv, TypeOK
  <2>7. TxInv'
    <3>1. tx'.due <= tx'.wake /\ tx'.began + tx'.sent <= tx'.wake
      BY <1>0, <1>1, <2>1, <2>5
    <3>2. tx'.sent < Reports
      <4>1. tx.sent # Reports - 1
        BY <1>4, <1>6
      <4>2. sent < Reports
        BY <1>1, <1>2, <2>1, <4>1
      <4> QED
        BY <2>5, <4>2
    <3>3. stops' = 0 => running'
      BY <1>3 DEF IInv, TxInv
    <3>4. nows' = 0 => direct' = Nobody
      BY <1>3 DEF IInv, TxInv
    <3>5. Reports' = Reports
      BY DEF Reports
    <3> QED
      BY <2>5, <3>1, <3>2, <3>3, <3>4, <3>5 DEF TxInv
  <2>8. ClockInv'
    <3>1. SUFFICES ASSUME nows = 0, stops = 0 PROVE ClockInv'
      BY <1>3 DEF ClockInv
    <3>2. PICK a \in Int : a = tx.began
      BY <1>1
    <3>3. PICK y \in Int, lead \in Nat :
              /\ lead <= twice /\ a - late <= y /\ y <= a
              /\ IsAt(y + lead) /\ InTime(y)
      BY <1>0, <1>1, <3>1, <3>2, PlainFrom
    <3>4. IsAt(y + lead)' /\ InTime(y)'
      BY <1>0, <2>4, <2>5, <3>3 DEF IsAt, InTime
    <3>5. a - late' <= y /\ a = tx'.began
      BY <1>0, <2>5, <3>2, <3>3
    <3>6. twice' \in Nat /\ lead <= twice'
      BY <1>0, <1>3, <3>3
    <3> QED
      BY <1>0, <2>5, <3>3, <3>4, <3>5, <3>6, PlainAt
  <2>9. DigitInv'
    <3>1. DigitsInOrder'
      BY <1>1, <1>3, <2>5, DigitsStay DEF Line
    <3> QED
      BY <2>5, <3>1 DEF DigitInv
  <2> QED
    BY <2>6, <2>7, <2>8, <2>9 DEF IInv
<1> QED
  BY <1>5, <1>6

(* The stream goes past the intervals that were missed.                    *)
LEMMA FrameDueKeeps ==
    ASSUME IInv, FrameDue, Steady
    PROVE  IInv'
<1>0. /\ tx.at = "frame" /\ now \in Nat /\ tx.wake \in Nat /\ tx.wake <= now
      /\ late \in Nat /\ late' \in Nat /\ late' = late + (now - tx.wake)
      /\ TxType(tx) /\ tx.due \in Nat /\ tx.due <= tx.wake /\ tx.gap \in Nat
      /\ outTs \in Int /\ toned \in Nat /\ twice \in Nat
  BY Running DEF FrameDue
<1>1. tx.since = None /\ tx.digit = None
  BY <1>0 DEF IInv, TxInv, DigitInv
<1>2. /\ AudioRate \in Nat /\ Period \in Nat \ {0} /\ tx.gap \in Int
      /\ toned \in Int
  BY <1>0, Rates
<1>3. PICK time \in Nat : time = Larger(0, now - tx.due)
  BY <1>0 DEF Larger
<1>4. time = now - tx.due
  BY <1>0, <1>3 DEF Larger
<1>5. PICK behind : behind = time \div Period
  OBVIOUS
<1>6. PICK lost : lost = behind * Period
  OBVIOUS
<1>7. /\ behind \in Nat /\ lost \in Nat /\ lost \in Int /\ lost <= time
      /\ behind = 0 => lost = 0
  BY <1>2, <1>3, <1>5, <1>6, WholePeriods
<1>8. PICK ts : ts = Plus(outTs, tx.gap, AudioRate)
  OBVIOUS
<1>9. ts \in Int
  BY <1>0, <1>2, <1>8, PlusStamp
<1>10. PICK sent : sent = Plus(ts, lost, AudioRate)
  OBVIOUS
<1>11. sent \in Stamps
  BY <1>2, <1>7, <1>9, <1>10, PlusStamp
<1>12. PICK l \in {"epoch", "encode"} :
           l = IF behind > 0 THEN "epoch" ELSE "encode"
  OBVIOUS
<1>13. PICK t : t = [tx EXCEPT !.gap = 0, !.after = FALSE, !.ts = sent]
  OBVIOUS
<1>14. /\ TxType(t) /\ t.due = tx.due /\ t.since = None /\ t.gap = 0
       /\ t.digit = None /\ t.ts = sent
  BY <1>0, <1>1, <1>11, <1>13 DEF TxType
<1>15. outTs' = ts /\ Goes(t, l, 0)
  BY <1>3, <1>5, <1>6, <1>8, <1>10, <1>12, <1>13 DEF FrameDue
<1>16. /\ TxType(tx') /\ tx'.at = l /\ tx'.wake = now /\ tx'.due = tx.due
       /\ tx'.since = None /\ tx'.gap = 0 /\ tx'.digit = None /\ tx'.ts = sent
  <2>1. l \in Labels /\ 0 \in Nat /\ now + 0 = now
    BY <1>0, <1>12 DEF Labels
  <2> QED
    BY <1>0, <1>14, <1>15, <2>1, GoesOn
<1>17. UNCHANGED <<pending, begun, toned, twice, now, running, held, direct,
                   raced, dials, nows, stops>>
  BY DEF FrameDue, Steady, counts
<1>18. TypeOK'
  BY <1>0, <1>9, <1>15, <1>16, <1>17 DEF IInv, TypeOK
<1>19. TxInv'
  <2>1. tx'.due <= tx'.wake
    BY <1>0, <1>16
  <2>2. stops' = 0 => running'
    BY <1>17 DEF IInv, TxInv
  <2>3. nows' = 0 => direct' = Nobody
    BY <1>17 DEF IInv, TxInv
  <2> QED
    BY <1>12, <1>16, <2>1, <2>2, <2>3 DEF TxInv
<1>20. ClockInv'
  <2>1. SUFFICES ASSUME nows = 0, stops = 0 PROVE ClockInv'
    BY <1>17 DEF ClockInv
  <2>2. PICK a \in Int : a = tx.wake
    BY <1>0
  <2>3. PICK y \in Int, lead \in Nat :
            /\ lead <= twice /\ a - late <= y /\ y <= a
            /\ IsAt(y + lead) /\ InTime(y)
    BY <1>0, <1>1, <2>1, <2>2, PlainFrom
  <2>4. PICK x \in Int : x = y + lead
    OBVIOUS
  <2>5. Shows(outTs, x - tx.gap, toned) /\ y <= tx.due
    BY <1>0, <2>3, <2>4 DEF IsAt, InTime
  <2>6. Shows(ts, x, toned)
    <3>1. x - tx.gap \in Int /\ (x - tx.gap) + tx.gap = x
      BY <1>0
    <3>2. Shows(ts, (x - tx.gap) + tx.gap, toned)
      BY <1>0, <1>2, <1>8, <2>5, <3>1, Moves
    <3> QED
      BY <3>1, <3>2
  <2>7. PICK z \in Int : z = y + lost
    BY <1>7
  <2>8. Shows(sent, z + lead, toned)
    <3>1. x + lost = z + lead
      BY <1>7, <2>4, <2>7
    <3>2. Shows(sent, x + lost, toned)
      BY <1>2, <1>7, <1>9, <1>10, <2>6, Moves
    <3> QED
      BY <3>1, <3>2
  <2>9. z <= now
    BY <1>0, <1>4, <1>7, <2>5, <2>7
  <2>10. l = "encode" => z <= tx.due
    BY <1>0, <1>7, <1>12, <2>5, <2>7
  <2>11. IsAt(z + lead)' /\ InTime(z)'
    BY <1>12, <1>16, <1>17, <2>8, <2>10 DEF IsAt, InTime
  <2>12. now - late' <= z /\ now \in Int
    BY <1>0, <1>7, <2>2, <2>3, <2>7
  <2>13. twice' \in Nat /\ lead <= twice'
    BY <1>0, <1>17, <2>3
  <2>14. tx'.at # "tone"
    BY <1>12, <1>16
  <2> QED
    BY <1>0, <1>16, <2>9, <2>11, <2>12, <2>13, <2>14, PlainAt
<1>21. DigitInv'
  <2>1. DigitsInOrder'
    BY <1>1, <1>16, <1>17, DigitsStay DEF Line
  <2> QED
    BY <1>12, <1>16, <2>1 DEF DigitInv
<1> QED
  BY <1>18, <1>19, <1>20, <1>21 DEF IInv

(* After missed intervals the deadline is due anew.                        *)
LEMMA EpochKeeps ==
    ASSUME IInv, Epoch, Steady
    PROVE  IInv'
<1>0. /\ tx.at = "epoch" /\ now \in Nat /\ tx.wake \in Nat /\ tx.wake <= now
      /\ late \in Nat /\ late' \in Nat /\ late' = late + (now - tx.wake)
      /\ TxType(tx) /\ twice \in Nat
  BY Running DEF Epoch
<1>1. tx.since = None /\ tx.digit = None /\ tx.gap = 0
  BY <1>0 DEF IInv, TxInv, DigitInv
<1>2. PICK t : t = [tx EXCEPT !.due = now]
  OBVIOUS
<1>3. /\ TxType(t) /\ t.due = now /\ t.since = None /\ t.gap = 0
      /\ t.digit = None /\ t.ts = tx.ts
  BY <1>0, <1>1, <1>2 DEF TxType
<1>4. /\ TxType(tx') /\ tx'.at = "encode" /\ tx'.wake = now /\ tx'.due = now
      /\ tx'.since = None /\ tx'.gap = 0 /\ tx'.digit = None /\ tx'.ts = tx.ts
  <2>1. "encode" \in Labels /\ 0 \in Nat /\ now + 0 = now /\ Goes(t, "encode", 0)
    BY <1>0, <1>2 DEF Labels, Epoch
  <2> QED
    BY <1>0, <1>3, <2>1, GoesOn
<1>5. UNCHANGED <<outTs, pending, begun, toned, twice, now, running, held,
                  direct, raced, dials, nows, stops>>
  BY DEF Epoch, Steady, counts
<1>6. TypeOK'
  BY <1>0, <1>4, <1>5 DEF IInv, TypeOK
<1>7. TxInv'
  <2>1. tx'.due <= tx'.wake
    BY <1>0, <1>4
  <2>2. stops' = 0 => running'
    BY <1>5 DEF IInv, TxInv
  <2>3. nows' = 0 => direct' = Nobody
    BY <1>5 DEF IInv, TxInv
  <2> QED
    BY <1>4, <2>1, <2>2, <2>3 DEF TxInv
<1>8. ClockInv'
  <2>1. SUFFICES ASSUME nows = 0, stops = 0 PROVE ClockInv'
    BY <1>5 DEF ClockInv
  <2>2. PICK a \in Int : a = tx.wake
    BY <1>0
  <2>3. PICK y \in Int, lead \in Nat :
            /\ lead <= twice /\ a - late <= y /\ y <= a
            /\ IsAt(y + lead) /\ InTime(y)
    BY <1>0, <1>1, <2>1, <2>2, PlainFrom
  <2>4. now - late' <= y /\ y <= now /\ now \in Int
    BY <1>0, <2>2, <2>3
  <2>5. IsAt(y + lead)' /\ InTime(y)'
    BY <1>0, <1>4, <1>5, <2>3, <2>4 DEF IsAt, InTime
  <2>6. twice' \in Nat /\ lead <= twice'
    BY <1>0, <1>5, <2>3
  <2> QED
    BY <1>0, <1>4, <2>4, <2>5, <2>6, PlainAt
<1>9. DigitInv'
  <2>1. DigitsInOrder'
    BY <1>1, <1>4, <1>5, DigitsStay DEF Line
  <2> QED
    BY <1>4, <2>1 DEF DigitInv
<1> QED
  BY <1>6, <1>7, <1>8, <1>9 DEF IInv

(* A frame that cannot be encoded takes its time.                          *)
LEMMA EncodeKeeps ==
    ASSUME IInv, Encode, Steady
    PROVE  IInv'
<1>0. /\ tx.at = "encode" /\ now \in Nat /\ tx.wake \in Nat /\ tx.wake <= now
      /\ late \in Nat /\ late' \in Nat /\ late' = late + (now - tx.wake)
      /\ TxType(tx) /\ tx.due \in Nat /\ tx.due <= tx.wake
      /\ outTs \in Int /\ toned \in Nat /\ twice \in Nat
  BY Running DEF Encode
<1>1. /\ tx.since = None /\ tx.digit = None /\ tx.gap = 0 /\ tx.ts \in Int
      /\ toned \in Int
  BY <1>0 DEF IInv, TxInv, DigitInv, TxType, Stamps
<1>2. AudioRate \in Nat /\ Period \in Int
  BY Rates
<1>3. PICK coded \in BOOLEAN :
          /\ outTs' = IF coded THEN outTs ELSE Plus(tx.ts, Period, AudioRate)
          /\ Goes(tx, IF coded THEN "send" ELSE "pace", 0)
  BY DEF Encode
<1>4. PICK l \in {"send", "pace"} : l = IF coded THEN "send" ELSE "pace"
  OBVIOUS
<1>5. /\ TxType(tx') /\ tx'.at = l /\ tx'.wake = now /\ tx'.due = tx.due
      /\ tx'.since = None /\ tx'.gap = 0 /\ tx'.digit = None /\ tx'.ts = tx.ts
  <2>1. l \in Labels /\ 0 \in Nat /\ now + 0 = now /\ Goes(tx, l, 0)
    BY <1>0, <1>3, <1>4 DEF Labels
  <2> QED
    BY <1>0, <1>1, <2>1, GoesOn
<1>6. UNCHANGED <<pending, begun, toned, twice, now, running, held, direct,
                  raced, dials, nows, stops>>
  BY DEF Encode, Steady, counts
<1>7. TypeOK'
  <2>1. Plus(tx.ts, Period, AudioRate) \in Int
    BY <1>1, <1>2, PlusStamp
  <2>2. outTs' \in Int
    BY <1>0, <1>3, <2>1
  <2> QED
    BY <1>0, <1>5, <1>6, <2>2 DEF IInv, TypeOK
<1>8. TxInv'
  <2>1. tx'.due <= tx'.wake
    BY <1>0, <1>5
  <2>2. stops' = 0 => running'
    BY <1>6 DEF IInv, TxInv
  <2>3. nows' = 0 => direct' = Nobody
    BY <1>6 DEF IInv, TxInv
  <2> QED
    BY <1>4, <1>5, <2>1, <2>2, <2>3 DEF TxInv
<1>9. ClockInv'
  <2>1. SUFFICES ASSUME nows = 0, stops = 0 PROVE ClockInv'
    BY <1>6 DEF ClockInv
  <2>2. PICK a \in Int : a = tx.wake
    BY <1>0
  <2>3. PICK y \in Int, lead \in Nat :
            /\ lead <= twice /\ a - late <= y /\ y <= a
            /\ IsAt(y + lead) /\ InTime(y)
    BY <1>0, <1>1, <2>1, <2>2, PlainFrom
  <2>4. Shows(tx.ts, y + lead, toned) /\ y <= tx.due
    BY <1>0, <2>3 DEF IsAt, InTime
  <2>5. Shows(Plus(tx.ts, Period, AudioRate), (y + lead) + Period, toned)
    <3>1. y + lead \in Int
      OBVIOUS
    <3> QED
      BY <1>1, <1>2, <2>4, <3>1, Moves
  <2>6. l = "pace" => Shows(outTs', (y + lead) + Period, toned)
    BY <1>3, <1>4, <2>5
  <2>7. IsAt(y + lead)' /\ InTime(y)'
    BY <1>4, <1>5, <1>6, <2>4, <2>6 DEF IsAt, InTime
  <2>8. now - late' <= y /\ y <= now /\ now \in Int
    BY <1>0, <2>2, <2>3
  <2>9. twice' \in Nat /\ lead <= twice'
    BY <1>0, <1>6, <2>3
  <2>10. tx'.at # "tone"
    BY <1>4, <1>5
  <2> QED
    BY <1>0, <1>5, <2>7, <2>8, <2>9, <2>10, PlainAt
<1>10. DigitInv'
  <2>1. DigitsInOrder'
    BY <1>1, <1>5, <1>6, DigitsStay DEF Line
  <2> QED
    BY <1>4, <1>5, <2>1 DEF DigitInv
<1> QED
  BY <1>7, <1>8, <1>9, <1>10 DEF IInv

(* A frame sent moves the stream by its length.                            *)
LEMMA SendFrameKeeps ==
    ASSUME IInv, SendFrame, Steady
    PROVE  IInv'
<1>0. /\ tx.at = "send" /\ now \in Nat /\ tx.wake \in Nat /\ tx.wake <= now
      /\ late \in Nat /\ late' \in Nat /\ late' = late + (now - tx.wake)
      /\ TxType(tx) /\ tx.due \in Nat /\ tx.due <= tx.wake
      /\ outTs \in Int /\ toned \in Nat /\ twice \in Nat
  BY Running DEF SendFrame
<1>1. /\ tx.since = None /\ tx.digit = None /\ tx.gap = 0 /\ tx.ts \in Int
      /\ toned \in Int
  BY <1>0 DEF IInv, TxInv, DigitInv, TxType, Stamps
<1>2. AudioRate \in Nat /\ Period \in Int
  BY Rates
<1>3. outTs' = Plus(tx.ts, Period, AudioRate) /\ Goes(tx, "pace", 0)
  BY DEF SendFrame
<1>4. /\ TxType(tx') /\ tx'.at = "pace" /\ tx'.wake = now /\ tx'.due = tx.due
      /\ tx'.since = None /\ tx'.gap = 0 /\ tx'.digit = None
  <2>1. "pace" \in Labels /\ 0 \in Nat /\ now + 0 = now
    BY <1>0 DEF Labels
  <2> QED
    BY <1>0, <1>1, <1>3, <2>1, GoesOn
<1>5. UNCHANGED <<pending, begun, toned, twice, now, running, held, direct,
                  raced, dials, nows, stops>>
  BY DEF SendFrame, Steady, counts
<1>6. TypeOK'
  <2>1. outTs' \in Int
    BY <1>1, <1>2, <1>3, PlusStamp
  <2> QED
    BY <1>0, <1>4, <1>5, <2>1 DEF IInv, TypeOK
<1>7. TxInv'
  <2>1. tx'.due <= tx'.wake
    BY <1>0, <1>4
  <2>2. stops' = 0 => running'
    BY <1>5 DEF IInv, TxInv
  <2>3. nows' = 0 => direct' = Nobody
    BY <1>5 DEF IInv, TxInv
  <2> QED
    BY <1>4, <2>1, <2>2, <2>3 DEF TxInv
<1>8. ClockInv'
  <2>1. SUFFICES ASSUME nows = 0, stops = 0 PROVE ClockInv'
    BY <1>5 DEF ClockInv
  <2>2. PICK a \in Int : a = tx.wake
    BY <1>0
  <2>3. PICK y \in Int, lead \in Nat :
            /\ lead <= twice /\ a - late <= y /\ y <= a
            /\ IsAt(y + lead) /\ InTime(y)
    BY <1>0, <1>1, <2>1, <2>2, PlainFrom
  <2>4. Shows(tx.ts, y + lead, toned) /\ y <= tx.due
    BY <1>0, <2>3 DEF IsAt, InTime
  <2>5. Shows(outTs', (y + lead) + Period, toned)
    <3>1. y + lead \in Int
      OBVIOUS
    <3> QED
      BY <1>1, <1>2, <1>3, <2>4, <3>1, Moves
  <2>6. IsAt(y + lead)' /\ InTime(y)'
    BY <1>4, <1>5, <2>4, <2>5 DEF IsAt, InTime
  <2>7. now - late' <= y /\ y <= now /\ now \in Int
    BY <1>0, <2>2, <2>3
  <2>8. twice' \in Nat /\ lead <= twice'
    BY <1>0, <1>5, <2>3
  <2> QED
    BY <1>0, <1>4, <2>6, <2>7, <2>8, PlainAt
<1>9. DigitInv'
  <2>1. DigitsInOrder'
    BY <1>1, <1>4, <1>5, DigitsStay DEF Line
  <2> QED
    BY <1>4, <2>1 DEF DigitInv
<1> QED
  BY <1>6, <1>7, <1>8, <1>9 DEF IInv

(* A deadline that is over is skipped, and the stream with it.             *)
LEMMA PaceKeeps ==
    ASSUME IInv, Pace, Steady
    PROVE  IInv'
<1>0. /\ tx.at = "pace" /\ now \in Nat /\ tx.wake \in Nat /\ tx.wake <= now
      /\ late \in Nat /\ late' \in Nat /\ late' = late + (now - tx.wake)
      /\ TxType(tx) /\ tx.due \in Nat /\ tx.due <= tx.wake
      /\ outTs \in Int /\ toned \in Nat /\ twice \in Nat
  BY Running DEF Pace
<1>1. tx.since = None /\ tx.digit = None /\ tx.gap = 0
  BY <1>0 DEF IInv, TxInv, DigitInv
<1>2. AudioRate \in Nat /\ Period \in Nat \ {0} /\ toned \in Int
  BY <1>0, Rates
<1>3. PICK due \in Nat : due = tx.due + Period
  BY <1>0, <1>2
<1>4. PICK skipped : skipped = IF now > due THEN (now - due) \div Period + 1
                               ELSE 0
  OBVIOUS
<1>5. PICK over : over = skipped * Period
  OBVIOUS
<1>6. /\ over \in Nat
      /\ now > due => over <= (now - due) + Period
      /\ now <= due => over = 0
  <2>1. CASE now > due
    <3>1. PICK time \in Nat : time = now - due
      BY <1>0, <2>1
    <3>2. PICK q \in Nat : /\ q = time \div Period
                           /\ q * Period \in Nat /\ q * Period <= time
      BY <1>2, WholePeriods
    <3>3. skipped = q + 1
      BY <1>4, <2>1, <3>1, <3>2
    <3>4. (q + 1) * Period = q * Period + Period
      BY <1>2
    <3>5. PICK part \in Nat : part = q * Period /\ part <= time
      BY <3>2
    <3>6. over = part + Period
      BY <1>5, <3>3, <3>4, <3>5
    <3> QED
      BY <1>0, <1>2, <1>3, <2>1, <3>1, <3>5, <3>6
  <2>2. CASE now <= due
    BY <1>0, <1>2, <1>4, <1>5, <2>2
  <2> QED
    BY <1>0, <2>1, <2>2
<1>7. PICK next \in Nat : next = IF now > due THEN now + Period ELSE due
  BY <1>0, <1>2
<1>8. PICK sleep \in Nat : sleep = next - now
  BY <1>0, <1>2, <1>7
<1>9. PICK t : t = [tx EXCEPT !.due = next]
  OBVIOUS
<1>10. TxType(t) /\ t.due = next /\ t.since = None /\ t.gap = 0
  BY <1>0, <1>1, <1>9 DEF TxType
<1>11. outTs' = Plus(outTs, over, AudioRate) /\ Loops(t, "head", sleep)
  BY <1>3, <1>4, <1>5, <1>7, <1>8, <1>9 DEF Pace
<1>12. /\ TxType(tx') /\ tx'.at = "head" /\ tx'.wake = next /\ tx'.due = next
       /\ tx'.since = None /\ tx'.gap = 0 /\ tx'.digit = None
  <2>1. now + sleep = next /\ "head" \in Labels
    BY <1>0, <1>8 DEF Labels
  <2> QED
    BY <1>0, <1>10, <1>11, <2>1, LoopsOn
<1>13. UNCHANGED <<pending, begun, toned, twice, now, running, held, direct,
                   raced, dials, nows, stops>>
  BY DEF Pace, Steady, counts
<1>14. TypeOK'
  <2>1. outTs' \in Int
    <3>1. over \in Int
      BY <1>6
    <3> QED
      BY <1>0, <1>2, <1>11, <3>1, PlusStamp
  <2> QED
    BY <1>0, <1>12, <1>13, <2>1 DEF IInv, TypeOK
<1>15. TxInv'
  <2>1. tx'.due <= tx'.wake
    BY <1>12
  <2>2. stops' = 0 => running'
    BY <1>13 DEF IInv, TxInv
  <2>3. nows' = 0 => direct' = Nobody
    BY <1>13 DEF IInv, TxInv
  <2> QED
    BY <1>12, <2>1, <2>2, <2>3 DEF TxInv
<1>16. ClockInv'
  <2>1. SUFFICES ASSUME nows = 0, stops = 0 PROVE ClockInv'
    BY <1>13 DEF ClockInv
  <2>2. PICK a \in Int : a = tx.wake
    BY <1>0
  <2>3. PICK y \in Int, lead \in Nat :
            /\ lead <= twice /\ a - late <= y /\ y <= a
            /\ IsAt(y + lead) /\ InTime(y)
    BY <1>0, <1>1, <2>1, <2>2, PlainFrom
  <2>4. Shows(outTs, (y + lead) + Period, toned) /\ y <= tx.due
    BY <1>0, <2>3 DEF IsAt, InTime
  <2>5. PICK z \in Int : z = (y + Period) + over
    BY <1>2, <1>6
  <2>6. Shows(outTs', z + lead, toned)
    <3>1. (y + lead) + Period \in Int /\ over \in Int
      BY <1>2, <1>6
    <3>2. ((y + lead) + Period) + over = z + lead
      BY <1>2, <1>6, <2>5
    <3>3. Shows(outTs', ((y + lead) + Period) + over, toned)
      BY <1>0, <1>2, <1>11, <2>4, <3>1, Moves
    <3> QED
      BY <3>2, <3>3
  <2>7. now - late' <= y /\ y + Period <= due
    <3>1. now - late' <= y
      BY <1>0, <2>2, <2>3
    <3>2. y + Period <= due
      BY <1>0, <1>2, <1>3, <2>4
    <3> QED
      BY <3>1, <3>2
  <2>8. z <= next /\ next - late' <= z
    <3>1. CASE now > due
      <4>1. next = now + Period
        BY <1>7, <3>1
      <4>2. over <= (now - due) + Period /\ over \in Int
        BY <1>6, <3>1
      <4>3. z <= next
        BY <1>0, <1>2, <1>3, <2>5, <2>7, <4>1, <4>2
      <4>4. next - late' <= z
        BY <1>0, <1>2, <1>6, <2>5, <2>7, <4>1
      <4> QED
        BY <4>3, <4>4
    <3>2. CASE now <= due
      <4>1. next = due /\ over = 0
        BY <1>0, <1>3, <1>6, <1>7, <3>2
      <4>2. z = y + Period
        BY <1>2, <2>5, <4>1
      <4>3. due <= now + Period
        BY <1>0, <1>2, <1>3
      <4>4. next - late' <= z
        BY <1>0, <1>2, <1>3, <2>7, <4>1, <4>2, <4>3
      <4> QED
        BY <2>7, <4>1, <4>2, <4>4
    <3> QED
      BY <1>0, <3>1, <3>2
  <2>9. z - 0 = z /\ (z + lead) - 0 = z + lead
    OBVIOUS
  <2>10. IsAt(z + lead)' /\ InTime(z)'
    BY <1>12, <1>13, <2>6, <2>8, <2>9 DEF IsAt, InTime
  <2>11. twice' \in Nat /\ lead <= twice' /\ next \in Int
    BY <1>0, <1>13, <2>3
  <2> QED
    BY <1>0, <1>12, <2>8, <2>10, <2>11, PlainAt
<1>17. DigitInv'
  <2>1. DigitsInOrder'
    BY <1>1, <1>12, <1>13, DigitsStay DEF Line
  <2> QED
    BY <1>12, <2>1 DEF DigitInv
<1> QED
  BY <1>14, <1>15, <1>16, <1>17 DEF IInv

(* The transmitter leaves only when the client was stopped.                *)
LEMMA ExitKeeps ==
    ASSUME IInv, Exit, Steady
    PROVE  IInv'
<1>0. /\ tx.at = "head" /\ now \in Nat /\ tx.wake \in Nat /\ tx.wake <= now
      /\ late \in Nat /\ late' \in Nat /\ late' = late + (now - tx.wake)
      /\ TxType(tx) /\ tx.due \in Nat /\ tx.due <= tx.wake /\ tx.gap \in Nat
      /\ tx.since # None => tx.since \in Nat /\ tx.since <= tx.wake
  BY Running DEF Exit
<1>1. stops # 0 /\ tx.digit = None
  BY <1>0 DEF IInv, TxInv, DigitInv, Exit
<1>2. Goes(tx, "done", 0)
  BY DEF Exit
<1>3. /\ TxType(tx') /\ tx'.at = "done" /\ tx'.wake = now /\ tx'.due = tx.due
      /\ tx'.since = tx.since /\ tx'.gap = tx.gap /\ tx'.digit = None
  <2>1. "done" \in Labels /\ 0 \in Nat /\ now + 0 = now
    BY <1>0 DEF Labels
  <2> QED
    BY <1>0, <1>1, <1>2, <2>1, GoesOn
<1>4. /\ UNCHANGED <<outTs, pending, begun, toned, twice, now, running, held,
                     direct, raced, dials, nows, stops>>
  BY DEF Exit, Steady, counts
<1>5. TypeOK'
  BY <1>0, <1>3, <1>4 DEF IInv, TypeOK
<1>6. TxInv'
  <2>1. tx'.since # None => tx'.since <= tx'.wake
    BY <1>0, <1>3
  <2>2. stops' # 0
    BY <1>1, <1>4
  <2>3. nows' = 0 => direct' = Nobody
    BY <1>4 DEF IInv, TxInv
  <2>4. tx'.due <= tx'.wake
    BY <1>0, <1>3
  <2> QED
    BY <1>3, <2>1, <2>2, <2>3, <2>4 DEF TxInv
<1>7. stops' # 0
  BY <1>1, <1>4
<1>8. ClockInv'
  BY <1>7 DEF ClockInv
<1>9. DigitInv'
  BY <1>3, <1>7 DEF DigitInv, DigitsInOrder
<1> QED
  BY <1>5, <1>6, <1>8, <1>9 DEF IInv

----------------------------------------------------------------------------
(* Steps of the others *)

(* What another thread does leaves the stream where it is.                 *)
LEMMA ClockStays ==
    ASSUME ClockInv, UNCHANGED <<tx, outTs, toned, late, twice>>,
           nows' = 0 /\ stops' = 0 => nows = 0 /\ stops = 0
    PROVE  ClockInv'
<1>1. SUFFICES ASSUME nows = 0, stops = 0 PROVE ClockInv'
  BY DEF ClockInv
<1>2. PICK lag \in 0..(late - Between), lead \in 0..twice :
          IsAt(Anchor - lag + lead) /\ InTime(Anchor - lag)
  BY <1>1 DEF ClockInv
<1>3. Anchor' = Anchor /\ Between' = Between /\ late' = late /\ twice' = twice
  BY DEF Anchor, Between
<1>4. IsAt(Anchor - lag + lead)'
  BY <1>2, <1>3 DEF IsAt
<1>5. InTime(Anchor - lag)'
  BY <1>2, <1>3 DEF InTime
<1> QED
  BY <1>2, <1>3, <1>4, <1>5 DEF ClockInv

(* A dialled digit waits behind the others.                                *)
LEMMA DialKeeps ==
    ASSUME IInv, Dial
    PROVE  IInv'
<1>0. /\ pending \in Seq(Nat) /\ begun \in Seq(Nat) /\ dials \in Nat
      /\ tx.digit \in Nat \cup {None}
  BY DEF IInv, TypeOK, TxType
<1>1. /\ dials' = dials + 1 /\ pending' = Append(pending, dials + 1)
      /\ UNCHANGED <<now, running, held, outTs, direct, tx, toned, late, twice,
                     begun, raced, nows, stops>>
  BY DEF Dial
<1>2. dials + 1 \in Nat /\ Append(pending, dials + 1) \in Seq(Nat)
  BY <1>0
<1>3. TypeOK'
  BY <1>1, <1>2 DEF IInv, TypeOK
<1>4. TxInv'
  BY <1>1 DEF IInv, TxInv, Reports, Nobody
<1>5. ClockInv'
  BY <1>1, ClockStays DEF IInv
<1>6. DigitsInOrder'
  <2>1. SUFFICES ASSUME stops = 0
                 PROVE  InLine(Line', dials', raced)
    BY <1>1 DEF InLine, DigitsInOrder, Ascends, Digits
  <2>2. InLine(Line, dials, raced)
    BY <2>1 DEF IInv, DigitInv, DigitsInOrder, InLine
  <2>3. PICK h \in Seq(Nat) : h = IF tx.digit = None THEN <<>> ELSE <<tx.digit>>
    <3>1. tx.digit # None => <<tx.digit>> \in Seq(Nat)
      BY <1>0
    <3>2. <<>> \in Seq(Nat)
      OBVIOUS
    <3> QED
      BY <3>1, <3>2
  <2>4. Line = begun \o h \o pending /\ Line' = begun \o h \o pending'
    BY <1>1, <2>3 DEF Line
  <2>5. PICK line \in Seq(Nat) : line = begun \o h \o pending
    <3>1. begun \o h \in Seq(Nat)
      BY <1>0, ConcatProperties
    <3>2. begun \o h \o pending \in Seq(Nat)
      BY <1>0, <3>1, ConcatProperties
    <3> QED
      BY <3>2
  <2>6. InLine(line \o <<dials + 1>>, dials + 1, raced)
    BY <1>0, <2>2, <2>4, <2>5, LineDialled
  <2>7. Line' = line \o <<dials + 1>>
    <3>1. PICK d \in Nat : d = dials + 1
      BY <1>2
    <3>2. begun \o h \o Append(pending, d) = (begun \o h \o pending) \o <<d>>
      BY <1>0, DigitDialled
    <3> QED
      BY <1>1, <2>4, <2>5, <3>1, <3>2
  <2> QED
    BY <1>1, <2>6, <2>7
<1>7. DigitInv'
  BY <1>1, <1>6 DEF IInv, DigitInv
<1> QED
  BY <1>3, <1>4, <1>5, <1>7 DEF IInv

(* A press sent at once uses the timestamps of the stream: it is outside   *)
(* of what the clock promises, which is what IInv says of it.              *)
LEMMA NowKeeps ==
    ASSUME IInv, SendNow \/ ReportNow
    PROVE  IInv'
<1>0. /\ nows \in Nat /\ outTs \in Int /\ DirectType(direct)
  BY DEF IInv, TypeOK
<1>1. /\ UNCHANGED <<now, running, held, pending, tx, toned, late, twice, begun,
                     raced, dials, stops>>
  BY DEF SendNow, ReportNow, counts
<1>2. nows' \in Nat /\ nows' # 0 /\ outTs' \in Int /\ DirectType(direct')
  <2>1. CASE SendNow
    <3>1. /\ nows' = nows + 1 /\ outTs' = outTs
          /\ direct' = [at |-> "tone", wake |-> now, ts |-> outTs, sent |-> 0]
      BY <2>1 DEF SendNow
    <3> QED
      BY <1>0, <3>1 DEF DirectType
  <2>2. CASE ReportNow
    <3>1. /\ direct.at = "tone" /\ nows' = nows
          /\ \/ outTs' = Plus(direct.ts, Tone, EventRate) /\ direct' = Nobody
             \/ /\ outTs' = outTs
                /\ direct' = [direct EXCEPT !.sent = @ + 1, !.wake = now + 1]
      BY <2>2 DEF ReportNow, counts
    <3>2. nows # 0
      BY <3>1 DEF IInv, TxInv, Nobody
    <3>3. direct.ts \in Int /\ Tone \in Int /\ EventRate \in Nat
      BY <1>0, Rates DEF DirectType
    <3>4. Plus(direct.ts, Tone, EventRate) \in Int
      BY <3>3, PlusStamp
    <3>5. DirectType([direct EXCEPT !.sent = @ + 1, !.wake = now + 1])
      <4>1. PICK sent : sent = direct.sent + 1
        OBVIOUS
      <4>2. PICK wake : wake = now + 1
        OBVIOUS
      <4>3. PICK d : d = [direct EXCEPT !.sent = sent, !.wake = wake]
        OBVIOUS
      <4>4. d = [at |-> direct.at, wake |-> wake, ts |-> direct.ts, sent |-> sent]
        BY <1>0, <4>3 DEF DirectType
      <4>5. DirectType(d)
        BY <1>0, <4>4 DEF DirectType
      <4> QED
        BY <4>1, <4>2, <4>3, <4>5
    <3>6. DirectType(Nobody)
      BY DEF DirectType, Nobody
    <3> QED
      BY <1>0, <3>1, <3>2, <3>4, <3>5, <3>6
  <2> QED
    BY <2>1, <2>2
<1>3. TypeOK'
  BY <1>1, <1>2 DEF IInv, TypeOK
<1>4. TxInv'
  BY <1>1, <1>2 DEF IInv, TxInv, Reports
<1>5. ClockInv'
  BY <1>2 DEF ClockInv
<1>6. DigitInv'
  <2>1. DigitsInOrder'
    BY <1>1, DigitsStay DEF Line
  <2> QED
    BY <1>1, <2>1 DEF IInv, DigitInv
<1> QED
  BY <1>3, <1>4, <1>5, <1>6 DEF IInv

(* Nothing is promised of a client that was stopped, and a client is       *)
(* started again only after that, with a transmitter of its own.           *)
LEMMA StopStartKeeps ==
    ASSUME IInv, Stop \/ Start
    PROVE  IInv'
<1>0. /\ now \in Nat /\ stops \in Nat /\ TxType(tx)
  BY DEF IInv, TypeOK
<1>1. /\ UNCHANGED <<now, held, outTs, pending, direct, toned, late, twice,
                     begun, dials, nows>>
  BY DEF Stop, Start, counts
<1>2. stops' \in Nat /\ stops' # 0
  <2>1. Stop => stops' = stops + 1
    BY DEF Stop
  <2>2. Start => stops' = stops /\ ~running
    BY DEF Start, counts
  <2> QED
    BY <1>0, <2>1, <2>2 DEF IInv, TxInv
<1>3. \/ tx' = tx
      \/ /\ TxType(tx') /\ tx'.at = "head" /\ tx'.wake = now /\ tx'.due = now
         /\ tx'.since = None /\ tx'.digit = None
  <2>1. CASE Stop
    BY <2>1 DEF Stop
  <2>2. CASE Start
    <3>1. tx' = [at |-> "head", wake |-> now, due |-> now, since |-> None,
                 gap |-> 0, after |-> FALSE, digit |-> None, began |-> 0,
                 sent |-> 0, ts |-> 0,
                 kept |-> [ts |-> 0, gap |-> 0, toned |-> 0]]
      BY <2>2 DEF Start, Idle
    <3>2. 0 \in Stamps /\ "head" \in Labels
      BY Rates DEF Stamps, Labels
    <3>3. KeptType([ts |-> 0, gap |-> 0, toned |-> 0])
      BY DEF KeptType
    <3> QED
      BY <1>0, <3>1, <3>2, <3>3 DEF TxType
  <2> QED
    BY <2>1, <2>2
<1>4. TypeOK'
  BY <1>0, <1>1, <1>2, <1>3 DEF IInv, TypeOK
<1>5. TxInv'
  BY <1>0, <1>1, <1>2, <1>3 DEF IInv, TxInv, Reports, Nobody
<1>6. ClockInv'
  BY <1>2 DEF ClockInv
<1>7. DigitInv'
  BY <1>2, <1>3 DEF IInv, DigitInv, DigitsInOrder
<1> QED
  BY <1>4, <1>5, <1>6, <1>7 DEF IInv

(* A hold that ends is remembered of the digit that is being refused.      *)
LEMMA DirectionKeeps ==
    ASSUME IInv, SetDirection
    PROVE  IInv'
<1>1. /\ UNCHANGED <<now, running, outTs, pending, tx, direct, toned, late,
                     twice, begun, dials, nows, stops>>
      /\ held' = ~held
      /\ raced' = IF held /\ tx.at = "refused" THEN raced \cup {tx.digit}
                  ELSE raced
  BY DEF SetDirection
<1>2. TypeOK'
  BY <1>1 DEF IInv, TypeOK
<1>3. TxInv'
  BY <1>1 DEF IInv, TxInv, Reports, Nobody
<1>4. ClockInv'
  BY <1>1, ClockStays DEF IInv
<1>5. DigitsInOrder'
  <2>1. SUFFICES ASSUME stops = 0
                 PROVE  InLine(Line, dials, raced')
    <3>1. Line' = Line
      BY <1>1 DEF Line
    <3> QED
      BY <1>1, <3>1 DEF InLine, DigitsInOrder, Ascends, Digits
  <2>2. InLine(Line, dials, raced)
    BY <2>1 DEF IInv, DigitInv, DigitsInOrder, InLine
  <2>3. raced \subseteq raced'
    BY <1>1
  <2> QED
    BY <2>2, <2>3 DEF InLine
<1>6. stops' = 0 /\ tx'.at = "refused" => held' \/ tx'.digit \in raced'
  <2>1. SUFFICES ASSUME stops = 0, tx.at = "refused"
                 PROVE  held' \/ tx.digit \in raced'
    BY <1>1
  <2>2. held \/ tx.digit \in raced
    BY <2>1 DEF IInv, DigitInv
  <2> QED
    BY <1>1, <2>1, <2>2
<1>7. DigitInv'
  <2>1. tx'.digit # None <=> tx'.at \in {"event", "begin", "refused"}
    BY <1>1 DEF IInv, DigitInv
  <2> QED
    BY <1>5, <1>6, <2>1 DEF DigitInv
<1> QED
  BY <1>2, <1>3, <1>4, <1>7 DEF IInv

(* Writes, the change of mode and time move neither thread.                *)
LEMMA OthersKeep ==
    ASSUME IInv,
           \/ \E n \in Sizes : Write(n)
           \/ EnableRealtime \/ Tick \/ UNCHANGED vars
    PROVE  IInv'
<1>1. /\ UNCHANGED <<running, held, outTs, pending, tx, direct, toned, late,
                     twice, begun, raced, dials, nows, stops>>
      /\ now' = now \/ now' = now + 1
  BY DEF Write, EnableRealtime, Tick, vars, counts
<1>2. TypeOK'
  BY <1>1 DEF IInv, TypeOK
<1>3. TxInv'
  BY <1>1 DEF IInv, TxInv, Reports, Nobody
<1>4. ClockInv'
  BY <1>1, ClockStays DEF IInv
<1>5. DigitInv'
  <2>1. DigitsInOrder'
    BY <1>1, DigitsStay DEF Line
  <2> QED
    BY <1>1, <2>1 DEF IInv, DigitInv
<1> QED
  BY <1>2, <1>3, <1>4, <1>5 DEF IInv

----------------------------------------------------------------------------
(* The theorems *)

LEMMA InitKeeps ==
    ASSUME Init
    PROVE  IInv
<1>1. /\ now = 0 /\ running = TRUE /\ outTs = StartTs /\ pending = <<>>
      /\ tx = Idle /\ direct = Nobody /\ toned = 0 /\ late = 0 /\ twice = 0
      /\ begun = <<>> /\ dials = 0 /\ nows = 0 /\ stops = 0
  BY DEF Init
<1>2. /\ tx = [at |-> "head", wake |-> 0, due |-> 0, since |-> None,
               gap |-> 0, after |-> FALSE, digit |-> None, began |-> 0,
               sent |-> 0, ts |-> 0, kept |-> [ts |-> 0, gap |-> 0, toned |-> 0]]
      /\ direct = [at |-> "idle", wake |-> 0, ts |-> 0, sent |-> 0]
  BY <1>1 DEF Idle, Nobody
<1>3. TypeOK
  <2>1. TxType(tx)
    <3>1. 0 \in Stamps /\ "head" \in Labels
      BY Rates DEF Stamps, Labels
    <3>2. KeptType([ts |-> 0, gap |-> 0, toned |-> 0])
      BY DEF KeptType
    <3> QED
      BY <1>2, <3>1, <3>2 DEF TxType
  <2>2. DirectType(direct)
    BY <1>2 DEF DirectType
  <2> QED
    BY <1>1, <2>1, <2>2, Rates DEF TypeOK
<1>4. TxInv
  BY <1>1, <1>2 DEF TxInv
<1>5. ClockInv
  <2>1. Shows(outTs, 0, 0)
    <3>1. StartTs + (0 - 0) * AudioRate + 0 * EventRate = StartTs
      BY Rates
    <3> QED
      BY <1>1, <3>1 DEF Shows
  <2>2. Anchor = 0 /\ Between = 0
    BY <1>1, <1>2 DEF Anchor, Between
  <2>3. /\ 0 \in 0..(late - Between) /\ 0 \in 0..twice
        /\ Anchor - 0 + 0 = 0 /\ Anchor - 0 = 0
    BY <1>1, <2>2
  <2>4. IsAt(0)
    BY <1>1, <1>2, <2>1 DEF IsAt
  <2>5. InTime(0)
    BY <1>2 DEF InTime
  <2> QED
    BY <2>3, <2>4, <2>5 DEF ClockInv
<1>6. DigitInv
  <2>1. Line = <<>>
    BY <1>1, <1>2 DEF Line
  <2>2. DigitsInOrder
    <3>1. DOMAIN Line = {}
      BY <2>1
    <3>2. 1..dials = {}
      BY <1>1
    <3> QED
      BY <3>1, <3>2 DEF DigitsInOrder, Ascends, Digits
  <2> QED
    BY <1>2, <2>2 DEF DigitInv
<1> QED
  BY <1>3, <1>4, <1>5, <1>6 DEF IInv

LEMMA NextInv ==
    ASSUME IInv, [Next]_vars
    PROVE  IInv'
<1>1. ASSUME Transmit
      PROVE  IInv'
  <2>0. Steady
    BY <1>1 DEF Transmit, Steady
  <2>1. CASE Look
    BY <2>0, <2>1, LookKeeps
  <2>2. CASE Hold
    BY <2>0, <2>2, HoldKeeps
  <2>3. CASE Again
    BY <2>0, <2>3, AgainKeeps
  <2>4. CASE Turn
    BY <2>0, <2>4, TurnKeeps
  <2>5. CASE Event
    BY <2>0, <2>5, EventKeeps
  <2>6. CASE Begin
    BY <2>0, <2>6, BeginKeeps
  <2>7. CASE Refused
    BY <2>0, <2>7, RefusedKeeps
  <2>8. CASE Report
    BY <2>0, <2>8, ReportKeeps
  <2>9. CASE FrameDue
    BY <2>0, <2>9, FrameDueKeeps
  <2>10. CASE Epoch
    BY <2>0, <2>10, EpochKeeps
  <2>11. CASE Encode
    BY <2>0, <2>11, EncodeKeeps
  <2>12. CASE SendFrame
    BY <2>0, <2>12, SendFrameKeeps
  <2>13. CASE Pace
    BY <2>0, <2>13, PaceKeeps
  <2>14. CASE Exit
    BY <2>0, <2>14, ExitKeeps
  <2> QED
    BY <1>1, <2>1, <2>2, <2>3, <2>4, <2>5, <2>6, <2>7, <2>8, <2>9, <2>10, <2>11,
       <2>12, <2>13, <2>14 DEF Transmit
<1>2. CASE SendNow \/ ReportNow
  BY <1>2, NowKeeps
<1>3. CASE Dial
  BY <1>3, DialKeeps
<1>4. CASE Stop \/ Start
  BY <1>4, StopStartKeeps
<1>5. CASE SetDirection
  BY <1>5, DirectionKeeps
<1>6. CASE \/ \E n \in Sizes : Write(n)
           \/ EnableRealtime \/ Tick \/ UNCHANGED vars
  BY <1>6, OthersKeep
<1> QED
  BY <1>1, <1>2, <1>3, <1>4, <1>5, <1>6 DEF Next

(* IInv holds in every reachable state, for all rates, wraps and bounds:   *)
(* what trans() keeps at each of its labels about the timeline, with what  *)
(* it was late and what counted twice at the end of a hold, and about the  *)
(* digits, with those a hold that ended may lose.                          *)
THEOREM Invariance == Spec => []IInv
<1>1. Init => IInv
  BY InitKeeps
<1>2. IInv /\ [Next]_vars => IInv'
  BY NextInv
<1> QED
  BY <1>1, <1>2, PTL DEF Spec

(* Every digit dialled is given to one tone, in order, or still waits, in  *)
(* a client that is not stopped: trans() puts a digit back when a hold     *)
(* comes between its two looks at the direction.  The only digits that may *)
(* be lost are those refused on hold when the hold ended (raced).          *)
THEOREM DigitsAreSentInOrder == Spec => []DigitsInOrder
<1>1. IInv => DigitsInOrder
  BY DEF IInv, DigitInv
<1> QED
  BY <1>1, Invariance, PTL

(* The timestamp of a frame tells the time it is sent: behind it by no     *)
(* more than the transmitter thread was late, and ahead of it by no more   *)
(* than it was late between its two looks at the clock at the end of a     *)
(* hold.  Holds, key presses counted at another clock rate, missed         *)
(* intervals and frames that fail to encode leave no gap in trans()'s      *)
(* clock.                                                                  *)
THEOREM FramesFollowTheClock == Spec => FollowsTheClock
<1>1. ASSUME IInv, SendFrame, UNCHANGED twice, last' # last, nows = 0, stops = 0
      PROVE  \E lag \in 0..late', lead \in 0..twice' : Tells(last'.ts, lead - lag)
  <2>1. /\ tx.at = "send" /\ now \in Nat /\ tx.wake \in Nat /\ tx.wake <= now
        /\ late \in Nat /\ late' \in Nat /\ late' = late + (now - tx.wake)
        /\ TxType(tx) /\ toned \in Nat /\ twice \in Nat
    BY <1>1, Running DEF SendFrame
  <2>2. tx.since = None /\ tx.ts \in Stamps
    BY <1>1, <2>1 DEF IInv, TxInv, TxType
  <2>3. PICK a \in Int : a = tx.wake
    BY <2>1
  <2>4. PICK y \in Int, lead \in Nat :
            /\ lead <= twice /\ a - late <= y /\ y <= a
            /\ IsAt(y + lead) /\ InTime(y)
    BY <1>1, <2>1, <2>2, <2>3, PlainFrom
  <2>5. PICK x \in Int : x = y + lead
    OBVIOUS
  <2>6. Shows(tx.ts, x, toned)
    BY <2>1, <2>4, <2>5 DEF IsAt
  <2>7. PICK lag \in 0..late' : lag = now - y
    <3>1. now - y \in 0..late'
      BY <2>1, <2>3, <2>4
    <3> QED
      BY <3>1
  <2>8. lead \in 0..twice'
    BY <1>1, <2>1, <2>4
  <2>9. last'.ts = tx.ts
    BY <1>1, SendLeaves DEF SendFrame
  <2>10. PICK b \in Int : b = StartTs + (x - toned) * AudioRate
    BY <2>1, Rates
  <2>11. PICK c \in Int : c = toned * EventRate
    BY <2>1, Rates
  <2>12. TsWrap \in Nat \ {0}
    BY Rates
  <2>13. tx.ts = (b + c) % TsWrap
    <3>1. tx.ts % TsWrap = tx.ts
      <4>1. PICK d \in 0..(TsWrap - 1) : d = tx.ts
        BY <2>2 DEF Stamps
      <4>2. d % TsWrap = d
        <5>1. d \in Int
          BY <2>12
        <5> QED
          BY <2>12, <5>1, Reduced
      <4> QED
        BY <4>1, <4>2
    <3> QED
      BY <2>6, <2>10, <2>11, <3>1 DEF Shows
  <2>14. ((b % TsWrap) + c) % TsWrap = (b + c) % TsWrap
    BY <2>12, ReducedSum
  <2>15. now + (lead - lag) - toned = x - toned
    BY <2>1, <2>5, <2>7
  <2>16. Plus(Plus(StartTs, now + (lead - lag) - toned, AudioRate), toned,
              EventRate) = ((b % TsWrap) + c) % TsWrap
    BY <2>10, <2>11, <2>15 DEF Plus
  <2>17. Tells(last'.ts, lead - lag)
    BY <2>9, <2>13, <2>14, <2>16 DEF Tells
  <2> QED
    BY <2>7, <2>8, <2>17
<1>2. SendFrame => UNCHANGED twice
  BY DEF SendFrame
<1>3. IInv /\ [Next]_vars
          => [SendFrame /\ last' # last /\ nows = 0 /\ stops = 0
                  => \E lag \in 0..late', lead \in 0..twice' :
                        Tells(last'.ts, lead - lag)]_vars
  BY <1>1, <1>2
<1> QED
  BY <1>3, Invariance, PTL DEF Spec, FollowsTheClock

----------------------------------------------------------------------------
(* Whole samples *)

LEMMA MultipleOf ==
    ASSUME NEW m \in Nat \ {0}, NEW a \in Int, a % m = 0
    PROVE  \E q \in Int : a = m * q
<1>1. a = m * (a \div m) + (a % m) /\ a \div m \in Int
  BY Division
<1>2. PICK q \in Int : q = a \div m
  BY <1>1
<1>3. a = m * q + (a % m)
  BY <1>1, <1>2
<1>4. m * q \in Int
  OBVIOUS
<1> QED
  BY <1>3, <1>4

LEMMA Limits ==
    /\ Align \in Nat \ {0} /\ Frame \in Nat \ {0} /\ Whole(Frame)
    /\ Align <= Frame /\ Maximum \in Nat /\ Frame <= Maximum
<1>1. /\ Align \in Nat \ {0} /\ Frame \in Nat \ {0} /\ Frame % Align = 0
      /\ Latency \in Nat /\ Period \in Nat \ {0}
  BY FrameAssumption
<1>2. Align <= Frame
  <2>0. Frame \in Int
    BY <1>1
  <2>1. PICK p \in Int : Frame = Align * p
    BY <1>1, <2>0, MultipleOf
  <2>2. p >= 1
    BY <1>1, <2>1
  <2> QED
    BY <1>1, <2>1, <2>2
<1>3. PICK t \in Nat : t = Latency \div Period
  BY <1>1, WholePeriods
<1>4. t * Frame \in Nat
  BY <1>1
<1> QED
  BY <1>1, <1>2, <1>3, <1>4 DEF Whole, Maximum, Larger

LEMMA WholeSums ==
    ASSUME NEW a \in Int, NEW b \in Int, Whole(a), Whole(b)
    PROVE  Whole(a + b) /\ Whole(a - b)
<1>1. PICK l \in Nat \ {0} : l = Align
  BY Limits
<1>2. PICK p \in Int : a = l * p
  BY <1>1, MultipleOf DEF Whole
<1>3. PICK r \in Int : b = l * r
  BY <1>1, MultipleOf DEF Whole
<1>4. ASSUME NEW q \in Int PROVE Whole(l * q)
  <2>1. (l * q + 0) % l = 0
    BY Remainder
  <2> QED
    BY <1>1, <2>1 DEF Whole
<1>5. a + b = l * (p + r) /\ p + r \in Int
  BY <1>2, <1>3
<1>6. a - b = l * (p - r) /\ p - r \in Int
  BY <1>2, <1>3
<1> QED
  BY <1>4, <1>5, <1>6

(* Two numbers that are whole samples apart are whole together.            *)
LEMMA WholeApart ==
    ASSUME NEW a \in Int, NEW b \in Int, Whole(a - b)
    PROVE  Whole(a) <=> Whole(b)
<1>1. PICK c \in Int : c = a - b
  OBVIOUS
<1>2. Whole(b) => Whole(b + c)
  BY <1>1, WholeSums
<1>3. Whole(a) => Whole(a - c)
  BY <1>1, WholeSums
<1>4. b + c = a /\ a - c = b
  BY <1>1
<1> QED
  BY <1>2, <1>3, <1>4

LEMMA NothingIsWhole == Whole(0)
<1>1. PICK l \in Nat \ {0} : l = Align
  BY Limits
<1>2. (l * 0 + 0) % l = 0
  BY Remainder
<1> QED
  BY <1>1, <1>2 DEF Whole

(* RoundedUp takes a number to the end of its last sample.                 *)
LEMMA Rounding ==
    ASSUME NEW n \in Int
    PROVE  /\ RoundedUp(n) \in Int /\ Whole(RoundedUp(n))
           /\ n <= RoundedUp(n) /\ RoundedUp(n) < n + Align
<1>1. PICK l \in Nat \ {0} : l = Align
  BY Limits
<1>2. PICK m \in Int : m = n + l - 1
  OBVIOUS
<1>3. PICK q \in Int : q = m \div l
  BY Division
<1>4. m - l < l * q /\ l * q <= m /\ l * q \in Int
  <2>1. m = l * (m \div l) + (m % l) /\ m % l \in 0..(l - 1)
    BY Division
  <2>2. PICK r \in 0..(l - 1) : r = m % l
    BY <2>1
  <2>3. l * q \in Int
    OBVIOUS
  <2>4. m = l * q + r
    BY <1>3, <2>1, <2>2
  <2> QED
    BY <2>2, <2>3, <2>4
<1>5. RoundedUp(n) = l * q
  BY <1>1, <1>2, <1>3 DEF RoundedUp
<1>6. (l * q + 0) % l = 0
  BY Remainder
<1>7. PICK k \in Int : k = l * q
  BY <1>4
<1>8. Whole(k)
  BY <1>1, <1>6, <1>7 DEF Whole
<1>9. n <= k /\ k < n + l
  BY <1>2, <1>4, <1>7
<1> QED
  BY <1>1, <1>5, <1>7, <1>8, <1>9

(* And n - n % Align to its beginning.                                     *)
LEMMA RoundingDown ==
    ASSUME NEW n \in Nat
    PROVE  n - (n % Align) \in 0..n /\ Whole(n - (n % Align))
<1>1. PICK l \in Nat \ {0} : l = Align
  BY Limits
<1>2. n = l * (n \div l) + (n % l) /\ n % l \in 0..(l - 1) /\ n \div l \in Int
  BY Division
<1>3. PICK q \in Int : q = n \div l
  BY <1>2
<1>4. PICK r \in Nat : r = n % l
  BY <1>2
<1>5. l * q \in Int
  OBVIOUS
<1>6. PICK k \in Int : k = l * q
  BY <1>5
<1>7. n = k + r
  BY <1>2, <1>3, <1>4, <1>6
<1>8. n \div l \in Nat
  BY SMT
<1>9. k >= 0
  BY <1>3, <1>6, <1>8
<1>10. (l * q + 0) % l = 0
  BY Remainder
<1>11. Whole(k)
  BY <1>1, <1>6, <1>10 DEF Whole
<1>12. n - (n % Align) = k
  BY <1>1, <1>4, <1>7
<1> QED
  BY <1>7, <1>9, <1>11, <1>12

----------------------------------------------------------------------------
(* Sounds in step *)

(* They stay so when whole samples are taken off their front.              *)
LEMMA CutInStep ==
    ASSUME NEW s \in Seq(Nat), NEW t \in Seq(Nat), InStep(s), NEW n \in Nat,
           Whole(n) \/ t = <<>>, Len(s) = n + Len(t),
           \A k \in 1..Len(t) : t[k] = s[n + k]
    PROVE  InStep(t)
<1>1. ASSUME NEW k \in 1..Len(t), t[k] # 0
      PROVE  Whole(t[k] - k) /\ (Whole(k - 1) \/ t[k - 1] = t[k] - 1)
  <2>1. /\ k \in Int /\ n + k \in 1..Len(s) /\ n + k \in Int /\ Len(t) \in Nat
        /\ Whole(n) /\ t[k] = s[n + k] /\ t[k] \in Nat
    BY <1>1
  <2>2. Whole(t[k] - (n + k))
    BY <1>1, <2>1 DEF InStep
  <2>3. Whole(t[k] - k)
    <3>1. PICK a \in Int : a = t[k] - (n + k)
      BY <2>1
    <3>2. Whole(a + n)
      BY <2>1, <2>2, <3>1, WholeSums
    <3>3. a + n = t[k] - k
      BY <2>1, <3>1
    <3> QED
      BY <3>2, <3>3
  <2>4. ASSUME ~Whole(k - 1) PROVE t[k - 1] = t[k] - 1
    <3>1. k # 1
      BY <2>1, <2>4, NothingIsWhole
    <3>2. k - 1 \in 1..Len(t) /\ n + (k - 1) = (n + k) - 1
      BY <2>1, <3>1
    <3>3. ~Whole((n + k) - 1)
      <4>1. PICK b \in Int : b = (n + k) - 1
        BY <2>1
      <4>2. PICK c \in Int : c = k - 1
        BY <2>1
      <4>3. b - c = n
        BY <2>1, <4>1, <4>2
      <4> QED
        BY <2>1, <2>4, <4>1, <4>2, <4>3, WholeApart
    <3>4. s[(n + k) - 1] = s[n + k] - 1
      BY <1>1, <2>1, <3>3 DEF InStep
    <3>5. t[k - 1] = s[n + (k - 1)]
      BY <3>2
    <3> QED
      BY <2>1, <3>2, <3>4, <3>5
  <2> QED
    BY <2>3, <2>4
<1>2. ASSUME NEW j \in 1..Len(t), NEW k \in 1..Len(t),
             j < k, t[j] # 0, t[k] # 0
      PROVE  t[j] < t[k]
  <2>1. /\ n + j \in 1..Len(s) /\ n + k \in 1..Len(s) /\ n + j < n + k
        /\ t[j] = s[n + j] /\ t[k] = s[n + k]
    BY <1>2
  <2> QED
    BY <1>2, <2>1 DEF InStep
<1> QED
  BY <1>1, <1>2 DEF InStep

(* Whole samples go on with later sounds in step.                          *)
LEMMA JoinedInStep ==
    ASSUME NEW s \in Seq(Nat), NEW t \in Seq(Nat), NEW u \in Seq(Nat),
           InStep(s), InStep(t), Whole(Len(s)), Len(u) = Len(s) + Len(t),
           \A k \in 1..Len(s) : u[k] = s[k],
           \A k \in 1..Len(t) : u[Len(s) + k] = t[k],
           \A j \in 1..Len(s), k \in 1..Len(t) :
              s[j] # 0 /\ t[k] # 0 => s[j] < t[k]
    PROVE  InStep(u)
<1>1. ASSUME NEW k \in 1..Len(u)
      PROVE  \/ k \in 1..Len(s) /\ u[k] = s[k]
             \/ \E i \in 1..Len(t) : k = Len(s) + i /\ u[k] = t[i]
  <2>1. CASE k <= Len(s)
    <3>1. k \in 1..Len(s)
      BY <2>1
    <3> QED
      BY <3>1
  <2>2. CASE k > Len(s)
    <3>1. PICK i \in 1..Len(t) : k = Len(s) + i
      <4>1. k - Len(s) \in 1..Len(t) /\ k = Len(s) + (k - Len(s))
        BY <2>2
      <4> QED
        BY <4>1
    <3> QED
      BY <3>1
  <2> QED
    BY <2>1, <2>2
<1>2. ASSUME NEW k \in 1..Len(u), u[k] # 0
      PROVE  Whole(u[k] - k) /\ (Whole(k - 1) \/ u[k - 1] = u[k] - 1)
  <2>1. CASE k \in 1..Len(s) /\ u[k] = s[k]
    <3>1. Whole(s[k] - k) /\ (Whole(k - 1) \/ s[k - 1] = s[k] - 1)
      BY <1>2, <2>1 DEF InStep
    <3>2. ASSUME ~Whole(k - 1) PROVE u[k - 1] = s[k - 1]
      <4>1. k # 1
        BY <3>2, NothingIsWhole
      <4>2. k - 1 \in 1..Len(s)
        BY <2>1, <4>1
      <4> QED
        BY <4>2
    <3> QED
      BY <2>1, <3>1, <3>2
  <2>2. ASSUME NEW i \in 1..Len(t), k = Len(s) + i, u[k] = t[i]
        PROVE  Whole(u[k] - k) /\ (Whole(k - 1) \/ u[k - 1] = u[k] - 1)
    <3>1. PICK n \in Nat : n = Len(s)
      OBVIOUS
    <3>2. PICK x \in Nat : x = t[i]
      OBVIOUS
    <3>3. i \in Int /\ k = n + i /\ u[k] = x /\ x # 0
      BY <1>2, <2>2, <3>1, <3>2
    <3>4. Whole(x - i) /\ (Whole(i - 1) \/ t[i - 1] = x - 1)
      BY <3>2, <3>3 DEF InStep
    <3>5. Whole(x - k)
      <4>1. PICK a \in Int : a = x - i
        BY <3>3
      <4>2. Whole(a - n)
        BY <3>1, <3>4, <4>1, WholeSums
      <4>3. a - n = x - k
        BY <3>3, <4>1
      <4> QED
        BY <4>2, <4>3
    <3>6. ASSUME ~Whole(k - 1) PROVE u[k - 1] = x - 1
      <4>1. ~Whole(i - 1)
        <5>1. PICK b \in Int : b = k - 1
          BY <3>3
        <5>2. PICK c \in Int : c = i - 1
          BY <3>3
        <5>3. b - c = n
          BY <3>3, <5>1, <5>2
        <5>4. Whole(b) <=> Whole(c)
          BY <3>1, <5>3, WholeApart
        <5> QED
          BY <3>6, <5>1, <5>2, <5>4
      <4>2. i # 1
        BY <4>1, NothingIsWhole
      <4>3. i - 1 \in 1..Len(t) /\ Len(s) + (i - 1) = k - 1
        BY <3>1, <3>3, <4>2
      <4>4. u[Len(s) + (i - 1)] = t[i - 1]
        BY <4>3
      <4> QED
        BY <3>4, <4>1, <4>3, <4>4
    <3> QED
      BY <3>3, <3>5, <3>6
  <2> QED
    BY <1>1, <2>1, <2>2
<1>3. ASSUME NEW j \in 1..Len(u), NEW k \in 1..Len(u),
             j < k, u[j] # 0, u[k] # 0
      PROVE  u[j] < u[k]
  <2>1. CASE k \in 1..Len(s) /\ u[k] = s[k]
    <3>1. j \in 1..Len(s)
      BY <1>3, <2>1
    <3> QED
      BY <1>3, <2>1, <3>1 DEF InStep
  <2>2. ASSUME NEW i \in 1..Len(t), k = Len(s) + i, u[k] = t[i]
        PROVE  u[j] < u[k]
    <3>1. CASE j \in 1..Len(s) /\ u[j] = s[j]
      BY <1>3, <2>2, <3>1
    <3>2. ASSUME NEW h \in 1..Len(t), j = Len(s) + h, u[j] = t[h]
          PROVE  u[j] < u[k]
      <4>1. h < i
        BY <1>3, <2>2, <3>2
      <4> QED
        BY <1>3, <2>2, <3>2, <4>1 DEF InStep
    <3> QED
      BY <1>1, <3>1, <3>2
  <2> QED
    BY <1>1, <2>1, <2>2
<1> QED
  BY <1>2, <1>3 DEF InStep

(* What is written next goes on with sounds that end with byte v.          *)
LEMMA ExtendedInStep ==
    ASSUME NEW s \in Seq(Nat), NEW u \in Seq(Nat), InStep(s),
           NEW v \in Nat, NEW m \in Nat, Whole(v - Len(s)),
           Len(u) = Len(s) + m,
           Len(s) > 0 => s[Len(s)] = v,
           \A k \in 1..Len(s) : s[k] <= v,
           \A k \in 1..Len(s) : u[k] = s[k],
           \A k \in 1..m : u[Len(s) + k] = v + k
    PROVE  InStep(u)
<1>0. PICK n \in Nat : n = Len(s)
  OBVIOUS
<1>1. ASSUME NEW k \in 1..Len(u)
      PROVE  \/ k \in 1..n /\ u[k] = s[k]
             \/ k > n /\ u[k] = v + (k - n)
  <2>1. CASE k <= Len(s)
    BY <1>0, <2>1
  <2>2. CASE k > Len(s)
    <3>1. k - n \in 1..m /\ k = Len(s) + (k - n)
      BY <1>0, <2>2
    <3>2. u[Len(s) + (k - n)] = v + (k - n)
      BY <3>1
    <3> QED
      BY <1>0, <2>2, <3>1, <3>2
  <2> QED
    BY <2>1, <2>2
<1>2. ASSUME NEW k \in 1..Len(u), u[k] # 0
      PROVE  Whole(u[k] - k) /\ (Whole(k - 1) \/ u[k - 1] = u[k] - 1)
  <2>1. CASE k \in 1..n /\ u[k] = s[k]
    <3>1. Whole(s[k] - k) /\ (Whole(k - 1) \/ s[k - 1] = s[k] - 1)
      BY <1>0, <1>2, <2>1 DEF InStep
    <3>2. ASSUME ~Whole(k - 1) PROVE u[k - 1] = s[k - 1]
      <4>1. k # 1
        BY <3>2, NothingIsWhole
      <4>2. k - 1 \in 1..Len(s)
        BY <1>0, <2>1, <4>1
      <4> QED
        BY <4>2
    <3> QED
      BY <2>1, <3>1, <3>2
  <2>2. CASE k > n /\ u[k] = v + (k - n)
    <3>1. Whole(u[k] - k) /\ u[k] \in Nat /\ k \in Int
      <4>1. u[k] - k = v - Len(s)
        BY <1>0, <2>2
      <4>2. u[k] \in Nat /\ k \in Int
        BY <2>2
      <4> QED
        BY <4>1, <4>2
    <3>2. CASE k - 1 > n
      <4>1. k - 1 \in 1..Len(u)
        BY <1>0, <3>2
      <4>2. u[k - 1] = v + ((k - 1) - n)
        BY <1>1, <3>2, <4>1
      <4>3. u[k - 1] = u[k] - 1
        BY <2>2, <3>1, <4>2
      <4> QED
        BY <3>1, <4>3
    <3>3. CASE k - 1 = n /\ n > 0
      <4>1. k - 1 \in 1..Len(s) /\ k - 1 = Len(s)
        BY <1>0, <3>3
      <4>2. u[k - 1] = v
        BY <1>0, <3>3, <4>1
      <4>3. u[k - 1] = u[k] - 1
        BY <2>2, <3>1, <3>3, <4>2
      <4> QED
        BY <3>1, <4>3
    <3>4. CASE k - 1 = 0
      BY <3>1, <3>4, NothingIsWhole
    <3> QED
      BY <1>0, <2>2, <3>2, <3>3, <3>4
  <2> QED
    BY <1>1, <2>1, <2>2
<1>3. ASSUME NEW j \in 1..Len(u), NEW k \in 1..Len(u),
             j < k, u[j] # 0, u[k] # 0
      PROVE  u[j] < u[k]
  <2>1. CASE k \in 1..n /\ u[k] = s[k]
    <3>1. j \in 1..Len(s) /\ k \in 1..Len(s) /\ u[j] = s[j]
      BY <1>0, <1>3, <2>1
    <3> QED
      BY <1>3, <2>1, <3>1 DEF InStep
  <2>2. CASE k > n /\ u[k] = v + (k - n)
    <3>1. CASE j \in 1..n /\ u[j] = s[j]
      <4>1. s[j] <= v /\ s[j] \in Nat
        BY <1>0, <3>1
      <4> QED
        BY <2>2, <3>1, <4>1
    <3>2. CASE j > n /\ u[j] = v + (j - n)
      BY <1>3, <2>2, <3>2
    <3> QED
      BY <1>1, <3>1, <3>2
  <2> QED
    BY <1>1, <2>1, <2>2
<1> QED
  BY <1>2, <1>3 DEF InStep

----------------------------------------------------------------------------
(* The queue of the audio output *)

Byte == [at : Nat, data : Nat \ {0}]

LEMMA ByteIs ==
    ASSUME NEW b \in Byte
    PROVE  b.at \in Nat /\ b.data \in Nat /\ b.data # 0
  BY DEF Byte

(* The PCM that waits, byte by byte.                                       *)
LEMMA Waiting ==
    ASSUME NEW q, QueueType(q)
    PROVE  /\ q.bytes \in Seq(Byte) /\ q.skip \in Nat /\ Size(q) \in Nat
           /\ Sounds(q) \in Seq(Nat) /\ Len(Sounds(q)) = Size(q)
           /\ \A k \in 1..Size(q) :
                 /\ q.bytes[k] \in Byte
                 /\ q.bytes[k].data \in Nat /\ q.bytes[k].data # 0
                 /\ Sounds(q)[k] = q.bytes[k].data
<1>1. q.bytes \in Seq(Byte) /\ q.skip \in Nat
  BY DEF QueueType, Byte
<1>2. PICK b \in Seq(Byte) : b = q.bytes
  BY <1>1
<1>3. Len(b) \in Nat /\ \A k \in 1..Len(b) : b[k] \in Byte
  BY <1>2
<1>4. \A k \in 1..Len(b) : b[k].data \in Nat /\ b[k].data # 0
  BY <1>3, ByteIs
<1>5. Sounds(q) = [k \in 1..Len(b) |-> b[k].data] /\ Size(q) = Len(b)
  BY <1>2 DEF Sounds, Size
<1>6. Sounds(q) \in Seq(Nat) /\ Len(Sounds(q)) = Len(b)
  BY <1>3, <1>4, <1>5
<1> QED
  BY <1>1, <1>2, <1>3, <1>4, <1>5, <1>6

(* All of it was written: the last of it last.                             *)
LEMMA WrittenBefore ==
    ASSUME NEW q, NEW w \in Nat, InQueue(q, w)
    PROVE  \A k \in 1..Size(q) : q.bytes[k].data <= w
<1>1. TAKE k \in 1..Size(q)
<1>2. PICK n \in Nat : n = Size(q)
  BY Waiting DEF InQueue
<1>3. /\ Len(Sounds(q)) = n /\ Sounds(q) \in Seq(Nat)
      /\ Sounds(q)[k] = q.bytes[k].data /\ q.bytes[k].data \in Nat
      /\ q.bytes[k].data # 0
  BY <1>2, Waiting DEF InQueue
<1>4. n \in 1..Size(q) /\ n > 0
  BY <1>1, <1>2
<1>5. Sounds(q)[n] = q.bytes[n].data /\ q.bytes[n].data # 0
  BY <1>4, Waiting DEF InQueue
<1>6. q.bytes[n].data = w
  BY <1>2, <1>4 DEF InQueue
<1>7. CASE k = n
  BY <1>6, <1>7
<1>8. CASE k < n
  <2>1. Sounds(q)[k] < Sounds(q)[n]
    BY <1>1, <1>2, <1>3, <1>4, <1>5, <1>8 DEF InQueue, InStep
  <2> QED
    BY <1>3, <1>5, <1>6, <2>1
<1> QED
  BY <1>1, <1>2, <1>7, <1>8

(* Taking n bytes off the front of the queue.                              *)
LEMMA CutBytes ==
    ASSUME NEW q, QueueType(q), NEW n \in 0..Size(q)
    PROVE  /\ Without(q, n) \in Seq(Byte)
           /\ Len(Without(q, n)) = Size(q) - n
           /\ \A k \in 1..(Size(q) - n) : Without(q, n)[k] = q.bytes[n + k]
<1>1. PICK b \in Seq(Byte) : b = q.bytes
  BY Waiting
<1>2. PICK m \in Nat : m = Len(b)
  BY <1>1
<1>3. Size(q) = m /\ n \in Nat /\ n <= m
  BY <1>1, <1>2 DEF Size
<1>4. PICK c : c = SubSeq(b, n + 1, m)
  OBVIOUS
<1>5. c \in Seq(Byte) /\ Len(c) = m - n
  <2>1. c = [k \in 1..(m - n) |-> b[n + k]]
    BY <1>1, <1>2, <1>3, <1>4
  <2>2. \A k \in 1..(m - n) : b[n + k] \in Byte
    BY <1>1, <1>2, <1>3
  <2> QED
    BY <1>3, <2>1, <2>2
<1>6. \A k \in 1..(m - n) : c[k] = b[n + k]
  BY <1>1, <1>2, <1>3, <1>4
<1>7. Without(q, n) = c
  BY <1>1, <1>2, <1>3, <1>4 DEF Without
<1> QED
  BY <1>1, <1>3, <1>5, <1>6, <1>7

(* The front of the queue may go to the end of a sample, what is missing   *)
(* of the last one being skipped later.                                    *)
LEMMA CutKeeps ==
    ASSUME NEW q, NEW w \in Nat, InQueue(q, w), NEW n \in 0..Size(q), NEW r,
           r = [bytes |-> Without(q, n), live |-> r.live, primed |-> r.primed,
                skip |-> r.skip, dropped |-> r.dropped, expired |-> r.expired],
           r.skip \in Nat, n = Size(q) \/ r.skip = q.skip,
           Whole(n + r.skip - q.skip)
    PROVE  /\ InQueue(r, w) /\ Size(r) = Size(q) - n
           /\ \A k \in 1..Size(r) : r.bytes[k] = q.bytes[n + k]
           /\ \A x \in Int : Before(x, q) => Before(x, r)
<1>1. QueueType(q) /\ InStep(Sounds(q)) /\ Whole(w + q.skip - Size(q))
  BY DEF InQueue
<1>2. PICK m \in Nat : m = Size(q)
  BY <1>1, Waiting
<1>3. PICK c \in Seq(Byte) : c = Without(q, n)
  BY <1>1, CutBytes
<1>4. Len(c) = m - n /\ \A k \in 1..(m - n) : c[k] = q.bytes[n + k]
  BY <1>1, <1>2, <1>3, CutBytes
<1>5. /\ r = [bytes |-> r.bytes, live |-> r.live, primed |-> r.primed,
              skip |-> r.skip, dropped |-> r.dropped, expired |-> r.expired]
      /\ r.bytes = c
  BY <1>3
<1>6. QueueType(r) /\ Size(r) = m - n
  BY <1>4, <1>5 DEF QueueType, Size, Byte
<1>7. \A k \in 1..(m - n) : r.bytes[k] = q.bytes[n + k]
  BY <1>4, <1>5
<1>8. InStep(Sounds(r))
  <2>1. /\ Sounds(q) \in Seq(Nat) /\ Len(Sounds(q)) = m
        /\ Sounds(r) \in Seq(Nat) /\ Len(Sounds(r)) = m - n
    BY <1>1, <1>2, <1>6, Waiting
  <2>2. ASSUME NEW k \in 1..Len(Sounds(r))
        PROVE  Sounds(r)[k] = Sounds(q)[n + k]
    <3>1. k \in 1..(m - n) /\ n + k \in 1..m
      BY <1>2, <2>1
    <3>2. Sounds(r)[k] = r.bytes[k].data
      BY <1>6, <3>1, Waiting
    <3>3. Sounds(q)[n + k] = q.bytes[n + k].data
      BY <1>1, <1>2, <3>1, Waiting
    <3> QED
      BY <1>7, <3>1, <3>2, <3>3
  <2>3. Whole(n) \/ Sounds(r) = <<>>
    <3>1. CASE n = Size(q)
      BY <1>2, <2>1, <3>1
    <3>2. CASE r.skip = q.skip
      <4>1. n + r.skip - q.skip = n
        BY <1>1, <1>2, <3>2, Waiting
      <4> QED
        BY <4>1
    <3> QED
      BY <3>1, <3>2
  <2>4. Len(Sounds(q)) = n + Len(Sounds(r)) /\ n \in Nat
    BY <1>2, <2>1
  <2> QED
    BY <1>1, <2>1, <2>2, <2>3, <2>4, CutInStep
<1>9. ASSUME Size(r) > 0 PROVE r.skip = 0 /\ r.bytes[Size(r)].data = w
  <2>1. n # m /\ m - n \in 1..(m - n) /\ n + (m - n) = m /\ m > 0
    BY <1>2, <1>6, <1>9
  <2>2. q.skip = 0 /\ q.bytes[m].data = w
    BY <1>2, <2>1 DEF InQueue
  <2>3. r.bytes[m - n] = q.bytes[m]
    BY <1>7, <2>1
  <2> QED
    BY <1>2, <1>6, <2>1, <2>2, <2>3
<1>10. Whole(w + r.skip - Size(r))
  <2>1. PICK a \in Int : a = w + q.skip - m
    BY <1>1, <1>2, Waiting
  <2>2. q.skip \in Nat
    BY <1>1, Waiting
  <2>3. PICK b \in Int : b = n + r.skip - q.skip
    BY <1>2, <2>2
  <2>4. Whole(a + b)
    BY <1>1, <1>2, <2>1, <2>3, WholeSums
  <2>5. a + b = w + r.skip - (m - n)
    BY <1>2, <2>1, <2>2, <2>3
  <2> QED
    BY <1>6, <2>4, <2>5
<1>11. ASSUME NEW x \in Int, Before(x, q) PROVE Before(x, r)
  <2>1. ASSUME NEW k \in 1..Size(r) PROVE x < r.bytes[k].data
    <3>1. k \in 1..(m - n) /\ n + k \in 1..Size(q)
      BY <1>2, <1>6
    <3> QED
      BY <1>7, <1>11, <3>1 DEF Before
  <2> QED
    BY <2>1 DEF Before
<1> QED
  BY <1>2, <1>6, <1>7, <1>8, <1>9, <1>10, <1>11 DEF InQueue

LEMMA TrimKeeps ==
    ASSUME NEW q, NEW w \in Nat, InQueue(q, w)
    PROVE  /\ InQueue(Trim(q), w)
           /\ \A x \in Int : Before(x, q) => Before(x, Trim(q))
<1>1. CASE ~q.live \/ Size(q) <= Maximum
  <2>1. Trim(q) = q
    BY <1>1 DEF Trim
  <2> QED
    BY <2>1
<1>2. CASE ~(~q.live \/ Size(q) <= Maximum)
  <2>1. PICK m \in Nat : m = Size(q)
    BY Waiting DEF InQueue
  <2>2. PICK a \in Nat \ {0} : a = Align
    BY Limits
  <2>3. PICK g \in Nat : g = Maximum /\ a <= g /\ g < m
    <3>1. PICK g \in Nat : g = Maximum
      BY Limits
    <3>2. a <= g
      BY <2>2, <3>1, Limits
    <3> QED
      BY <1>2, <2>1, <3>1, <3>2
  <2>4. PICK d \in Int : d = m - g
    OBVIOUS
  <2>5. PICK n \in Int : n = RoundedUp(d)
    BY Rounding
  <2>6. Whole(n) /\ d <= n /\ n < d + a
    BY <2>2, <2>5, Rounding
  <2>7. n \in 0..m
    BY <2>3, <2>4, <2>6
  <2>8. Smaller(m, RoundedUp(m - g)) = n
    BY <2>4, <2>5, <2>7 DEF Smaller
  <2>9. PICK r : r = Trim(q)
    OBVIOUS
  <2>10. r = [q EXCEPT !.bytes = Without(q, n), !.dropped = @ + n]
    BY <1>2, <2>1, <2>3, <2>8, <2>9 DEF Trim
  <2>11. QueueType(q) /\ q.skip \in Nat
    BY Waiting DEF InQueue
  <2>12. /\ r = [bytes |-> Without(q, n), live |-> r.live,
                 primed |-> r.primed, skip |-> r.skip,
                 dropped |-> r.dropped, expired |-> r.expired]
         /\ r.skip = q.skip
    BY <2>10, <2>11 DEF QueueType
  <2>13. n + r.skip - q.skip = n
    BY <2>11, <2>12
  <2>14. n \in 0..Size(q) /\ r.skip \in Nat /\ Whole(n + r.skip - q.skip)
    BY <2>1, <2>6, <2>7, <2>11, <2>12, <2>13
  <2> QED
    BY <2>9, <2>12, <2>14, CutKeeps
<1> QED
  BY <1>1, <1>2

----------------------------------------------------------------------------
(* Bounded sets of integers have a greatest and a least element.           *)

LEMMA LeastNat ==
    ASSUME NEW S, S \subseteq Nat, S # {}
    PROVE  \E x \in S : \A y \in S : x <= y
<1>1. PICK x \in S : \A y \in S : ~(<<y, x>> \in OpToRel(<, Nat))
  BY NatLessThanWellFounded, WFMin
<1>2. ASSUME NEW y \in S PROVE x <= y
  <2>1. x \in Nat /\ y \in Nat
    OBVIOUS
  <2>2. ~(y < x)
    BY <1>1, <2>1 DEF OpToRel
  <2> QED
    BY <2>1, <2>2
<1> QED
  BY <1>2

LEMMA GreatestInt ==
    ASSUME NEW S, S \subseteq Int, S # {}, NEW top \in Int,
           \A x \in S : x <= top
    PROVE  \E x \in S : \A y \in S : y <= x
<1> DEFINE below == {top - x : x \in S}
<1>1. below \subseteq Nat /\ below # {}
  <2>1. ASSUME NEW x \in S PROVE top - x \in Nat
    <3>1. x \in Int /\ x <= top
      OBVIOUS
    <3> QED
      BY <3>1
  <2> QED
    BY <2>1
<1>2. PICK z \in below : \A y \in below : z <= y
  BY <1>1, LeastNat
<1>3. PICK x \in S : z = top - x
  OBVIOUS
<1>4. ASSUME NEW y \in S PROVE y <= x
  <2>1. top - x <= top - y
    BY <1>2, <1>3
  <2> QED
    BY <2>1
<1> QED
  BY <1>4
----------------------------------------------------------------------------
(* The calls of the audio output *)

LEMMA ExpireKeeps ==
    ASSUME NEW q, NEW w \in Nat, InQueue(q, w), NEW t \in Nat
    PROVE  /\ InQueue(Expire(q, t), w)
           /\ \A x \in Int : Before(x, q) => Before(x, Expire(q, t))
<1>1. CASE ~q.live
  <2>1. Expire(q, t) = q
    BY <1>1 DEF Expire
  <2> QED
    BY <2>1
<1>2. CASE ~(~q.live)
  <2>1. PICK m \in Nat : m = Size(q)
    BY Waiting DEF InQueue
  <2>2. PICK old : old = {n \in 0..m :
                             \A i \in 1..n : t - q.bytes[i].at > Latency}
    OBVIOUS
  <2>3. PICK n \in 0..m : n = CHOOSE k \in old : \A j \in old : j <= k
    <3>1. old \subseteq Int /\ old # {} /\ m \in Int /\ \A k \in old : k <= m
      BY <2>1, <2>2
    <3>2. \E k \in old : \A j \in old : j <= k
      BY <3>1, GreatestInt
    <3>3. (CHOOSE k \in old : \A j \in old : j <= k) \in old
      BY <3>2
    <3> QED
      BY <2>2, <3>3
  <2>4. PICK whole \in Nat : whole = RoundedUp(n) /\ Whole(whole)
    <3>1. n \in Int /\ n >= 0
      BY <2>1
    <3>2. RoundedUp(n) \in Int /\ Whole(RoundedUp(n)) /\ n <= RoundedUp(n)
      BY <3>1, Rounding
    <3>3. PICK z \in Int : z = RoundedUp(n)
      BY <3>2
    <3>4. z \in Nat
      BY <3>1, <3>2, <3>3
    <3> QED
      BY <3>2, <3>3, <3>4
  <2>5. PICK taken \in 0..m : taken = Smaller(whole, m)
    BY <2>1 DEF Smaller
  <2>6. taken <= whole /\ (taken = m \/ taken = whole)
    BY <2>1, <2>5 DEF Smaller
  <2>7. PICK r : r = Expire(q, t)
    OBVIOUS
  <2>8. r = [q EXCEPT !.bytes = Without(q, taken), !.expired = @ + taken,
                      !.skip = @ + whole - taken]
    BY <1>2, <2>1, <2>2, <2>3, <2>4, <2>5, <2>7 DEF Expire
  <2>9. QueueType(q) /\ q.skip \in Nat
    BY Waiting DEF InQueue
  <2>10. /\ r = [bytes |-> Without(q, taken), live |-> r.live,
                 primed |-> r.primed, skip |-> r.skip,
                 dropped |-> r.dropped, expired |-> r.expired]
         /\ r.skip = q.skip + whole - taken
    BY <2>8, <2>9 DEF QueueType
  <2>11. PICK k \in Nat : k = r.skip /\ k = q.skip + whole - taken
    <3>1. q.skip + whole - taken \in Nat
      BY <2>1, <2>6, <2>9
    <3> QED
      BY <2>10, <3>1
  <2>12. taken + k - q.skip = whole
    BY <2>1, <2>9, <2>11
  <2>13. taken = m \/ k = q.skip
    BY <2>6, <2>9, <2>11
  <2>14. /\ taken \in 0..Size(q) /\ r.skip \in Nat
         /\ Whole(taken + r.skip - q.skip)
         /\ (taken = Size(q) \/ r.skip = q.skip)
    BY <2>1, <2>4, <2>11, <2>12, <2>13
  <2> QED
    BY <2>7, <2>10, <2>14, CutKeeps
<1> QED
  BY <1>1, <1>2

(* What a frame is made of leaves the queue whole.                         *)
LEMMA GetKeeps ==
    ASSUME NEW q, NEW w \in Nat, InQueue(q, w), NEW t \in Nat
    PROVE  /\ InQueue(Get(q, t), w)
           /\ \A x \in Int : Before(x, q) => Before(x, Get(q, t))
           /\ Given(q, t) \in Seq(Nat) /\ InStep(Given(q, t))
           /\ Len(Given(q, t)) <= Frame
           /\ \A k \in 1..Len(Given(q, t)) :
                 /\ Given(q, t)[k] <= w /\ Before(Given(q, t)[k], Get(q, t))
                 /\ \A x \in Int : Before(x, q) => x < Given(q, t)[k]
<1>1. PICK e : e = Expire(q, t)
  OBVIOUS
<1>2. InQueue(e, w) /\ \A x \in Int : Before(x, q) => Before(x, e)
  BY <1>1, ExpireKeeps
<1>3. PICK m \in Nat : m = Size(e)
  BY <1>2, Waiting DEF InQueue
<1>4. PICK f \in Nat : f = Frame
  BY Limits
<1>5. PICK n \in 0..m : n = Count(e, t) /\ n <= f /\ Whole(n)
  <2>1. CASE Starved(e, t)
    <3>1. Count(e, t) = 0
      BY <2>1 DEF Count
    <3> QED
      BY <1>3, <3>1, NothingIsWhole
  <2>2. CASE ~Starved(e, t)
    <3>1. PICK s \in Nat : s = Smaller(f, m) /\ s <= f /\ s <= m
      BY DEF Smaller
    <3>2. Count(e, t) = s - (s % Align)
      BY <1>3, <1>4, <2>2, <3>1 DEF Count
    <3>3. s - (s % Align) \in 0..s /\ Whole(s - (s % Align))
      BY RoundingDown
    <3>4. PICK n \in 0..s : n = s - (s % Align)
      BY <3>3
    <3>5. n \in 0..m /\ n <= f
      BY <3>1, <3>4
    <3> QED
      BY <3>2, <3>3, <3>4, <3>5
  <2> QED
    BY <2>1, <2>2
<1>6. PICK r : r = Get(q, t)
  OBVIOUS
<1>7. QueueType(e) /\ e.skip \in Nat /\ Sounds(e) \in Seq(Nat)
      /\ Len(Sounds(e)) = m /\ InStep(Sounds(e))
  BY <1>2, <1>3, Waiting DEF InQueue
<1>8. /\ r = [bytes |-> Without(e, n), live |-> r.live,
              primed |-> r.primed, skip |-> r.skip,
              dropped |-> r.dropped, expired |-> r.expired]
      /\ r.skip = e.skip
  <2>1. r = [e EXCEPT !.bytes = Without(e, n),
                      !.primed = e.live /\ ~Starved(e, t)]
    BY <1>1, <1>5, <1>6 DEF Get
  <2>2. PICK b : b = (e.live /\ ~Starved(e, t))
    OBVIOUS
  <2>3. r = [e EXCEPT !.bytes = Without(e, n), !.primed = b]
    BY <2>1, <2>2
  <2> QED
    BY <1>7, <2>3 DEF QueueType
<1>9. n \in 0..Size(e) /\ r.skip \in Nat /\ Whole(n + r.skip - e.skip)
  <2>1. n + r.skip - e.skip = n
    BY <1>7, <1>8
  <2> QED
    BY <1>3, <1>5, <1>7, <1>8, <2>1
<1>10. /\ InQueue(r, w) /\ Size(r) = m - n
       /\ \A k \in 1..Size(r) : r.bytes[k] = e.bytes[n + k]
       /\ \A x \in Int : Before(x, e) => Before(x, r)
  BY <1>2, <1>3, <1>8, <1>9, CutKeeps
<1>11. PICK g : g = Given(q, t)
  OBVIOUS
<1>12. g = [k \in 1..n |-> e.bytes[k].data]
  BY <1>1, <1>5, <1>11 DEF Given
<1>13. \A k \in 1..m : /\ e.bytes[k].data \in Nat /\ e.bytes[k].data # 0
                       /\ Sounds(e)[k] = e.bytes[k].data
  BY <1>3, <1>7, Waiting
<1>14. /\ g \in Seq(Nat) /\ Len(g) = n
       /\ \A k \in 1..n : k \in 1..m /\ g[k] = Sounds(e)[k] /\ g[k] # 0
                          /\ g[k] \in Nat
  <2>1. \A k \in 1..n : k \in 1..m
    BY <1>3
  <2> QED
    BY <1>12, <1>13, <2>1
<1>15. InStep(g)
  <2>1. ASSUME NEW k \in 1..n
        PROVE  Whole(g[k] - k) /\ (Whole(k - 1) \/ g[k - 1] = g[k] - 1)
    <3>1. /\ Whole(Sounds(e)[k] - k)
          /\ (Whole(k - 1) \/ Sounds(e)[k - 1] = Sounds(e)[k] - 1)
      BY <1>7, <1>14 DEF InStep
    <3>2. ASSUME ~Whole(k - 1) PROVE g[k - 1] = Sounds(e)[k - 1]
      <4>1. k # 1
        BY <3>2, NothingIsWhole
      <4>2. k - 1 \in 1..n
        BY <4>1
      <4> QED
        BY <1>14, <4>2
    <3> QED
      BY <1>14, <3>1, <3>2
  <2>2. \A j, k \in 1..n : j < k => g[j] < g[k]
    BY <1>7, <1>14 DEF InStep
  <2> QED
    BY <1>14, <2>1, <2>2 DEF InStep
<1>16. ASSUME NEW k \in 1..n
       PROVE  /\ g[k] <= w /\ Before(g[k], r)
              /\ \A x \in Int : Before(x, q) => x < g[k]
  <2>1. k \in 1..m /\ g[k] = e.bytes[k].data /\ g[k] = Sounds(e)[k] /\ g[k] # 0
    BY <1>13, <1>14
  <2>2. g[k] <= w
    BY <1>2, <1>3, <2>1, WrittenBefore
  <2>3. ASSUME NEW i \in 1..Size(r) PROVE g[k] < r.bytes[i].data
    <3>1. n + i \in 1..m /\ k < n + i
      BY <1>3, <1>10
    <3>2. r.bytes[i].data = Sounds(e)[n + i] /\ Sounds(e)[n + i] # 0
      BY <1>10, <1>13, <3>1
    <3>3. Sounds(e)[k] < Sounds(e)[n + i]
      BY <1>7, <2>1, <3>1, <3>2 DEF InStep
    <3> QED
      BY <2>1, <3>2, <3>3
  <2>4. ASSUME NEW x \in Int, Before(x, q) PROVE x < g[k]
    <3>1. Before(x, e)
      BY <1>2, <2>4
    <3> QED
      BY <1>3, <2>1, <3>1 DEF Before
  <2> QED
    BY <2>2, <2>3, <2>4 DEF Before
<1>17. \A x \in Int : Before(x, q) => Before(x, r)
  BY <1>2, <1>10
<1>18. Len(g) <= Frame
  BY <1>4, <1>5, <1>14
<1> QED
  BY <1>6, <1>10, <1>11, <1>14, <1>15, <1>16, <1>17, <1>18

LEMMA GoLiveKeeps ==
    ASSUME NEW q, NEW w \in Nat, InQueue(q, w)
    PROVE  /\ InQueue(GoLive(q), w)
           /\ \A x \in Int : Before(x, q) => Before(x, GoLive(q))
<1>1. PICK r : r = [q EXCEPT !.live = TRUE, !.primed = FALSE]
  OBVIOUS
<1>2. /\ r = [bytes |-> q.bytes, live |-> TRUE, primed |-> FALSE,
              skip |-> q.skip, dropped |-> q.dropped, expired |-> q.expired]
  BY <1>1 DEF InQueue, QueueType
<1>3. QueueType(r) /\ r.bytes = q.bytes /\ r.skip = q.skip
  BY <1>2 DEF InQueue, QueueType
<1>4. Size(r) = Size(q) /\ Sounds(r) = Sounds(q)
  BY <1>3 DEF Size, Sounds
<1>5. InQueue(r, w) /\ \A x \in Int : Before(x, q) => Before(x, r)
  BY <1>3, <1>4 DEF InQueue, Before
<1>6. GoLive(q) = Trim(r)
  BY <1>1 DEF GoLive
<1> QED
  BY <1>5, <1>6, TrimKeeps

(* Bytes w + 1 to w + n are written.                                       *)
LEMMA PutKeeps ==
    ASSUME NEW q, NEW w \in Nat, InQueue(q, w), NEW t \in Nat, NEW n \in Nat
    PROVE  LET p == Put(q, t, [k \in 1..n |-> w + k])
           IN  /\ InQueue(p, w + n)
               /\ \A x \in Int : x <= w /\ Before(x, q) => Before(x, p)
<1>1. PICK d : d = [k \in 1..n |-> w + k]
  OBVIOUS
<1>2. d \in Seq(Nat) /\ Len(d) = n /\ \A k \in 1..n : d[k] = w + k
  BY <1>1
<1>3. QueueType(q) /\ q.skip \in Nat /\ InStep(Sounds(q))
  BY Waiting DEF InQueue
<1>4. PICK m \in Nat : m = Size(q)
  BY <1>3, Waiting
<1>5. PICK s \in 0..n : s = Smaller(n, q.skip)
  BY <1>3 DEF Smaller
<1>6. s <= q.skip /\ (s = n \/ s = q.skip)
  BY <1>3, <1>5 DEF Smaller
<1>7. PICK rest : rest = [k \in 1..(n - s) |-> [at |-> t, data |-> d[s + k]]]
  OBVIOUS
<1>8. /\ rest \in Seq(Byte) /\ Len(rest) = n - s
      /\ \A k \in 1..(n - s) : rest[k].data = w + s + k
  <2>1. ASSUME NEW k \in 1..(n - s)
        PROVE  /\ d[s + k] = w + s + k /\ d[s + k] \in Nat \ {0}
    <3>1. s + k \in 1..n
      BY <1>5
    <3> QED
      BY <1>2, <3>1
  <2>2. PICK l \in Nat : l = n - s
    BY <1>5
  <2>3. \A k \in 1..l : [at |-> t, data |-> d[s + k]] \in Byte
    BY <2>1, <2>2 DEF Byte
  <2>4. rest = [k \in 1..l |-> [at |-> t, data |-> d[s + k]]]
    BY <1>7, <2>2
  <2>5. rest \in Seq(Byte) /\ Len(rest) = l
    <3>1. \A k \in 1..l : rest[k] \in Byte
      BY <2>3, <2>4
    <3>2. rest = [k \in 1..l |-> rest[k]]
      BY <2>4, Zenon
    <3> QED
      BY <3>1, <3>2
  <2>6. \A k \in 1..l : rest[k].data = d[s + k]
    BY <2>4
  <2> QED
    BY <2>1, <2>2, <2>5, <2>6
<1>9. PICK kept : kept = [q EXCEPT !.skip = @ - s, !.expired = @ + s]
  OBVIOUS
<1>10. PICK p : p = Put(q, t, d)
  OBVIOUS
<1>11. p = IF rest = <<>> THEN kept
           ELSE Trim([kept EXCEPT !.bytes = @ \o rest])
  BY <1>2, <1>5, <1>7, <1>9, <1>10 DEF Put
<1>12. kept = [bytes |-> q.bytes, live |-> q.live, primed |-> q.primed,
               skip |-> q.skip - s, dropped |-> q.dropped,
               expired |-> q.expired + s]
  BY <1>3, <1>9 DEF QueueType
<1>13. q.skip - s \in Nat
  BY <1>3, <1>5, <1>6
<1>14. Whole(w + q.skip - m) /\ (m > 0 => q.skip = 0)
  BY <1>4 DEF InQueue
<1>15. CASE rest = <<>>
  <2>1. s = n
    BY <1>5, <1>8, <1>15
  <2>2. p = kept
    BY <1>11, <1>15
  <2>3. QueueType(p) /\ p.bytes = q.bytes /\ p.skip = q.skip - s
    BY <1>3, <1>12, <1>13, <2>2 DEF QueueType
  <2>4. Size(p) = m /\ Sounds(p) = Sounds(q)
    BY <1>4, <2>3 DEF Size, Sounds
  <2>5. w + n + p.skip - m = w + q.skip - m
    BY <1>3, <2>1, <2>3
  <2>6. ASSUME m > 0 PROVE p.skip = 0 /\ p.bytes[m].data = w + n
    <3>1. q.skip = 0 /\ q.bytes[m].data = w
      BY <1>4, <2>6 DEF InQueue
    <3>2. n = 0
      BY <1>6, <2>1, <3>1
    <3> QED
      BY <2>1, <2>3, <3>1, <3>2
  <2>7. InQueue(p, w + n)
    BY <1>3, <1>14, <2>3, <2>4, <2>5, <2>6 DEF InQueue
  <2>8. \A x \in Int : Before(x, q) => Before(x, p)
    BY <1>4, <2>3, <2>4 DEF Before
  <2> QED
    BY <1>1, <1>10, <2>7, <2>8
<1>16. CASE rest # <<>>
  <2>1. s < n /\ s = q.skip
    BY <1>5, <1>6, <1>8, <1>16
  <2>2. PICK b \in Seq(Byte) : b = q.bytes /\ Len(b) = m
    BY <1>3, <1>4, Waiting DEF Size
  <2>3. PICK c \in Seq(Byte) : c = b \o rest
    BY <1>8, ConcatProperties
  <2>4. /\ Len(c) = m + (n - s)
        /\ \A k \in 1..m : c[k] = b[k]
        /\ \A k \in 1..(n - s) : c[m + k] = rest[k]
    <3>1. Len(c) = m + (n - s)
      <4>1. Len(b \o rest) = Len(b) + Len(rest)
        BY <1>8, ConcatProperties
      <4> QED
        BY <1>8, <2>2, <2>3, <4>1
    <3>2. ASSUME NEW k \in 1..m PROVE c[k] = b[k]
      <4>1. k \in 1..(Len(b) + Len(rest)) /\ k <= Len(b)
        BY <1>5, <1>8, <2>2
      <4> QED
        BY <1>8, <2>3, <4>1, ConcatProperties
    <3>3. ASSUME NEW k \in 1..(n - s) PROVE c[m + k] = rest[k]
      <4>1. /\ m + k \in 1..(Len(b) + Len(rest)) /\ ~(m + k <= Len(b))
            /\ (m + k) - Len(b) = k
        BY <1>5, <1>8, <2>2
      <4>2. c[m + k] = rest[(m + k) - Len(b)]
        BY <1>8, <2>3, <4>1, ConcatProperties
      <4> QED
        BY <4>1, <4>2
    <3> QED
      BY <3>1, <3>2, <3>3
  <2>5. PICK r : r = [kept EXCEPT !.bytes = @ \o rest]
    OBVIOUS
  <2>6. /\ r = [bytes |-> c, live |-> q.live, primed |-> q.primed,
                skip |-> q.skip - s, dropped |-> q.dropped,
                expired |-> q.expired + s]
    BY <1>12, <2>2, <2>3, <2>5
  <2>7. QueueType(r) /\ r.bytes = c /\ r.skip = 0
    BY <1>3, <1>13, <2>1, <2>6 DEF QueueType, Byte
  <2>8. Size(r) = m + (n - s)
    BY <2>4, <2>7 DEF Size
  <2>9. PICK v \in Nat : v = w + s
    BY <1>5
  <2>10. /\ Sounds(q) \in Seq(Nat) /\ Len(Sounds(q)) = m
         /\ \A k \in 1..m : Sounds(q)[k] = q.bytes[k].data
         /\ Sounds(r) \in Seq(Nat) /\ Len(Sounds(r)) = m + (n - s)
         /\ \A k \in 1..(m + (n - s)) : Sounds(r)[k] = c[k].data
    BY <1>3, <1>4, <2>7, <2>8, Waiting
  <2>11. \A k \in 1..m : Sounds(r)[k] = Sounds(q)[k]
    <3>1. ASSUME NEW k \in 1..m PROVE Sounds(r)[k] = Sounds(q)[k]
      <4>1. k \in 1..(m + (n - s))
        BY <1>5
      <4> QED
        BY <2>2, <2>4, <2>10, <4>1
    <3> QED
      BY <3>1
  <2>12. \A k \in 1..(n - s) : Sounds(r)[m + k] = v + k
    <3>1. ASSUME NEW k \in 1..(n - s) PROVE Sounds(r)[m + k] = v + k
      <4>1. m + k \in 1..(m + (n - s))
        BY <1>5
      <4>2. Sounds(r)[m + k] = rest[k].data
        BY <2>4, <2>10, <4>1
      <4> QED
        BY <1>8, <2>9, <4>2
    <3> QED
      BY <3>1
  <2>13. m > 0 => Sounds(q)[m] = v
    <3>1. ASSUME m > 0 PROVE Sounds(q)[m] = v
      <4>1. q.bytes[m].data = w /\ m \in 1..m /\ s = 0
        BY <1>4, <1>14, <2>1, <3>1 DEF InQueue
      <4> QED
        BY <2>9, <2>10, <4>1
    <3> QED
      BY <3>1
  <2>14. \A k \in 1..m : Sounds(q)[k] <= v
    <3>1. ASSUME NEW k \in 1..m PROVE Sounds(q)[k] <= v
      <4>1. q.bytes[k].data <= w /\ q.bytes[k].data \in Nat
        BY <1>3, <1>4, WrittenBefore, Waiting
      <4>2. w <= v
        BY <1>5, <2>9
      <4>3. q.bytes[k].data <= v
        BY <4>1, <4>2
      <4> QED
        BY <2>10, <4>3
    <3> QED
      BY <3>1
  <2>15. Whole(v - m)
    BY <1>14, <2>1, <2>9
  <2>16. PICK l \in Nat : l = n - s
    BY <1>5
  <2>17. InStep(Sounds(r))
    BY <1>3, <2>10, <2>11, <2>12, <2>13, <2>14, <2>15, <2>16, ExtendedInStep
  <2>18. r.bytes[Size(r)].data = w + n
    <3>1. l \in 1..(n - s) /\ m + l = Size(r)
      BY <2>1, <2>8, <2>16
    <3>2. c[m + l] = rest[l] /\ rest[l].data = w + s + l
      BY <1>8, <2>4, <3>1
    <3>3. w + s + l = w + n
      BY <1>5, <2>16
    <3> QED
      BY <2>7, <3>1, <3>2, <3>3
  <2>19. Whole(w + n + r.skip - Size(r))
    <3>1. w + n + r.skip - Size(r) = v - m
      BY <1>5, <2>7, <2>8, <2>9
    <3> QED
      BY <2>15, <3>1
  <2>20. InQueue(r, w + n)
    BY <2>7, <2>17, <2>18, <2>19 DEF InQueue
  <2>21. ASSUME NEW x \in Int, x <= w, Before(x, q) PROVE Before(x, r)
    <3>1. ASSUME NEW k \in 1..(m + (n - s)) PROVE x < c[k].data
      <4>1. CASE k <= m
        <5>1. k \in 1..m
          BY <4>1
        <5> QED
          BY <1>4, <2>2, <2>4, <2>21, <5>1 DEF Before
      <4>2. CASE k > m
        <5>1. k - m \in 1..(n - s) /\ m + (k - m) = k
          BY <1>5, <4>2
        <5>2. c[m + (k - m)] = rest[k - m] /\ rest[k - m].data = w + s + (k - m)
          BY <1>8, <2>4, <5>1
        <5> QED
          BY <1>5, <2>21, <4>2, <5>1, <5>2
      <4> QED
        BY <1>5, <4>1, <4>2
    <3> QED
      BY <2>7, <2>8, <3>1 DEF Before
  <2>22. p = Trim(r)
    BY <1>11, <1>16, <2>5
  <2>23. w + n \in Nat
    OBVIOUS
  <2>24. InQueue(p, w + n) /\ \A x \in Int : Before(x, r) => Before(x, p)
    BY <2>20, <2>22, <2>23, TrimKeeps
  <2> QED
    BY <1>1, <1>10, <2>21, <2>24
<1> QED
  BY <1>15, <1>16

----------------------------------------------------------------------------
(* Samples stay whole *)

LEMMA InitSamples == Init => SampleInv
<1> SUFFICES ASSUME Init PROVE SampleInv
  OBVIOUS
<1>1. PICK live : pmout = Empty(live)
  BY DEF Init
<1>2. /\ pmout = [bytes |-> <<>>, live |-> live, primed |-> FALSE, skip |-> 0,
                  dropped |-> 0, expired |-> 0]
  BY <1>1 DEF Empty
<1>3. QueueType(pmout) /\ Size(pmout) = 0 /\ pmout.skip = 0
  BY <1>2 DEF QueueType, Size
<1>4. Sounds(pmout) \in Seq(Nat) /\ Len(Sounds(pmout)) = 0
  BY <1>3, Waiting
<1>5. InStep(Sounds(pmout))
  BY <1>4 DEF InStep
<1>6. written = 0 /\ sentBytes = <<>>
  BY DEF Init
<1>7. InQueue(pmout, written)
  BY <1>3, <1>5, <1>6, NothingIsWhole DEF InQueue
<1>8. InStep(sentBytes)
  BY <1>6 DEF InStep
<1> QED
  BY <1>6, <1>7, <1>8, NothingIsWhole DEF SampleInv, SamplesStayWhole

LEMMA Associates ==
    ASSUME NEW s \in Seq(Nat), NEW g \in Seq(Nat), NEW z \in Seq(Nat)
    PROVE  (s \o g) \o z = s \o (g \o z)
  BY ConcatAssociative

(* A frame: what the queue gives, and silence to its end.                  *)
LEMMA EncodeSamples ==
    ASSUME SampleInv, TypeOK, Encode, written' = written
    PROVE  SampleInv'
<1>1. PICK w \in Nat : w = written
  BY DEF SampleInv
<1>2. PICK g : g = Given(pmout, now)
  OBVIOUS
<1>3. now \in Nat /\ InQueue(pmout, w)
  BY <1>1 DEF SampleInv, TypeOK
<1>4. PICK r : r = Get(pmout, now)
  OBVIOUS
<1>5. /\ InQueue(r, w) /\ \A x \in Int : Before(x, pmout) => Before(x, r)
      /\ g \in Seq(Nat) /\ InStep(g) /\ Len(g) <= Frame
      /\ \A k \in 1..Len(g) :
            /\ g[k] <= w /\ Before(g[k], r)
            /\ \A x \in Int : Before(x, pmout) => x < g[k]
  BY <1>2, <1>3, <1>4, GetKeeps
<1>6. PICK f \in Nat : f = Frame /\ Whole(f)
  BY Limits
<1>7. PICK n \in 0..f : n = Len(g)
  BY <1>5, <1>6
<1>8. PICK z : z = [k \in 1..(f - n) |-> 0]
  OBVIOUS
<1>9. z \in Seq(Nat) /\ Len(z) = f - n /\ \A k \in 1..(f - n) : z[k] = 0
  <2>1. f - n \in Nat
    BY <1>7
  <2> QED
    BY <1>8, <2>1
<1>10. PICK frame \in Seq(Nat) : frame = g \o z
  BY <1>5, <1>9, ConcatProperties
<1>11. /\ Len(frame) = f /\ \A k \in 1..n : frame[k] = g[k]
       /\ \A k \in 1..f : k > n => frame[k] = 0
  <2>1. Len(frame) = n + (f - n) /\ n + (f - n) = f
    BY <1>5, <1>7, <1>9, <1>10
  <2>2. \A k \in 1..n : frame[k] = g[k]
    BY <1>5, <1>7, <1>9, <1>10
  <2>3. ASSUME NEW k \in 1..f, k > n PROVE frame[k] = 0
    <3>1. k - n \in 1..(f - n) /\ n + (k - n) = k
      BY <1>7, <2>3
    <3>2. frame[n + (k - n)] = z[k - n]
      BY <1>5, <1>7, <1>9, <1>10, <3>1
    <3> QED
      BY <1>9, <3>1, <3>2
  <2> QED
    BY <2>1, <2>2, <2>3
<1>12. InStep(frame)
  <2>1. ASSUME NEW k \in 1..f, frame[k] # 0
        PROVE  k \in 1..n /\ frame[k] = g[k]
    BY <1>7, <1>11, <2>1
  <2>2. ASSUME NEW k \in 1..f, frame[k] # 0
        PROVE  /\ Whole(frame[k] - k)
               /\ (Whole(k - 1) \/ frame[k - 1] = frame[k] - 1)
    <3>1. k \in 1..n /\ frame[k] = g[k] /\ g[k] # 0
      BY <2>1, <2>2
    <3>2. Whole(g[k] - k) /\ (Whole(k - 1) \/ g[k - 1] = g[k] - 1)
      BY <1>5, <1>7, <3>1 DEF InStep
    <3>3. ASSUME ~Whole(k - 1) PROVE frame[k - 1] = g[k - 1]
      <4>1. k # 1
        BY <3>3, NothingIsWhole
      <4>2. k - 1 \in 1..n
        BY <3>1, <4>1
      <4> QED
        BY <1>11, <4>2
    <3> QED
      BY <3>1, <3>2, <3>3
  <2>3. ASSUME NEW j \in 1..f, NEW k \in 1..f,
               j < k, frame[j] # 0, frame[k] # 0
        PROVE  frame[j] < frame[k]
    <3>1. /\ j \in 1..n /\ frame[j] = g[j] /\ k \in 1..n /\ frame[k] = g[k]
      BY <2>1, <2>3
    <3> QED
      BY <1>5, <1>7, <2>3, <3>1 DEF InStep
  <2> QED
    BY <1>11, <2>2, <2>3 DEF InStep
<1>13. PICK s \in Seq(Nat) : s = sentBytes /\ InStep(s) /\ Whole(Len(s))
  BY DEF SampleInv, SamplesStayWhole
<1>14. PICK u \in Seq(Nat) : u = s \o frame
  BY ConcatProperties
<1>15. /\ Len(u) = Len(s) + Len(frame)
       /\ \A k \in 1..Len(s) : u[k] = s[k]
       /\ \A k \in 1..Len(frame) : u[Len(s) + k] = frame[k]
  BY <1>14
<1>16. \A k \in 1..Len(s) : s[k] <= w /\ Before(s[k], pmout) /\ s[k] \in Int
  BY <1>1, <1>13 DEF SampleInv
<1>17. ASSUME NEW j \in 1..Len(s), NEW k \in 1..Len(frame),
              s[j] # 0, frame[k] # 0
       PROVE  s[j] < frame[k]
  <2>1. k \in 1..n /\ frame[k] = g[k]
    BY <1>7, <1>11, <1>17
  <2>2. \A x \in Int : Before(x, pmout) => x < g[k]
    BY <1>5, <1>7, <2>1
  <2> QED
    BY <1>16, <2>1, <2>2
<1>18. InStep(u)
  BY <1>12, <1>13, <1>15, <1>17, JoinedInStep
<1>19. ASSUME NEW k \in 1..Len(u)
       PROVE  u[k] <= w /\ Before(u[k], r)
  <2>1. CASE k <= Len(s)
    <3>1. k \in 1..Len(s)
      BY <2>1
    <3> QED
      BY <1>5, <1>15, <1>16, <3>1
  <2>2. CASE k > Len(s)
    <3>1. PICK i \in 1..f : k = Len(s) + i
      <4>1. k - Len(s) \in 1..f /\ k = Len(s) + (k - Len(s))
        BY <1>11, <1>15, <2>2
      <4> QED
        BY <4>1
    <3>2. u[k] = frame[i]
      BY <1>11, <1>15, <3>1
    <3>3. CASE i <= n
      <4>1. i \in 1..Len(g) /\ frame[i] = g[i]
        BY <1>7, <1>11, <3>3
      <4> QED
        BY <1>5, <3>2, <4>1
    <3>4. CASE i > n
      <4>1. u[k] = 0
        BY <1>11, <3>2, <3>4
      <4>2. QueueType(r)
        BY <1>5 DEF InQueue
      <4>3. ASSUME NEW h \in 1..Size(r) PROVE 0 < r.bytes[h].data
        <5>1. r.bytes[h].data \in Nat /\ r.bytes[h].data # 0
          BY <4>2, Waiting
        <5> QED
          BY <5>1
      <4> QED
        BY <4>1, <4>3 DEF Before
    <3> QED
      BY <1>7, <3>3, <3>4
  <2> QED
    BY <2>1, <2>2
<1>20. Whole(Len(u))
  <2>1. PICK a \in Nat : a = Len(s)
    OBVIOUS
  <2>2. Whole(a + f)
    BY <1>6, <1>13, <2>1, WholeSums
  <2> QED
    BY <1>11, <1>15, <2>1, <2>2
<1>21. sentBytes' = u /\ pmout' = r /\ written' = w
  <2>1. sentBytes' = (sentBytes \o Given(pmout, now))
                        \o [k \in 1..(Frame - Len(Given(pmout, now))) |-> 0]
    BY DEF Encode
  <2>2. sentBytes' = (s \o g) \o z
    BY <1>2, <1>6, <1>7, <1>8, <1>13, <2>1
  <2>3. (s \o g) \o z = s \o (g \o z)
    <3>1. s \in Seq(Nat) /\ g \in Seq(Nat) /\ z \in Seq(Nat)
      BY <1>5, <1>9, <1>13
    <3> QED
      BY <3>1, Associates
  <2> QED
    BY <1>1, <1>4, <1>10, <1>14, <2>2, <2>3 DEF Encode
<1>22. /\ written' \in Nat /\ InQueue(pmout', written')
       /\ sentBytes' \in Seq(Nat) /\ Whole(Len(sentBytes'))
       /\ InStep(sentBytes')
       /\ \A k \in 1..Len(sentBytes') :
             sentBytes'[k] <= written' /\ Before(sentBytes'[k], pmout')
  BY <1>5, <1>18, <1>19, <1>20, <1>21
<1> QED
  BY <1>22 DEF SampleInv, SamplesStayWhole

LEMMA WriteSamples ==
    ASSUME SampleInv, TypeOK, NEW n \in Sizes, Write(n)
    PROVE  SampleInv'
<1>1. PICK w \in Nat : w = written
  BY DEF SampleInv
<1>2. PICK m \in Nat : m = n
  BY SendAssumption
<1>3. now \in Nat /\ InQueue(pmout, w)
  BY <1>1 DEF SampleInv, TypeOK
<1>4. PICK p : p = Put(pmout, now, [k \in 1..m |-> w + k])
  OBVIOUS
<1>5. /\ InQueue(p, w + m)
      /\ \A x \in Int : x <= w /\ Before(x, pmout) => Before(x, p)
  BY <1>3, <1>4, PutKeeps
<1>6. pmout' = p /\ written' = w + m /\ sentBytes' = sentBytes
  BY <1>1, <1>2, <1>4 DEF Write
<1>7. PICK s \in Seq(Nat) : s = sentBytes
  BY DEF SampleInv
<1>8. ASSUME NEW k \in 1..Len(s) PROVE s[k] <= w + m /\ Before(s[k], p)
  <2>1. s[k] <= w /\ Before(s[k], pmout) /\ s[k] \in Int
    BY <1>1, <1>7 DEF SampleInv
  <2> QED
    BY <1>5, <2>1
<1>9. w + m \in Nat /\ InStep(s) /\ Whole(Len(s))
  BY <1>7 DEF SampleInv, SamplesStayWhole
<1>10. /\ written' \in Nat /\ InQueue(pmout', written')
       /\ sentBytes' \in Seq(Nat) /\ Whole(Len(sentBytes'))
       /\ InStep(sentBytes')
       /\ \A k \in 1..Len(sentBytes') :
             sentBytes'[k] <= written' /\ Before(sentBytes'[k], pmout')
  BY <1>5, <1>6, <1>7, <1>8, <1>9
<1> QED
  BY <1>10 DEF SampleInv, SamplesStayWhole

LEMMA RealtimeSamples ==
    ASSUME SampleInv, EnableRealtime
    PROVE  SampleInv'
<1>1. PICK w \in Nat : w = written
  BY DEF SampleInv
<1>2. PICK s \in Seq(Nat) : s = sentBytes
  BY DEF SampleInv
<1>3. PICK p : p = GoLive(pmout)
  OBVIOUS
<1>4. InQueue(p, w) /\ \A x \in Int : Before(x, pmout) => Before(x, p)
  BY <1>1, <1>3, GoLiveKeeps DEF SampleInv
<1>5. pmout' = p /\ written' = w /\ sentBytes' = s
  BY <1>1, <1>2, <1>3 DEF EnableRealtime, counts
<1>6. ASSUME NEW k \in 1..Len(s) PROVE s[k] <= w /\ Before(s[k], p)
  <2>1. s[k] <= w /\ Before(s[k], pmout) /\ s[k] \in Int
    BY <1>1, <1>2 DEF SampleInv
  <2> QED
    BY <1>4, <2>1
<1>7. InStep(s) /\ Whole(Len(s))
  BY <1>2 DEF SampleInv, SamplesStayWhole
<1>8. /\ written' \in Nat /\ InQueue(pmout', written')
      /\ sentBytes' \in Seq(Nat) /\ Whole(Len(sentBytes'))
      /\ InStep(sentBytes')
      /\ \A k \in 1..Len(sentBytes') :
            sentBytes'[k] <= written' /\ Before(sentBytes'[k], pmout')
  BY <1>4, <1>5, <1>6, <1>7
<1> QED
  BY <1>8 DEF SampleInv, SamplesStayWhole

LEMMA NextSamples ==
    ASSUME SampleInv, TypeOK, [Next]_vars
    PROVE  SampleInv'
<1> DEFINE Still == UNCHANGED <<pmout, written, sentBytes>>
<1>1. ASSUME Still PROVE SampleInv'
  <2>1. pmout' = pmout /\ written' = written /\ sentBytes' = sentBytes
    BY <1>1
  <2>2. Size(pmout)' = Size(pmout) /\ Sounds(pmout)' = Sounds(pmout)
    BY <2>1 DEF Size, Sounds
  <2>3. QueueType(pmout)' <=> QueueType(pmout)
    BY <2>1 DEF QueueType
  <2>4. InQueue(pmout, written)' <=> InQueue(pmout, written)
    BY <2>1, <2>2, <2>3 DEF InQueue, InStep, Whole
  <2>5. InStep(sentBytes)' <=> InStep(sentBytes)
    BY <2>1 DEF InStep, Whole
  <2>6. \A x : Before(x, pmout)' <=> Before(x, pmout)
    BY <2>1, <2>2 DEF Before
  <2>7. \A k \in 1..Len(sentBytes) :
           sentBytes'[k] <= written' /\ Before(sentBytes[k], pmout)'
    BY <2>1, <2>6 DEF SampleInv
  <2> QED
    BY <2>1, <2>4, <2>5, <2>7 DEF SampleInv, SamplesStayWhole, Whole
<1>2. CASE Transmit
  <2>1. CASE Encode
    <3>1. written' = written
      BY <1>2 DEF Transmit, counts
    <3> QED
      BY <2>1, <3>1, EncodeSamples
  <2>2. CASE ~Encode
    <3>1. Still
      BY <1>2, <2>2 DEF Transmit, counts, Look, Hold, Again, Turn, Event,
                        Begin, Refused, Report, FrameDue, Epoch, SendFrame,
                        Pace, Exit
    <3> QED
      BY <1>1, <3>1
  <2> QED
    BY <2>1, <2>2
<1>3. CASE \E n \in Sizes : Write(n)
  BY <1>3, WriteSamples
<1>4. CASE EnableRealtime
  BY <1>4, RealtimeSamples
<1>5. CASE \/ SendNow \/ ReportNow \/ Dial \/ SetDirection \/ Stop \/ Start
           \/ Tick
  <2>1. Still
    BY <1>5 DEF SendNow, ReportNow, Dial, SetDirection, Stop, Start, Tick, counts
  <2> QED
    BY <1>1, <2>1
<1>6. CASE UNCHANGED vars
  <2>1. Still
    BY <1>6 DEF vars, counts
  <2> QED
    BY <1>1, <2>1
<1> QED
  BY <1>2, <1>3, <1>4, <1>5, <1>6 DEF Next

(* However writes split PCM and expiry, trimming and underruns cut it, the *)
(* bytes sent are whole samples in the order written, for any sizes of     *)
(* frames, samples and writes, and any latency: RTPAudioOutput.            *)
THEOREM SamplesAreWhole == Spec => []SamplesStayWhole
<1>1. Init => SampleInv
  BY InitSamples
<1>2. SampleInv /\ IInv /\ [Next]_vars => SampleInv'
  BY NextSamples DEF IInv
<1>3. SampleInv => SamplesStayWhole
  BY DEF SampleInv
<1> QED
  BY <1>1, <1>2, <1>3, Invariance, PTL DEF Spec
=============================================================================
