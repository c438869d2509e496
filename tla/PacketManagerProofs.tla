------------------------- MODULE PacketManagerProofs -------------------------
(* That RTPPacketManager is one timeline read once: its log says what its    *)
(* buffer holds, no byte is heard twice, and every call is a step of         *)
(* Playout; for any packets, reads, new streams and corrections.             *)
(*                                                                           *)
(* A buffer, a log and a timeline are compared as relations: which byte is   *)
(* at which position.                                                        *)
EXTENDS PacketManager, SequenceTheorems, WellFoundedInduction, TLAPS

(* What was received, or a part of it that may be empty.                     *)
Data == Seq(Nat \ {0})
Piece == [at : Int, data : Data]

Says(e, p, b) == Covers(e, p) /\ e.data[p - e.at + 1] = b
Logs(log, p, b) == \E e \in log : Says(e, p, b)
Holds(m, p, b) ==
    /\ m.offset <= p /\ p < m.offset + Len(m.buffer)
    /\ m.buffer[p - m.offset + 1] = b

(* The byte b is at position p of what is yet to be read.                    *)
Has(m, p, b) == Cursor(m) <= p /\ b # Silence /\ Holds(m, p, b)

Managers == [offset : Nat, buffer : Seq(Nat), pos : Nat,
             log : SUBSET Piece, ready : BOOLEAN, started : BOOLEAN]

(* A packet has some number of bytes.                                        *)
USE LargestAssumption

Proper(e) == e.at \in Nat /\ e.data # <<>> /\ Len(e.data) <= Largest
Apart(log) == \A a, b \in log : a = b \/ End(a) <= b.at \/ End(b) <= a.at

(* What the log says of an unread position is in the buffer; what the log    *)
(* has forgotten is more than Span before another unread byte.               *)
LogHeld(m) == \A p \in Int : \A b \in Nat \ {0} :
    Cursor(m) <= p /\ Logs(m.log, p, b) => Holds(m, p, b)
TooOld(m, p) == \E q \in Int : q - p > Span /\ \E b \in Nat : Has(m, q, b)
Forgotten(m) == \A p \in Int : \A b \in Nat \ {0} :
    Has(m, p, b) => Logs(m.log, p, b) \/ TooOld(m, p)

(* The inductive invariant of the manager.                                   *)
Sound(m) ==
    /\ m \in Managers
    /\ \A e \in m.log : Proper(e) /\ End(e) <= m.offset + Span + Largest
    /\ Apart(m.log) /\ LogHeld(m) /\ Forgotten(m)
    /\ ~m.ready => m.buffer = <<>> /\ m.log = {} /\ ~m.started
    /\ m.ready /\ ~m.started =>
          m.pos = 0 /\ \A e \in m.log : m.offset <= e.at

-----------------------------------------------------------------------------
(* Parts of entries.                                                         *)

LEMMA EndIs ==
    ASSUME NEW e \in Piece
    PROVE  /\ End(e) \in Int /\ e.at \in Int /\ Len(e.data) \in Nat
           /\ End(e) = e.at + Len(e.data) /\ e.at <= End(e)
           /\ e.data \in Seq(Nat \ {0})
           /\ \A k \in 1..Len(e.data) : e.data[k] \in Nat \ {0}
  BY DEF Piece, Data, End

LEMMA SubSeqAny ==
    ASSUME NEW S, NEW s \in Seq(S), NEW i \in 1..(Len(s) + 1),
           NEW j \in Int, j <= Len(s)
    PROVE  /\ SubSeq(s, i, j) \in Seq(S)
           /\ Len(SubSeq(s, i, j)) = IF i <= j THEN j - i + 1 ELSE 0
           /\ \A k \in 1..(j - i + 1) : SubSeq(s, i, j)[k] = s[i + k - 1]
<1>1. CASE i <= j
  <2>1. i \in 1..(Len(s) + 1) /\ j \in (i - 1)..Len(s)
    BY <1>1
  <2> QED
    BY <2>1, <1>1, SubSeqProperties
<1>2. CASE j < i
  <2>1. SubSeq(s, i, j) = <<>>
    BY <1>2, SubSeqEmpty
  <2> QED
    BY <2>1, <1>2
<1> QED
  BY <1>1, <1>2

LEMMA Slice ==
    ASSUME NEW S, NEW s \in Seq(S), NEW i \in Nat, NEW n \in Nat,
           n = 0 \/ i + n <= Len(s)
    PROVE  /\ SubSeq(s, i + 1, i + n) \in Seq(S)
           /\ Len(SubSeq(s, i + 1, i + n)) = n
           /\ \A k \in 1..n : SubSeq(s, i + 1, i + n)[k] = s[i + k]
<1>0. Len(s) \in Nat
  BY LenProperties
<1>1. CASE n = 0
  <2>1. i + n < i + 1 /\ i + 1 \in Int /\ i + n \in Int
    BY <1>1
  <2>2. SubSeq(s, i + 1, i + n) = <<>>
    BY <2>1, SubSeqEmpty
  <2> QED
    BY <2>2, <1>1
<1>2. CASE n > 0
  <2>1. PICK a \in 1..(Len(s) + 1) : a = i + 1
    BY <1>0, <1>2
  <2>2. PICK b \in Int : b = i + n
    OBVIOUS
  <2>3. b <= Len(s) /\ a <= b /\ b - a + 1 = n
    BY <2>1, <2>2, <1>2
  <2>4. PICK q : q = SubSeq(s, a, b)
    OBVIOUS
  <2>5. /\ q \in Seq(S) /\ Len(q) = n
        /\ \A k \in 1..n : q[k] = s[a + k - 1]
    <3>1. /\ q \in Seq(S) /\ Len(q) = IF a <= b THEN b - a + 1 ELSE 0
          /\ \A k \in 1..(b - a + 1) : q[k] = s[a + k - 1]
      BY <2>3, <2>4, SubSeqAny
    <3> QED
      BY <3>1, <2>3
  <2>6. \A k \in 1..n : a + k - 1 = i + k
    BY <2>1
  <2> QED
    BY <2>1, <2>2, <2>4, <2>5, <2>6
<1>3. n = 0 \/ n > 0
  OBVIOUS
<1> QED
  BY <1>1, <1>2, <1>3

LEMMA PartIs ==
    ASSUME NEW e \in Piece, NEW lo \in Int, NEW hi \in Int
    PROVE  /\ Part(e, lo, hi).at = IF lo > e.at THEN lo ELSE e.at
           /\ Part(e, lo, hi) \in Piece
           /\ Len(Part(e, lo, hi).data) <= Len(e.data)
           /\ Len(Part(e, lo, hi).data) > 0 =>
                 End(Part(e, lo, hi)) = IF hi < End(e) THEN hi ELSE End(e)
           /\ \A p \in Int : \A b :
                 Says(Part(e, lo, hi), p, b) <=> lo <= p /\ p < hi /\ Says(e, p, b)
<1>0. /\ End(e) \in Int /\ e.at \in Int /\ Len(e.data) \in Nat
      /\ End(e) = e.at + Len(e.data) /\ e.data \in Seq(Nat \ {0})
  BY EndIs
<1>1. PICK first \in Int : first = IF lo > e.at THEN lo ELSE e.at
  BY <1>0
<1>2. PICK last \in Int : last = IF hi < End(e) THEN hi ELSE End(e)
  BY <1>0
<1>3. PICK i \in Int : i = first - e.at + 1
  BY <1>0, <1>1
<1>4. PICK j \in Int : j = last - e.at
  BY <1>0, <1>2
<1>5. PICK q : q = SubSeq(e.data, i, j)
  OBVIOUS
<1>6. Part(e, lo, hi) = [at |-> first, data |-> q]
  BY <1>1, <1>2, <1>3, <1>4, <1>5 DEF Part
<1>7. i >= 1 /\ j <= Len(e.data)
  <2>1. first >= e.at
    BY <1>0, <1>1
  <2>2. last <= e.at + Len(e.data)
    BY <1>0, <1>2
  <2>3. i >= 1
    BY <2>1, <1>0, <1>3
  <2> QED
    BY <2>2, <2>3, <1>0, <1>4
<1>8. CASE i <= Len(e.data) + 1
  <2>0. i \in 1..(Len(e.data) + 1)
    BY <1>0, <1>7, <1>8
  <2>1. /\ q \in Seq(Nat \ {0})
        /\ Len(q) = IF i <= j THEN j - i + 1 ELSE 0
        /\ \A k \in 1..(j - i + 1) : q[k] = e.data[i + k - 1]
    <3>0. PICK S : S = Nat \ {0}
      OBVIOUS
    <3>1. PICK s \in Seq(S) : s = e.data
      BY <3>0, <1>0
    <3>2. i \in 1..(Len(s) + 1) /\ j <= Len(s)
      BY <3>1, <2>0, <1>7
    <3>3. /\ SubSeq(s, i, j) \in Seq(S)
          /\ Len(SubSeq(s, i, j)) = IF i <= j THEN j - i + 1 ELSE 0
          /\ \A k \in 1..(j - i + 1) : SubSeq(s, i, j)[k] = s[i + k - 1]
      BY <3>2, SubSeqAny
    <3>4. q = SubSeq(s, i, j)
      BY <3>1, <1>5
    <3> QED
      BY <3>0, <3>1, <3>3, <3>4
  <2>2. Part(e, lo, hi) \in Piece
    BY <2>1, <1>6, <1>1 DEF Piece, Data
  <2>5. PICK n \in Nat : n = Len(q)
    <3>1. q \in Seq(Nat \ {0})
      BY <2>1
    <3> QED
      BY <3>1, LenProperties
  <2>7. j - i + 1 = last - first /\ (i <= j <=> first < last)
    <3>1. e.at \in Int
      BY <1>0
    <3>2. j - i + 1 = last - first
      BY <3>1, <1>3, <1>4
    <3> QED
      BY <3>2
  <2>6. n = IF first < last THEN last - first ELSE 0
    BY <2>1, <2>5, <2>7
  <2>3. ASSUME NEW p \in Int, NEW b
        PROVE  Says(Part(e, lo, hi), p, b) <=> lo <= p /\ p < hi /\ Says(e, p, b)
    <3>1. Says(Part(e, lo, hi), p, b) <=>
             first <= p /\ p < first + n /\ q[p - first + 1] = b
      BY <1>6, <2>5 DEF Says, Covers, End
    <3>2. Says(e, p, b) <=>
             e.at <= p /\ p < End(e) /\ e.data[p - e.at + 1] = b
      BY DEF Says, Covers
    <3>3. first <= p /\ p < first + n <=>
             lo <= p /\ p < hi /\ e.at <= p /\ p < End(e)
      <4>1. first <= p <=> lo <= p /\ e.at <= p
        BY <1>0, <1>1
      <4>2. p < last <=> p < hi /\ p < End(e)
        BY <1>0, <1>2
      <4>3. first <= p /\ p < first + n <=> first <= p /\ p < last
        BY <2>6
      <4> QED
        BY <4>1, <4>2, <4>3
    <3>4. first <= p /\ p < first + n =>
             q[p - first + 1] = e.data[p - e.at + 1]
      <4>1. ASSUME first <= p, p < first + n
            PROVE  /\ p - first + 1 \in 1..(j - i + 1)
                   /\ i + (p - first + 1) - 1 = p - e.at + 1
        <5>1. first < last /\ p < last
          BY <4>1, <2>6
        <5>2. p - first + 1 \in 1..(last - first)
          BY <4>1, <5>1
        <5>3. i + (p - first + 1) - 1 = p - e.at + 1
          BY <1>0, <1>3
        <5> QED
          BY <5>2, <5>3, <2>7
      <4>2. SUFFICES ASSUME first <= p, p < first + n
                     PROVE  q[p - first + 1] = e.data[p - e.at + 1]
        OBVIOUS
      <4>3. PICK k \in 1..(j - i + 1) : k = p - first + 1
        BY <4>1, <4>2
      <4>4. q[k] = e.data[i + k - 1] /\ i + k - 1 = p - e.at + 1
        BY <4>1, <4>2, <4>3, <2>1
      <4> QED
        BY <4>3, <4>4
    <3> QED
      BY <3>1, <3>2, <3>3, <3>4
  <2>4. /\ Len(q) <= Len(e.data)
        /\ Len(q) > 0 => first + Len(q) = last
    <3>1. e.at <= first /\ last <= e.at + Len(e.data)
      BY <1>0, <1>1, <1>2
    <3>2. last - first <= Len(e.data)
      BY <3>1, <1>0
    <3> QED
      BY <3>2, <2>5, <2>6, <1>0
  <2> QED
    BY <2>2, <2>3, <2>4, <1>1, <1>2, <1>6 DEF End
<1>9. CASE i > Len(e.data) + 1
  <2>1. j < i
    BY <1>0, <1>7, <1>9
  <2>2. q = <<>>
    BY <2>1, <1>5, SubSeqEmpty
  <2>3. Part(e, lo, hi) \in Piece
    BY <2>2, <1>6, <1>1 DEF Piece, Data
  <2>4. ASSUME NEW p \in Int, NEW b
        PROVE  ~Says(Part(e, lo, hi), p, b) /\ ~(lo <= p /\ p < hi /\ Says(e, p, b))
    <3>1. ~Says(Part(e, lo, hi), p, b)
      BY <1>1, <1>6, <2>2 DEF Says, Covers, End
    <3>2. lo > End(e)
      BY <1>0, <1>1, <1>3, <1>9
    <3> QED
      BY <3>1, <3>2, <1>0 DEF Says, Covers
  <2> QED
    BY <2>2, <2>3, <2>4, <1>0, <1>1, <1>6
<1> QED
  BY <1>7, <1>8, <1>9, <1>0

-----------------------------------------------------------------------------
(* Bounded sets of integers have a greatest and a least element.             *)

LEMMA LeastNat ==
    ASSUME NEW S, S \subseteq Nat, S # {}
    PROVE  \E x \in S : \A y \in S : x <= y
<1>1. PICK x \in S : \A y \in S : ~(<<y, x>> \in OpToRel(<, Nat))
  BY NatLessThanWellFounded, WFMin
<1>2. ASSUME NEW y \in S PROVE x <= y
  <2>1. x \in Nat /\ y \in Nat
    OBVIOUS
  <2>2. ~(y < x)
    BY <1>1, <2>1 DEF OpToRel
  <2> QED
    BY <2>1, <2>2
<1> QED
  BY <1>2

LEMMA GreatestInt ==
    ASSUME NEW S, S \subseteq Int, S # {}, NEW top \in Int,
           \A x \in S : x <= top
    PROVE  \E x \in S : \A y \in S : y <= x
<1> DEFINE below == {top - x : x \in S}
<1>1. below \subseteq Nat /\ below # {}
  <2>1. ASSUME NEW x \in S PROVE top - x \in Nat
    <3>1. x \in Int /\ x <= top
      OBVIOUS
    <3> QED
      BY <3>1
  <2> QED
    BY <2>1
<1>2. PICK z \in below : \A y \in below : z <= y
  BY <1>1, LeastNat
<1>3. PICK x \in S : z = top - x
  OBVIOUS
<1>4. ASSUME NEW y \in S PROVE y <= x
  <2>1. top - x <= top - y
    BY <1>2, <1>3
  <2> QED
    BY <2>1
<1> QED
  BY <1>4

-----------------------------------------------------------------------------
(* Logs.                                                                     *)

LEMMA VisibleLogs ==
    ASSUME NEW L, L \subseteq Piece, NEW p \in Int, NEW b
    PROVE  Logs(Visible(L), p, b) <=> Logs(L, p, b)
<1>1. ASSUME NEW e \in L, Says(e, p, b) PROVE e.data # <<>>
  <2>1. p >= e.at /\ p < End(e) /\ End(e) = e.at + Len(e.data) /\ e.at \in Int
    BY <1>1, EndIs DEF Says, Covers
  <2>2. Len(e.data) # 0
    BY <2>1
  <2> QED
    BY <2>2
<1> QED
  BY <1>1 DEF Logs, Visible

(* Of disjoint entries only one is at a position.                            *)
LEMMA OneSays ==
    ASSUME NEW L, L \subseteq Piece, Apart(L), NEW p \in Int,
           NEW d \in L, NEW e \in L, Covers(d, p), Covers(e, p)
    PROVE  d = e
<1>1. /\ d.at \in Int /\ End(d) \in Int /\ e.at \in Int /\ End(e) \in Int
  BY EndIs
<1>2. d.at <= p /\ p < End(d) /\ e.at <= p /\ p < End(e)
  BY DEF Covers
<1>3. d = e \/ End(d) <= e.at \/ End(e) <= d.at
  BY DEF Apart
<1> QED
  BY <1>1, <1>2, <1>3

LEMMA SaysByte ==
    ASSUME NEW e \in Piece, NEW p \in Int, Covers(e, p)
    PROVE  /\ p - e.at + 1 \in 1..Len(e.data)
           /\ e.data[p - e.at + 1] \in Nat \ {0}
           /\ Says(e, p, e.data[p - e.at + 1])
<1>1. /\ e.at \in Int /\ Len(e.data) \in Nat /\ End(e) = e.at + Len(e.data)
      /\ \A k \in 1..Len(e.data) : e.data[k] \in Nat \ {0}
  BY EndIs
<1>2. p - e.at + 1 \in 1..Len(e.data)
  BY <1>1 DEF Covers
<1> QED
  BY <1>1, <1>2 DEF Says

(* Two parts of disjoint entries, and parts of one entry before and after a  *)
(* position, are disjoint.                                                   *)
LEMMA PartsApart ==
    ASSUME NEW d \in Piece, NEW e \in Piece,
           NEW lo \in Int, NEW hi \in Int, NEW low \in Int, NEW high \in Int,
           \/ End(d) <= e.at \/ End(e) <= d.at
           \/ hi <= low \/ high <= lo,
           Part(d, lo, hi).data # <<>>, Part(e, low, high).data # <<>>
    PROVE  \/ End(Part(d, lo, hi)) <= Part(e, low, high).at
           \/ End(Part(e, low, high)) <= Part(d, lo, hi).at
<1>1. PICK q \in Piece : q = Part(d, lo, hi)
  BY PartIs
<1>2. PICK r \in Piece : r = Part(e, low, high)
  BY PartIs
<1>3. /\ d.at \in Int /\ End(d) \in Int /\ e.at \in Int /\ End(e) \in Int
      /\ q.at \in Int /\ End(q) \in Int /\ r.at \in Int /\ End(r) \in Int
      /\ Len(q.data) \in Nat /\ Len(r.data) \in Nat
      /\ q.data \in Seq(Nat \ {0}) /\ r.data \in Seq(Nat \ {0})
  BY EndIs
<1>4. Len(q.data) > 0 /\ Len(r.data) > 0
  <2>1. q.data # <<>> /\ r.data # <<>>
    BY <1>1, <1>2
  <2>2. Len(q.data) # 0
    BY <2>1, <1>3, EmptySeq
  <2>3. Len(r.data) # 0
    BY <2>1, <1>3, EmptySeq
  <2>4. Len(q.data) \in Nat /\ Len(r.data) \in Nat
    BY <1>3
  <2> QED
    BY <2>2, <2>3, <2>4
<1>5. /\ q.at = IF lo > d.at THEN lo ELSE d.at
      /\ End(q) = IF hi < End(d) THEN hi ELSE End(d)
  BY <1>1, <1>4, PartIs
<1>6. /\ r.at = IF low > e.at THEN low ELSE e.at
      /\ End(r) = IF high < End(e) THEN high ELSE End(e)
  BY <1>2, <1>4, PartIs
<1>7. q.at >= lo /\ q.at >= d.at /\ End(q) <= hi /\ End(q) <= End(d)
  BY <1>5, <1>3
<1>8. r.at >= low /\ r.at >= e.at /\ End(r) <= high /\ End(r) <= End(e)
  BY <1>6, <1>3
<1>9. End(q) <= r.at \/ End(r) <= q.at
  <2>1. CASE End(d) <= e.at
    BY <2>1, <1>3, <1>7, <1>8
  <2>2. CASE End(e) <= d.at
    BY <2>2, <1>3, <1>7, <1>8
  <2>3. CASE hi <= low
    BY <2>3, <1>3, <1>7, <1>8
  <2>4. CASE high <= lo
    BY <2>4, <1>3, <1>7, <1>8
  <2> QED
    BY <2>1, <2>2, <2>3, <2>4
<1> QED
  BY <1>1, <1>2, <1>9

-----------------------------------------------------------------------------
(* The buffer.                                                               *)

LEMMA ManagerIs ==
    ASSUME NEW m \in Managers
    PROVE  /\ m.offset \in Nat /\ m.pos \in Nat /\ Cursor(m) \in Nat
           /\ Cursor(m) = m.offset + m.pos
           /\ m.buffer \in Seq(Nat) /\ Len(m.buffer) \in Nat
           /\ m.log \subseteq Piece /\ m.ready \in BOOLEAN /\ m.started \in BOOLEAN
           /\ m = [offset |-> m.offset, buffer |-> m.buffer, pos |-> m.pos,
                   log |-> m.log, ready |-> m.ready, started |-> m.started]
<1>1. m.buffer \in Seq(Nat)
  BY DEF Managers
<1>2. Len(m.buffer) \in Nat
  BY <1>1, LenProperties
<1> QED
  BY <1>1, <1>2 DEF Managers, Cursor

(* A byte is of one value only.                                              *)
LEMMA HoldsOne ==
    ASSUME NEW m, NEW p, NEW b, NEW c, Holds(m, p, b), Holds(m, p, c)
    PROVE  b = c
  BY DEF Holds

LEMMA HoldsByte ==
    ASSUME NEW m \in Managers, NEW p \in Int, NEW b, Holds(m, p, b)
    PROVE  b \in Nat /\ p - m.offset + 1 \in 1..Len(m.buffer)
<1>1. /\ m.offset \in Nat /\ m.buffer \in Seq(Nat) /\ Len(m.buffer) \in Nat
  BY ManagerIs
<1>2. p - m.offset + 1 \in 1..Len(m.buffer) /\ m.buffer[p - m.offset + 1] = b
  BY <1>1 DEF Holds
<1> QED
  BY <1>1, <1>2

LEMMA CompactIs ==
    ASSUME NEW m \in Managers, m.ready
    PROVE  /\ Compact(m) \in Managers /\ Compact(m).ready
           /\ Compact(m).started = m.started
           /\ Compact(m).offset = Cursor(m) /\ Compact(m).pos = 0
           /\ Cursor(Compact(m)) = Cursor(m)
           /\ Compact(m).log = {e \in m.log : m.pos = 0 \/ End(e) > Cursor(m)}
           /\ \A p \in Int : \A b : Cursor(m) <= p =>
                 (Holds(Compact(m), p, b) <=> Holds(m, p, b))
<1>0. /\ m.offset \in Nat /\ m.pos \in Nat /\ Cursor(m) = m.offset + m.pos
      /\ m.buffer \in Seq(Nat) /\ Len(m.buffer) \in Nat
  BY ManagerIs
<1>1. CASE m.pos = 0
  <2>1. Compact(m) = m
    BY <1>1 DEF Compact
  <2> QED
    BY <2>1, <1>0, <1>1
<1>2. CASE m.pos # 0
  <2>1. PICK q : q = SubSeq(m.buffer, m.pos + 1, Len(m.buffer))
    OBVIOUS
  <2>2. Compact(m) = [offset |-> Cursor(m), buffer |-> q, pos |-> 0,
                      log |-> {e \in m.log : End(e) > Cursor(m)},
                      ready |-> m.ready, started |-> m.started]
    BY <1>2, <2>1, ManagerIs DEF Compact, Managers
  <2>3. PICK n \in Nat : n = IF m.pos < Len(m.buffer) THEN Len(m.buffer) - m.pos
                             ELSE 0
    BY <1>0
  <2>4. /\ q \in Seq(Nat) /\ Len(q) = n
        /\ \A k \in 1..n : q[k] = m.buffer[m.pos + k]
    <3>1. CASE m.pos < Len(m.buffer)
      <4>1. m.pos + n = Len(m.buffer)
        BY <3>1, <2>3, <1>0
      <4>2. PICK s \in Seq(Nat) : s = m.buffer
        BY <1>0
      <4>3. PICK i \in Nat : i = m.pos
        BY <1>0
      <4>4. n = 0 \/ i + n <= Len(s)
        BY <4>1, <4>2, <4>3, <1>0
      <4>5. /\ SubSeq(s, i + 1, i + n) \in Seq(Nat)
            /\ Len(SubSeq(s, i + 1, i + n)) = n
            /\ \A k \in 1..n : SubSeq(s, i + 1, i + n)[k] = s[i + k]
        BY <4>4, Slice
      <4> QED
        BY <4>1, <4>2, <4>3, <4>5, <2>1
    <3>2. CASE ~(m.pos < Len(m.buffer))
      <4>1. q = <<>>
        BY <3>2, <2>1, <1>0, SubSeqEmpty
      <4> QED
        BY <4>1, <3>2, <2>3
    <3> QED
      BY <3>1, <3>2
  <2>5. Compact(m) \in Managers
    BY <2>2, <2>4, <1>0, ManagerIs DEF Managers
  <2>6. ASSUME NEW p \in Int, NEW b, Cursor(m) <= p
        PROVE  Holds(Compact(m), p, b) <=> Holds(m, p, b)
    <3>1. Holds(Compact(m), p, b) <=>
             /\ Cursor(m) <= p /\ p < Cursor(m) + n
             /\ q[p - Cursor(m) + 1] = b
      BY <2>2, <2>4 DEF Holds
    <3>2. p < Cursor(m) + n <=> p < m.offset + Len(m.buffer)
      BY <2>3, <2>6, <1>0
    <3>3. p < Cursor(m) + n =>
             q[p - Cursor(m) + 1] = m.buffer[p - m.offset + 1]
      <4>1. ASSUME p < Cursor(m) + n
            PROVE  /\ p - Cursor(m) + 1 \in 1..n
                   /\ m.pos + (p - Cursor(m) + 1) = p - m.offset + 1
        BY <4>1, <2>6, <1>0
      <4> QED
        BY <4>1, <2>4
    <3> QED
      <4>1. m.offset <= p
        BY <2>6, <1>0
      <4> QED
        BY <3>1, <3>2, <3>3, <2>6, <4>1 DEF Holds
  <2>7. Cursor(Compact(m)) = Cursor(m)
    <3>1. Cursor(Compact(m)) = Cursor(m) + 0
      BY <2>2 DEF Cursor
    <3> QED
      BY <3>1, <1>0
  <2>8. Compact(m).log = {e \in m.log : m.pos = 0 \/ End(e) > Cursor(m)}
    BY <2>2, <1>2
  <2> QED
    BY <2>2, <2>5, <2>6, <2>7, <2>8
<1> QED
  BY <1>1, <1>2

LEMMA QuietIs ==
    ASSUME NEW n \in Int
    PROVE  /\ Quiet(n) \in Seq(Nat)
           /\ Len(Quiet(n)) = IF n >= 0 THEN n ELSE 0
           /\ \A k \in 1..n : Quiet(n)[k] = 0
<1>1. CASE n >= 0
  BY <1>1 DEF Quiet, Silence
<1>2. CASE n < 0
  <2>1. Quiet(n) = <<>>
    BY <1>2 DEF Quiet
  <2> QED
    BY <2>1, <1>2
<1> QED
  BY <1>1, <1>2

(* read() returns the unread bytes of the next positions.                    *)
LEMMA TakenIs ==
    ASSUME NEW m \in Managers, NEW n \in Nat
    PROVE  /\ Taken(m, n) \in Seq(Nat) /\ Len(Taken(m, n)) = n
           /\ \A k \in 1..n : \A b \in Nat \ {0} :
                 Taken(m, n)[k] = b <=> Has(m, Cursor(m) + k - 1, b)
<1>0. /\ m.offset \in Nat /\ m.pos \in Nat /\ Cursor(m) = m.offset + m.pos
      /\ m.buffer \in Seq(Nat) /\ Len(m.buffer) \in Nat
  BY ManagerIs
<1>1. PICK have \in Nat : have = IF n < Available(m) THEN n ELSE Available(m)
  BY <1>0 DEF Available
<1>2. /\ have <= n
      /\ have > 0 => m.pos + have <= Len(m.buffer)
      /\ have < n => m.pos + have >= Len(m.buffer)
  <2>1. PICK left \in Nat : left = Available(m)
    BY <1>0 DEF Available
  <2>2. /\ left > 0 => m.pos + left = Len(m.buffer)
        /\ m.pos + left >= Len(m.buffer)
    BY <2>1, <1>0 DEF Available
  <2>3. have = IF n < left THEN n ELSE left
    BY <2>1, <1>1
  <2>4. m.pos \in Int /\ Len(m.buffer) \in Int
    BY <1>0
  <2> QED
    BY <2>2, <2>3, <2>4
<1>3. PICK q : q = SubSeq(m.buffer, m.pos + 1, m.pos + have)
  OBVIOUS
<1>4. /\ q \in Seq(Nat) /\ Len(q) = have
      /\ \A k \in 1..have : q[k] = m.buffer[m.pos + k]
  <2>1. have = 0 \/ m.pos + have <= Len(m.buffer)
    BY <1>2
  <2>2. PICK s \in Seq(Nat) : s = m.buffer
    BY <1>0
  <2>3. PICK i \in Nat : i = m.pos
    BY <1>0
  <2>4. have = 0 \/ i + have <= Len(s)
    BY <2>1, <2>2, <2>3
  <2>5. /\ SubSeq(s, i + 1, i + have) \in Seq(Nat)
        /\ Len(SubSeq(s, i + 1, i + have)) = have
        /\ \A k \in 1..have : SubSeq(s, i + 1, i + have)[k] = s[i + k]
    BY <2>4, Slice
  <2> QED
    BY <2>2, <2>3, <2>5, <1>3
<1>5. PICK z \in Seq(Nat) : z = Quiet(n - have) /\ Len(z) = n - have
                            /\ \A k \in 1..(n - have) : z[k] = 0
  <2>1. PICK r \in Nat : r = n - have
    BY <1>2
  <2>2. /\ Quiet(r) \in Seq(Nat) /\ Len(Quiet(r)) = r
        /\ \A k \in 1..r : Quiet(r)[k] = 0
    BY QuietIs
  <2> QED
    BY <2>1, <2>2
<1>6. Taken(m, n) = q \o z
  BY <1>1, <1>3, <1>5 DEF Taken
<1>7. /\ Taken(m, n) \in Seq(Nat) /\ Len(Taken(m, n)) = n
      /\ \A k \in 1..n : Taken(m, n)[k] = IF k <= have THEN q[k] ELSE z[k - have]
  <2>1. /\ q \o z \in Seq(Nat) /\ Len(q \o z) = have + (n - have)
        /\ \A k \in 1..(have + (n - have)) :
              (q \o z)[k] = IF k <= have THEN q[k] ELSE z[k - have]
    <3>1. PICK r \in Nat : r = n - have
      BY <1>2
    <3>2. z \in Seq(Nat) /\ Len(z) = r
      BY <3>1, <1>5
    <3>3. q \in Seq(Nat) /\ Len(q) = have
      BY <1>4
    <3>4. /\ q \o z \in Seq(Nat) /\ Len(q \o z) = Len(q) + Len(z)
          /\ \A k \in 1..(Len(q) + Len(z)) :
                (q \o z)[k] = IF k <= Len(q) THEN q[k] ELSE z[k - Len(q)]
      BY <3>2, <3>3, ConcatProperties
    <3> QED
      BY <3>1, <3>2, <3>3, <3>4
  <2>2. have + (n - have) = n
    OBVIOUS
  <2> QED
    BY <2>1, <2>2, <1>6
<1>8. ASSUME NEW k \in 1..n, NEW b \in Nat \ {0}
      PROVE  Taken(m, n)[k] = b <=> Has(m, Cursor(m) + k - 1, b)
  <2>1. Has(m, Cursor(m) + k - 1, b) <=>
           k <= Len(m.buffer) - m.pos /\ m.buffer[m.pos + k] = b
    <3>1. PICK p \in Int : p = Cursor(m) + k - 1
      BY <1>0
    <3>2. /\ Cursor(m) <= p /\ m.offset <= p
          /\ p - m.offset + 1 = m.pos + k
          /\ p < m.offset + Len(m.buffer) <=> k <= Len(m.buffer) - m.pos
      <4>1. p = m.offset + m.pos + k - 1 /\ k \in Int /\ k >= 1
        BY <3>1, <1>0
      <4>2. m.offset \in Int /\ m.pos \in Int /\ Len(m.buffer) \in Int
            /\ m.offset >= 0 /\ m.pos >= 0
        BY <1>0
      <4>3. p - m.offset + 1 = m.pos + k /\ m.offset <= p
        <5>1. PICK off \in Int : off = m.offset
          BY <4>2
        <5>2. PICK pos \in Int : pos = m.pos /\ pos >= 0
          BY <4>2
        <5>3. p = off + pos + k - 1 /\ k \in Int /\ k >= 1
          BY <4>1, <5>1, <5>2
        <5>4. p - off + 1 = pos + k
          BY <5>3
        <5>5. off <= p
          BY <5>1, <5>2, <5>3
        <5> QED
          BY <5>1, <5>2, <5>4, <5>5
      <4>4. Cursor(m) <= p
        BY <4>1, <4>2, <1>0
      <4>5. p < m.offset + Len(m.buffer) <=> k <= Len(m.buffer) - m.pos
        BY <4>1, <4>2
      <4> QED
        BY <4>3, <4>4, <4>5
    <3>3. Has(m, p, b) <=>
             /\ Cursor(m) <= p /\ m.offset <= p
             /\ p < m.offset + Len(m.buffer) /\ m.buffer[p - m.offset + 1] = b
      BY DEF Has, Holds, Silence
    <3> QED
      BY <3>1, <3>2, <3>3
  <2>2. CASE k <= have
    <3>1. k <= Len(m.buffer) - m.pos /\ Taken(m, n)[k] = m.buffer[m.pos + k]
      <4>1. k \in 1..have /\ have > 0
        BY <2>2
      <4>2. Taken(m, n)[k] = q[k] /\ q[k] = m.buffer[m.pos + k]
        BY <4>1, <2>2, <1>4, <1>7
      <4>3. k <= Len(m.buffer) - m.pos
        BY <4>1, <1>0, <1>2
      <4> QED
        BY <4>2, <4>3
    <3> QED
      BY <3>1, <2>1
  <2>3. CASE k > have
    <3>1. ~(k <= Len(m.buffer) - m.pos)
      BY <2>3, <1>0, <1>2
    <3>2. k - have \in 1..(n - have)
      BY <2>3
    <3>3. Taken(m, n)[k] = 0
      BY <3>2, <2>3, <1>5, <1>7
    <3> QED
      BY <3>1, <3>3, <2>1
  <2> QED
    BY <2>2, <2>3
<1> QED
  BY <1>7, <1>8

LEMMA SoundIs ==
    ASSUME NEW m, Sound(m)
    PROVE  /\ m \in Managers /\ m.log \subseteq Piece
           /\ \A e \in m.log : Proper(e) /\ End(e) <= m.offset + Span + Largest
           /\ Apart(m.log) /\ LogHeld(m) /\ Forgotten(m)
  BY ManagerIs DEF Sound

(* Reading and compaction forget only what is behind the cursor.             *)
LEMMA AdvanceKeeps ==
    ASSUME NEW m, Sound(m), NEW r \in Managers,
           Cursor(m) <= Cursor(r), r.log \subseteq m.log,
           \A e \in m.log : e \in r.log \/ End(e) <= Cursor(r),
           \A p \in Int : \A b : Cursor(r) <= p =>
               (Holds(r, p, b) <=> Holds(m, p, b))
    PROVE  /\ \A p \in Int : \A b :
                 Has(r, p, b) <=> Cursor(r) <= p /\ Has(m, p, b)
           /\ Apart(r.log) /\ LogHeld(r) /\ Forgotten(r)
<1>0. /\ m \in Managers /\ m.log \subseteq Piece /\ Apart(m.log)
      /\ LogHeld(m) /\ Forgotten(m)
      /\ Cursor(m) \in Int /\ Cursor(r) \in Int
  BY SoundIs, ManagerIs
<1>1. ASSUME NEW p \in Int, NEW b
      PROVE  Has(r, p, b) <=> Cursor(r) <= p /\ Has(m, p, b)
  <2>1. Cursor(r) <= p => Cursor(m) <= p
    BY <1>0
  <2> QED
    BY <2>1 DEF Has
<1>2. ASSUME NEW p \in Int, NEW b, Cursor(r) <= p
      PROVE  Logs(r.log, p, b) <=> Logs(m.log, p, b)
  <2>1. ASSUME NEW e \in m.log, Says(e, p, b) PROVE e \in r.log
    <3>1. p < End(e) /\ End(e) \in Int
      BY <2>1, <1>0, EndIs DEF Says, Covers
    <3>2. ~(End(e) <= Cursor(r))
      BY <3>1, <1>0, <1>2
    <3> QED
      BY <3>2
  <2> QED
    BY <2>1 DEF Logs
<1>3. Apart(r.log)
  BY <1>0 DEF Apart
<1>4. LogHeld(r)
  <2> SUFFICES ASSUME NEW p \in Int, NEW b \in Nat \ {0}, Cursor(r) <= p,
                      Logs(r.log, p, b)
               PROVE  Holds(r, p, b)
    BY DEF LogHeld
  <2>1. Cursor(m) <= p
    BY <1>0
  <2>2. Holds(m, p, b)
    BY <2>1, <1>0, <1>2 DEF LogHeld
  <2> QED
    BY <2>2
<1>5. Forgotten(r)
  <2> SUFFICES ASSUME NEW p \in Int, NEW b \in Nat \ {0}, Has(r, p, b),
                      ~Logs(r.log, p, b)
               PROVE  TooOld(r, p)
    BY DEF Forgotten
  <2>1. Cursor(r) <= p /\ Has(m, p, b)
    BY <1>1
  <2>2. TooOld(m, p)
    BY <2>1, <1>0, <1>2 DEF Forgotten
  <2>3. PICK q \in Int : q - p > Span /\ \E c \in Nat : Has(m, q, c)
    BY <2>2 DEF TooOld
  <2>4. Cursor(r) <= q
    BY <2>1, <2>3, <1>0, SpanAssumption
  <2>5. \E c \in Nat : Has(r, q, c)
    BY <2>3, <2>4, <1>1
  <2> QED
    BY <2>3, <2>5 DEF TooOld
<1> QED
  BY <1>1, <1>3, <1>4, <1>5

LEMMA CompactKeeps ==
    ASSUME NEW m, Sound(m), m.ready
    PROVE  /\ Sound(Compact(m))
           /\ \A p \in Int : \A b : Has(Compact(m), p, b) <=> Has(m, p, b)
<1> DEFINE r == Compact(m)
<1>0. /\ m \in Managers /\ m.log \subseteq Piece
      /\ m.offset \in Nat /\ m.pos \in Nat /\ Cursor(m) \in Nat
      /\ Cursor(m) = m.offset + m.pos
  BY SoundIs, ManagerIs
<1>1. /\ r \in Managers /\ r.ready /\ r.started = m.started
      /\ r.offset = Cursor(m) /\ r.pos = 0 /\ Cursor(r) = Cursor(m)
      /\ r.log = {e \in m.log : m.pos = 0 \/ End(e) > Cursor(m)}
      /\ \A p \in Int : \A b : Cursor(m) <= p =>
            (Holds(r, p, b) <=> Holds(m, p, b))
  BY <1>0, CompactIs
<1> HIDE DEF r
<1>2. \A e \in m.log : e \in r.log \/ End(e) <= Cursor(r)
  <2>1. \A e \in m.log : End(e) \in Int
    BY <1>0, EndIs
  <2> QED
    BY <2>1, <1>0, <1>1
<1>3. Cursor(m) <= Cursor(r) /\ r.log \subseteq m.log
  BY <1>0, <1>1
<1>4. /\ \A p \in Int : \A b : Has(r, p, b) <=> Cursor(r) <= p /\ Has(m, p, b)
      /\ Apart(r.log) /\ LogHeld(r) /\ Forgotten(r)
  BY <1>1, <1>2, <1>3, AdvanceKeeps
<1>5. \A e \in r.log : Proper(e) /\ End(e) <= r.offset + Span + Largest
  <2>1. \A e \in m.log : End(e) \in Int /\ Proper(e) /\ End(e) <= m.offset + Span + Largest
    BY <1>0, EndIs, SoundIs
  <2>2. m.offset <= r.offset /\ r.offset \in Int
    BY <1>0, <1>1
  <2> QED
    BY <2>1, <2>2, <1>0, <1>3, SpanAssumption
<1>6. ~r.started => \A e \in r.log : r.offset <= e.at
  <2>1. ASSUME ~r.started PROVE r.offset = m.offset /\ \A e \in m.log : m.offset <= e.at
    BY <2>1, <1>0, <1>1 DEF Sound
  <2> QED
    BY <2>1, <1>3
<1>7. Sound(r)
  BY <1>1, <1>4, <1>5, <1>6 DEF Sound
<1> QED
  BY <1>1, <1>4, <1>7 DEF r, Has

LEMMA ReadKeeps ==
    ASSUME NEW m, Sound(m), NEW n \in Nat
    PROVE  /\ Sound(Read(m, n)) /\ Cursor(Read(m, n)) = Cursor(m) + n
           /\ Read(m, n).ready = m.ready
           /\ Read(m, n).started <=> m.started \/ (n > 0 /\ m.ready)
           /\ \A p \in Int : \A b :
                 Has(Read(m, n), p, b) <=> Cursor(m) + n <= p /\ Has(m, p, b)
<1> DEFINE r == [m EXCEPT !.pos = @ + n, !.started = @ \/ (n > 0 /\ m.ready)]
<1>0. /\ m \in Managers /\ m.log \subseteq Piece
      /\ m.offset \in Nat /\ m.pos \in Nat /\ Cursor(m) \in Nat
      /\ Cursor(m) = m.offset + m.pos
  BY SoundIs, ManagerIs
<1>1. /\ r \in Managers /\ r.ready = m.ready
      /\ r.started <=> m.started \/ (n > 0 /\ m.ready)
      /\ r.offset = m.offset /\ r.pos = m.pos + n /\ r.log = m.log
      /\ r.buffer = m.buffer
  <2>2. PICK t \in BOOLEAN : t = (m.started \/ (n > 0 /\ m.ready))
    OBVIOUS
  <2>4. PICK k \in Nat : k = m.pos + n
    BY <1>0
  <2>3. r = [m EXCEPT !.pos = k, !.started = t]
    BY <2>2, <2>4
  <2> HIDE DEF r
  <2>5. r = [offset |-> m.offset, buffer |-> m.buffer, pos |-> k,
             log |-> m.log, ready |-> m.ready, started |-> t]
    BY <2>3, <1>0 DEF Managers
  <2>6. t <=> m.started \/ (n > 0 /\ m.ready)
    BY <2>2
  <2>7. r \in Managers
    BY <2>5, <1>0, ManagerIs DEF Managers
  <2> QED
    BY <2>4, <2>5, <2>6, <2>7
<1>2. Read(m, n) = IF r.pos >= Span \div 2 THEN Compact(r) ELSE r
  BY DEF Read
<1> HIDE DEF r
<1>3. Cursor(r) = Cursor(m) + n
  <2>1. Cursor(r) = m.offset + (m.pos + n)
    BY <1>1 DEF Cursor
  <2> QED
    BY <2>1, <1>0
<1>4. Cursor(m) <= Cursor(r) /\ r.log \subseteq m.log
  BY <1>0, <1>1, <1>3
<1>5. \A p, b : Holds(r, p, b) <=> Holds(m, p, b)
  BY <1>1 DEF Holds
<1>6. /\ \A p \in Int : \A b : Has(r, p, b) <=> Cursor(r) <= p /\ Has(m, p, b)
      /\ Apart(r.log) /\ LogHeld(r) /\ Forgotten(r)
  BY <1>1, <1>4, <1>5, AdvanceKeeps
<1>7. r.ready /\ ~r.started => r.pos = 0 /\ \A e \in r.log : r.offset <= e.at
  <2>1. ASSUME r.ready, ~r.started
        PROVE  n = 0 /\ m.pos = 0 /\ \A e \in m.log : m.offset <= e.at
    BY <2>1, <1>0, <1>1 DEF Sound
  <2> QED
    BY <2>1, <1>1
<1>8. Sound(r)
  BY <1>1, <1>6, <1>7 DEF Sound
<1>9. CASE ~m.ready
  <2>1. Read(m, n) = r
    BY <1>1, <1>2, <1>9 DEF Compact
  <2> QED
    BY <2>1, <1>1, <1>3, <1>6, <1>8
<1>10. CASE m.ready
  <2>1. /\ Compact(r).ready /\ Compact(r).started = r.started
        /\ Cursor(Compact(r)) = Cursor(r)
    BY <1>1, <1>10, CompactIs
  <2>2. /\ Sound(Compact(r))
        /\ \A p \in Int : \A b : Has(Compact(r), p, b) <=> Has(r, p, b)
    BY <1>1, <1>8, <1>10, CompactKeeps
  <2>3. CASE Read(m, n) = r
    BY <2>3, <1>1, <1>3, <1>6, <1>8
  <2>4. CASE Read(m, n) = Compact(r)
    BY <2>1, <2>2, <2>4, <1>1, <1>3, <1>6, <1>10
  <2> QED
    BY <2>3, <2>4, <1>2
<1> QED
  BY <1>9, <1>10

-----------------------------------------------------------------------------
(* A packet of one to three bytes, and what it is as an entry of the log.    *)
IsData(d) == d \in Data /\ d # <<>> /\ Len(d) <= Largest
Piece1(o, d) == [at |-> o, data |-> d]

LEMMA PieceIs ==
    ASSUME NEW o \in Int, NEW d, IsData(d)
    PROVE  /\ Piece1(o, d) \in Piece /\ Piece1(o, d).at = o
           /\ Piece1(o, d).data = d /\ End(Piece1(o, d)) = o + Len(d)
           /\ Len(d) \in Nat /\ 1 <= Len(d) /\ Len(d) <= Largest
           /\ d \in Seq(Nat) /\ d \in Seq(Nat \ {0})
           /\ \A k \in 1..Len(d) : d[k] \in Nat \ {0}
<1>1. d \in Seq(Nat \ {0})
  BY DEF IsData, Data
<1>2. \A k \in 1..Len(d) : d[k] \in Nat \ {0}
  BY <1>1
<1>3. d \in Seq(Nat)
  BY <1>1
<1>4. Piece1(o, d) \in Piece
  BY <1>1 DEF Piece1, Piece, Data
<1>5. Len(d) \in Nat /\ 1 <= Len(d) /\ Len(d) <= Largest
  <2>1. Len(d) \in Nat \ {0}
    BY <1>1, EmptySeq DEF IsData
  <2>2. Len(d) <= Largest
    BY DEF IsData
  <2> QED
    BY <2>1, <2>2
<1> QED
  BY <1>1, <1>2, <1>3, <1>4, <1>5 DEF Piece1, End, IsData

(* What that entry says: the packet's own bytes.                             *)
LEMMA PieceSays ==
    ASSUME NEW o \in Int, NEW d, NEW p \in Int, NEW b
    PROVE  Says(Piece1(o, d), p, b) <=>
               o <= p /\ p < o + Len(d) /\ d[p - o + 1] = b
  BY DEF Piece1, End, Says, Covers

(* The byte a packet has at a position.                                      *)
LEMMA PieceByte ==
    ASSUME NEW o \in Int, NEW d, IsData(d), NEW p \in Int,
           o <= p, p < o + Len(d)
    PROVE  d[p - o + 1] \in Nat \ {0} /\ Says(Piece1(o, d), p, d[p - o + 1])
<1>1. Len(d) \in Nat /\ \A k \in 1..Len(d) : d[k] \in Nat \ {0}
  BY PieceIs
<1>2. p - o + 1 \in 1..Len(d)
  BY <1>1
<1>3. \A b : Says(Piece1(o, d), p, b) <=>
          o <= p /\ p < o + Len(d) /\ d[p - o + 1] = b
  BY PieceSays
<1> QED
  BY <1>1, <1>2, <1>3

LEMMA ResetIs ==
    ASSUME NEW o \in Nat, NEW d, IsData(d)
    PROVE  /\ Sound(Reset(o, d)) /\ Cursor(Reset(o, d)) = o
           /\ Reset(o, d).ready /\ ~Reset(o, d).started
           /\ \A p \in Int : \A b \in Nat \ {0} :
                 Has(Reset(o, d), p, b) <=> Says(Piece1(o, d), p, b)
<1> DEFINE r == Reset(o, d)
           e == Piece1(o, d)
<1>1. d # <<>>
  BY DEF IsData
<1>2. r = [offset |-> o, buffer |-> d, pos |-> 0, log |-> {e},
           ready |-> TRUE, started |-> FALSE]
  <2>1. Visible({[at |-> o, data |-> d]}) = {[at |-> o, data |-> d]}
    BY <1>1 DEF Visible
  <2> QED
    BY <2>1 DEF Reset, Piece1
<1>3. /\ e \in Piece /\ e.at = o /\ e.data = d /\ End(e) = o + Len(d)
      /\ d \in Seq(Nat) /\ Len(d) \in Nat /\ 1 <= Len(d) /\ Len(d) <= Largest
  <2>1. o \in Int
    OBVIOUS
  <2> QED
    BY <2>1, PieceIs
<1> HIDE DEF r, e
<1>4. r \in Managers
  BY <1>2, <1>3 DEF Managers
<1>5. Cursor(r) = o
  BY <1>2 DEF Cursor
<1>6. \A p \in Int : \A b : Holds(r, p, b) <=> Says(e, p, b)
  BY <1>2, <1>3 DEF Holds, Says, Covers
<1>7. \A p \in Int : \A b \in Nat \ {0} : Has(r, p, b) <=> Says(e, p, b)
  BY <1>3, <1>5, <1>6 DEF Has, Says, Covers, Silence
<1>8. \A p \in Int : \A b : Logs(r.log, p, b) <=> Says(e, p, b)
  BY <1>2 DEF Logs
<1>9. LogHeld(r) /\ Forgotten(r)
  BY <1>6, <1>7, <1>8 DEF LogHeld, Forgotten
<1>10. Apart(r.log) /\ \A x \in r.log : Proper(x) /\ End(x) <= r.offset + Span + Largest
                                       /\ r.offset <= x.at
  <2>1. r.log = {e} /\ r.offset = o
    BY <1>2
  <2>2. Proper(e)
    BY <1>1, <1>3 DEF Proper
  <2>3. End(e) <= o + Span + Largest
    BY <1>3, SpanAssumption
  <2> QED
    BY <2>1, <2>2, <2>3, <1>3 DEF Apart
<1>11. r.ready /\ ~r.started /\ r.pos = 0
  BY <1>2
<1>12. Sound(r)
  BY <1>4, <1>9, <1>10, <1>11 DEF Sound
<1> QED
  BY <1>5, <1>7, <1>11, <1>12 DEF r, e

LEMMA OverlayIs ==
    ASSUME NEW buffer \in Seq(Nat), NEW i \in Nat, NEW d, IsData(d)
    PROVE  /\ Overlay(buffer, i, d) \in Seq(Nat)
           /\ Len(Overlay(buffer, i, d)) = IF i + Len(d) > Len(buffer)
                                           THEN i + Len(d) ELSE Len(buffer)
           /\ \A k \in 1..Len(Overlay(buffer, i, d)) :
                 Overlay(buffer, i, d)[k] =
                     IF i < k /\ k <= i + Len(d) THEN d[k - i]
                     ELSE IF k <= Len(buffer) THEN buffer[k] ELSE 0
<1>1. /\ d \in Seq(Nat) /\ Len(d) \in Nat /\ 1 <= Len(d)
      /\ Len(buffer) \in Nat
  <2>1. 0 \in Int
    OBVIOUS
  <2>2. d \in Seq(Nat) /\ Len(d) \in Nat /\ 1 <= Len(d)
    BY <2>1, PieceIs
  <2> QED
    BY <2>2, LenProperties
<1>2. PICK padded \in Seq(Nat) :
        /\ padded = IF i > Len(buffer)
                    THEN buffer \o Quiet(i - Len(buffer)) ELSE buffer
        /\ Len(padded) = IF i > Len(buffer) THEN i ELSE Len(buffer)
        /\ \A k \in 1..Len(padded) :
              padded[k] = IF k <= Len(buffer) THEN buffer[k] ELSE 0
  <2>1. CASE i > Len(buffer)
    <3>0. i - Len(buffer) \in Nat
      BY <2>1, <1>1
    <3>1. PICK n \in Nat : n = i - Len(buffer)
      BY <3>0
    <3>2. PICK z \in Seq(Nat) : z = Quiet(n) /\ Len(z) = n
                                /\ \A k \in 1..n : z[k] = 0
      BY QuietIs
    <3>3. /\ buffer \o z \in Seq(Nat) /\ Len(buffer \o z) = Len(buffer) + n
          /\ \A k \in 1..(Len(buffer) + n) : (buffer \o z)[k] =
                IF k <= Len(buffer) THEN buffer[k] ELSE z[k - Len(buffer)]
      <4>1. /\ buffer \o z \in Seq(Nat)
            /\ Len(buffer \o z) = Len(buffer) + Len(z)
            /\ \A k \in 1..(Len(buffer) + Len(z)) : (buffer \o z)[k] =
                  IF k <= Len(buffer) THEN buffer[k] ELSE z[k - Len(buffer)]
        BY ConcatProperties
      <4> QED
        BY <4>1, <3>2
    <3>4. \A k \in 1..(Len(buffer) + n) : k > Len(buffer) =>
              k - Len(buffer) \in 1..n
      BY <1>1
    <3>5. Len(buffer) + n = i
      BY <3>1, <1>1
    <3>6. \A k \in 1..i : (buffer \o z)[k] =
              IF k <= Len(buffer) THEN buffer[k] ELSE 0
      BY <3>2, <3>3, <3>4, <3>5, <1>1
    <3>7. PICK v \in Seq(Nat) : v = buffer \o z
      BY <3>3
    <3>8. v = IF i > Len(buffer) THEN buffer \o Quiet(i - Len(buffer)) ELSE buffer
      BY <3>1, <3>2, <3>7, <2>1
    <3>9. Len(v) = i /\ \A k \in 1..i : v[k] = IF k <= Len(buffer)
                                               THEN buffer[k] ELSE 0
      BY <3>3, <3>5, <3>6, <3>7
    <3> QED
      BY <3>7, <3>8, <3>9, <2>1
  <2>2. CASE ~(i > Len(buffer))
    BY <2>2, <1>1
  <2> QED
    BY <2>1, <2>2
<1>3. PICK len \in Nat : len = Len(padded) /\ i <= len /\ Len(buffer) <= len
                         /\ (len = i \/ len = Len(buffer))
  BY <1>1, <1>2
<1>5. PICK j \in Nat : j = i + Len(d) /\ i < j
  <2>1. i + Len(d) \in Nat /\ i < i + Len(d)
    BY <1>1
  <2> QED
    BY <2>1
<1>4. PICK n \in Nat : n = IF j > len THEN 0 ELSE len - j
  <2>1. CASE j > len
    BY <2>1
  <2>2. CASE ~(j > len)
    <3>1. len - j \in Nat
      BY <2>2, <1>3, <1>5
    <3> QED
      BY <3>1, <2>2
  <2> QED
    BY <2>1, <2>2
<1>6. PICK a : a = SubSeq(padded, 1, i)
  OBVIOUS
<1>7. a \in Seq(Nat) /\ Len(a) = i /\ \A k \in 1..i : a[k] = padded[k]
  <2>1. PICK z \in Nat : z = 0
    OBVIOUS
  <2>2. z + i <= Len(padded)
    BY <2>1, <1>3
  <2>3. /\ SubSeq(padded, z + 1, z + i) \in Seq(Nat)
        /\ Len(SubSeq(padded, z + 1, z + i)) = i
        /\ \A k \in 1..i : SubSeq(padded, z + 1, z + i)[k] = padded[z + k]
    BY <2>2, Slice
  <2>4. z + 1 = 1 /\ z + i = i /\ \A k \in 1..i : z + k = k
    BY <2>1
  <2> QED
    BY <2>3, <2>4, <1>6
<1>8. PICK c : c = SubSeq(padded, i + Len(d) + 1, Len(padded))
  OBVIOUS
<1>9. c \in Seq(Nat) /\ Len(c) = n /\ \A k \in 1..n : c[k] = padded[j + k]
  <2>1. CASE j > len
    <3>1. c = <<>>
      BY <2>1, <1>3, <1>5, <1>8, SubSeqEmpty
    <3>2. n = 0
      BY <2>1, <1>4, <1>5
    <3> QED
      BY <3>1, <3>2
  <2>2. CASE ~(j > len)
    <3>1. n = len - j
      BY <2>2, <1>4, <1>5
    <3>2. j + n = Len(padded)
      BY <3>1, <1>3, <1>5
    <3>0. n = 0 \/ j + n <= Len(padded)
      BY <3>2, <1>3
    <3>3. /\ SubSeq(padded, j + 1, j + n) \in Seq(Nat)
          /\ Len(SubSeq(padded, j + 1, j + n)) = n
          /\ \A k \in 1..n : SubSeq(padded, j + 1, j + n)[k] = padded[j + k]
      BY <3>0, Slice
    <3> QED
      BY <3>2, <3>3, <1>5, <1>8
  <2> QED
    BY <2>1, <2>2
<1>10. PICK r : r = (a \o d) \o c
  OBVIOUS
<1>11. Overlay(buffer, i, d) = r
  BY <1>2, <1>6, <1>8, <1>10 DEF Overlay
<1>12. /\ a \o d \in Seq(Nat) /\ Len(a \o d) = j
       /\ \A k \in 1..j : (a \o d)[k] = IF k <= i THEN a[k] ELSE d[k - i]
  <2>1. PICK e \in Nat : e = Len(d)
    BY <1>1
  <2>2. a \in Seq(Nat) /\ Len(a) = i /\ d \in Seq(Nat) /\ Len(d) = e
    BY <2>1, <1>1, <1>7
  <2>3. /\ a \o d \in Seq(Nat) /\ Len(a \o d) = Len(a) + Len(d)
        /\ \A k \in 1..(Len(a) + Len(d)) :
              (a \o d)[k] = IF k <= Len(a) THEN a[k] ELSE d[k - Len(a)]
    BY <2>2, ConcatProperties
  <2> QED
    BY <2>1, <2>2, <2>3, <1>5
<1>13. /\ r \in Seq(Nat) /\ Len(r) = j + n
       /\ \A k \in 1..(j + n) : r[k] = IF k <= j THEN (a \o d)[k] ELSE c[k - j]
  <2>1. PICK f \in Seq(Nat) : f = a \o d
    BY <1>12
  <2>2. Len(f) = j /\ Len(c) = n /\ c \in Seq(Nat)
    BY <2>1, <1>9, <1>12
  <2>3. /\ f \o c \in Seq(Nat) /\ Len(f \o c) = j + n
        /\ \A k \in 1..(j + n) : (f \o c)[k] = IF k <= j THEN f[k] ELSE c[k - j]
    BY <2>2, ConcatProperties
  <2> QED
    BY <2>1, <2>3, <1>10
<1>14. j + n = IF i + Len(d) > Len(buffer) THEN i + Len(d) ELSE Len(buffer)
  <2>1. CASE j > len
    BY <2>1, <1>1, <1>3, <1>4, <1>5
  <2>2. CASE ~(j > len)
    <3>1. n = len - j
      BY <2>2, <1>4, <1>5
    <3>2. len = Len(buffer)
      BY <2>2, <1>1, <1>3, <1>5
    <3>3. j + n = Len(buffer) /\ ~(j > Len(buffer))
      BY <3>1, <3>2, <2>2, <1>3, <1>5
    <3> QED
      BY <3>3, <1>5
  <2> QED
    BY <2>1, <2>2
<1>15. ASSUME NEW k \in 1..(j + n)
       PROVE  r[k] = IF i < k /\ k <= i + Len(d) THEN d[k - i]
                     ELSE IF k <= Len(buffer) THEN buffer[k] ELSE 0
  <2>1. CASE k <= i
    <3>1. k \in 1..j /\ k \in 1..i /\ k \in 1..len
      BY <2>1, <1>1, <1>3, <1>5
    <3>2. r[k] = padded[k]
      BY <3>1, <2>1, <1>7, <1>12, <1>13
    <3> QED
      BY <3>1, <3>2, <2>1, <1>2, <1>3
  <2>2. CASE i < k /\ k <= j
    <3>1. k \in 1..j /\ ~(k <= i)
      BY <2>2
    <3>4. k <= j /\ k \in 1..(j + n)
      BY <2>2
    <3>3. r[k] = (a \o d)[k]
      BY <3>4, <1>13
    <3>2. r[k] = d[k - i]
      BY <3>1, <3>3, <1>12
    <3> QED
      BY <3>2, <2>2, <1>5
  <2>3. CASE k > j
    <3>1. k - j \in 1..n
      BY <2>3
    <3>2. n > 0
      BY <3>1
    <3>6. n = len - j
      BY <3>2, <1>4, <1>5
    <3>3. j + n = len
      BY <3>6, <1>3, <1>4, <1>5
    <3>4. k \in 1..len /\ j + (k - j) = k
      BY <3>3
    <3>7. c[k - j] = padded[j + (k - j)]
      BY <3>1, <1>9
    <3>8. r[k] = c[k - j]
      BY <2>3, <1>5, <1>13
    <3>5. r[k] = padded[k]
      BY <3>4, <3>7, <3>8
    <3> QED
      BY <3>4, <3>5, <2>3, <1>1, <1>2, <1>3, <1>5
  <2> QED
    BY <2>1, <2>2, <2>3
<1> QED
  BY <1>11, <1>13, <1>14, <1>15

-----------------------------------------------------------------------------
(* rebuild(False): the buffer is what the log says.                          *)

ByteAt(m, p) ==
    LET over == {e \in m.log : Covers(e, p)}
        top == CHOOSE e \in over : \A x \in over : x.at <= e.at
    IN IF over = {} THEN Silence ELSE top.data[p - top.at + 1]

LEMMA ByteAtIs ==
    ASSUME NEW m \in Managers, Apart(m.log), NEW p \in Int
    PROVE  /\ ByteAt(m, p) \in Nat
           /\ \A b \in Nat \ {0} : ByteAt(m, p) = b <=> Logs(m.log, p, b)
<1> DEFINE over == {e \in m.log : Covers(e, p)}
<1>0. m.log \subseteq Piece
  BY ManagerIs
<1>1. CASE over = {}
  <2>1. ByteAt(m, p) = 0
    BY <1>1 DEF ByteAt, Silence
  <2>2. \A b : ~Logs(m.log, p, b)
    BY <1>1 DEF Logs, Says
  <2> QED
    BY <2>1, <2>2
<1>2. ASSUME NEW e \in over
      PROVE  /\ ByteAt(m, p) \in Nat
             /\ \A b \in Nat \ {0} : ByteAt(m, p) = b <=> Logs(m.log, p, b)
  <2>1. e \in m.log /\ e \in Piece /\ Covers(e, p)
    BY <1>0, <1>2
  <2>2. \A x \in over : x = e
    BY <2>1, <1>0, OneSays
  <2>3. over = {e}
    BY <2>2, <1>2
  <2>4. e.at <= e.at
    BY <2>1, EndIs
  <2>5. (CHOOSE x \in over : \A y \in over : y.at <= x.at) = e
    BY <2>3, <2>4
  <2>6. ByteAt(m, p) = e.data[p - e.at + 1]
    BY <2>3, <2>5 DEF ByteAt
  <2>7. e.data[p - e.at + 1] \in Nat \ {0}
    BY <2>1, SaysByte
  <2>8. ASSUME NEW b PROVE e.data[p - e.at + 1] = b <=> Logs(m.log, p, b)
    <3>1. e.data[p - e.at + 1] = b => Logs(m.log, p, b)
      BY <2>1 DEF Logs, Says
    <3>2. ASSUME Logs(m.log, p, b) PROVE e.data[p - e.at + 1] = b
      <4>1. PICK x \in m.log : Covers(x, p) /\ x.data[p - x.at + 1] = b
        BY <3>2 DEF Logs, Says
      <4>2. x = e
        BY <4>1, <2>2
      <4> QED
        BY <4>1, <4>2
    <3> QED
      BY <3>1, <3>2
  <2> QED
    BY <2>6, <2>7, <2>8
<1> QED
  BY <1>1, <1>2

LEMMA RebuildIs ==
    ASSUME NEW m \in Managers, Apart(m.log), NEW top \in Int,
           \A e \in m.log : End(e) <= top
    PROVE  /\ Rebuild(m) \in Managers
           /\ Rebuild(m).offset = m.offset /\ Rebuild(m).pos = m.pos
           /\ Rebuild(m).log = m.log /\ Rebuild(m).ready = m.ready
           /\ Rebuild(m).started = m.started /\ Cursor(Rebuild(m)) = Cursor(m)
           /\ \A p \in Int : \A b \in Nat \ {0} : m.offset <= p =>
                 (Holds(Rebuild(m), p, b) <=> Logs(m.log, p, b))
<1> DEFINE S == {0} \cup {End(e) - m.offset : e \in m.log}
<1>0. /\ m.log \subseteq Piece /\ m.offset \in Nat /\ m.offset \in Int
      /\ \A e \in m.log : e \in Piece /\ End(e) \in Int
  BY ManagerIs, EndIs
<1>1. S \subseteq Int /\ S # {}
  BY <1>0
<1>2. PICK bound \in Nat : bound = IF top - m.offset > 0 THEN top - m.offset ELSE 0
  BY <1>0
<1>3. \A x \in S : x <= bound
  <2>1. ASSUME NEW e \in m.log PROVE End(e) - m.offset <= bound
    <3>1. End(e) - m.offset <= top - m.offset
      BY <1>0
    <3> QED
      BY <3>1, <1>0, <1>2
  <2> QED
    BY <2>1, <1>2
<1>4. \E x \in S : \A y \in S : y <= x
  <2>1. bound \in Int
    OBVIOUS
  <2> QED
    BY <2>1, <1>1, <1>3, GreatestInt
<1>5. \E x \in S : \A y \in S : x >= y
  BY <1>1, <1>4
<1>6. Max(S) \in S /\ \A y \in S : Max(S) >= y
  BY <1>5 DEF Max
<1>7. PICK size : size = Max(S)
  OBVIOUS
<1>8. size \in Nat /\ \A e \in m.log : End(e) - m.offset <= size
  <2>1. size \in Int
    BY <1>1, <1>6, <1>7
  <2>2. size >= 0
    BY <1>6, <1>7
  <2>3. ASSUME NEW e \in m.log PROVE End(e) - m.offset <= size
    <3>1. size >= End(e) - m.offset
      BY <1>6, <1>7
    <3> QED
      BY <3>1, <2>1, <1>0
  <2> QED
    BY <2>1, <2>2, <2>3
<1>9. PICK buffer : buffer = [k \in 1..size |-> ByteAt(m, m.offset + k - 1)]
  OBVIOUS
<1>10. Rebuild(m) = [m EXCEPT !.buffer = buffer]
  BY <1>7, <1>9 DEF Rebuild, ByteAt
<1> HIDE DEF S
<1>11. buffer \in Seq(Nat) /\ Len(buffer) = size
  <2>1. \A k \in 1..size : ByteAt(m, m.offset + k - 1) \in Nat
    <3>1. \A k \in 1..size : m.offset + k - 1 \in Int
      BY <1>0, <1>8
    <3> QED
      BY <3>1, ByteAtIs
  <2> QED
    BY <2>1, <1>8, <1>9
<1>12. /\ Rebuild(m) = [offset |-> m.offset, buffer |-> buffer, pos |-> m.pos,
                        log |-> m.log, ready |-> m.ready, started |-> m.started]
  BY <1>10 DEF Managers
<1>13. Rebuild(m) \in Managers
  BY <1>11, <1>12, ManagerIs DEF Managers
<1>14. ASSUME NEW p \in Int, NEW b \in Nat \ {0}, m.offset <= p
       PROVE  Holds(Rebuild(m), p, b) <=> Logs(m.log, p, b)
  <2>1. Holds(Rebuild(m), p, b) <=>
           p < m.offset + size /\ buffer[p - m.offset + 1] = b
    BY <1>11, <1>12, <1>14 DEF Holds
  <2>2. p < m.offset + size => buffer[p - m.offset + 1] = ByteAt(m, p)
    <3>1. ASSUME p < m.offset + size PROVE p - m.offset + 1 \in 1..size
      BY <3>1, <1>0, <1>8, <1>14
    <3>2. m.offset + (p - m.offset + 1) - 1 = p
      BY <1>0
    <3> QED
      BY <3>1, <3>2, <1>9
  <2>3. Logs(m.log, p, b) => p < m.offset + size
    <3>1. ASSUME NEW e \in m.log, Says(e, p, b) PROVE p < m.offset + size
      <4>1. p < End(e)
        BY <3>1 DEF Says, Covers
      <4>2. End(e) - m.offset <= size /\ End(e) \in Int
        BY <1>0, <1>8
      <4> QED
        BY <4>1, <4>2, <1>0, <1>8
    <3> QED
      BY <3>1 DEF Logs
  <2>4. ByteAt(m, p) = b <=> Logs(m.log, p, b)
    BY ByteAtIs
  <2> QED
    BY <2>1, <2>2, <2>3, <2>4
<1>15. Cursor(Rebuild(m)) = Cursor(m)
  BY <1>12 DEF Cursor
<1> QED
  BY <1>12, <1>13, <1>14, <1>15

-----------------------------------------------------------------------------
(* The log of a write.                                                       *)

LEMMA PartOf ==
    ASSUME NEW e \in Piece, NEW lo \in Int, NEW hi \in Int,
           Part(e, lo, hi).data # <<>>
    PROVE  /\ Part(e, lo, hi) \in Piece
           /\ e.at <= Part(e, lo, hi).at /\ End(Part(e, lo, hi)) <= End(e)
           /\ lo <= Part(e, lo, hi).at /\ End(Part(e, lo, hi)) <= hi
           /\ Proper(e) => Proper(Part(e, lo, hi))
<1>1. PICK q \in Piece : q = Part(e, lo, hi)
  BY PartIs
<1>2. /\ e.at \in Int /\ End(e) \in Int /\ q.at \in Int
      /\ Len(q.data) \in Nat /\ Len(e.data) \in Nat /\ q.data \in Seq(Nat \ {0})
  BY EndIs
<1>3. Len(q.data) > 0
  BY <1>1, <1>2
<1>4. /\ q.at = IF lo > e.at THEN lo ELSE e.at
      /\ End(q) = IF hi < End(e) THEN hi ELSE End(e)
      /\ Len(q.data) <= Len(e.data)
  BY <1>1, <1>3, PartIs
<1>5. e.at <= q.at /\ lo <= q.at
  BY <1>2, <1>4
<1>6. End(q) <= End(e) /\ End(q) <= hi
  BY <1>2, <1>4
<1>7. Proper(e) => Proper(q)
  <2>1. ASSUME Proper(e) PROVE q.at \in Nat /\ q.data # <<>> /\ Len(q.data) <= Largest
    <3>1. e.at \in Nat /\ Len(e.data) <= Largest
      BY <2>1 DEF Proper
    <3>2. q.at \in Nat
      BY <3>1, <1>2, <1>5
    <3>3. Len(q.data) <= Largest
      BY <3>1, <1>2, <1>4
    <3> QED
      BY <3>2, <3>3, <1>1
  <2> QED
    BY <2>1 DEF Proper
<1> QED
  BY <1>1, <1>5, <1>6, <1>7

LEMMA WholePart ==
    ASSUME NEW e \in Piece, NEW lo \in Int, lo <= e.at
    PROVE  Part(e, lo, End(e)) = e
<1>0. /\ End(e) \in Int /\ e.at \in Int /\ Len(e.data) \in Nat
      /\ End(e) = e.at + Len(e.data) /\ e.data \in Seq(Nat \ {0})
  BY EndIs
<1>1. ~(lo > e.at) /\ ~(End(e) < End(e))
  BY <1>0
<1>2. Part(e, lo, End(e)) =
         [at |-> e.at, data |-> SubSeq(e.data, e.at - e.at + 1, End(e) - e.at)]
  BY <1>1 DEF Part
<1>3. e.at - e.at + 1 = 1 /\ End(e) - e.at = Len(e.data)
  BY <1>0
<1>4. SubSeq(e.data, 1, Len(e.data)) = e.data
  BY <1>0, SubSeqFull
<1>5. e = [at |-> e.at, data |-> e.data]
  BY DEF Piece
<1> QED
  BY <1>2, <1>3, <1>4, <1>5

LEMMA CutoffIs ==
    ASSUME NEW m \in Managers, NEW o \in Int, NEW top \in Int,
           \A e \in m.log : End(e) <= top
    PROVE  \E newest \in Int :
              /\ Cutoff(m, o) = newest - Span
              /\ o <= newest /\ \A e \in m.log : e.at <= newest
              /\ newest = o \/ \E e \in m.log : e.at = newest
<1> DEFINE S == {e.at : e \in m.log} \cup {o}
           b == IF top > o THEN top ELSE o
           Newest1(n) == \A e \in m.log : e.at <= n /\ o <= n
<1>0. /\ m.log \subseteq Piece
      /\ \A e \in m.log : e.at \in Int /\ e.at <= End(e) /\ End(e) \in Int
  BY ManagerIs, EndIs
<1>1. S \subseteq Int /\ S # {}
  BY <1>0
<1>2. b \in Int /\ \A x \in S : x <= b
  BY <1>0
<1>3. PICK g \in S : \A x \in S : x <= g
  BY <1>1, <1>2, GreatestInt
<1>4. Newest1(g)
  BY <1>3
<1>5. PICK n : n = CHOOSE x \in S : Newest1(x)
  OBVIOUS
<1>6. n \in S /\ Newest1(n)
  BY <1>3, <1>4, <1>5
<1>7. Cutoff(m, o) = n - Span
  BY <1>5 DEF Cutoff
<1>8. o <= n
  BY <1>6
<1> QED
  BY <1>1, <1>6, <1>7, <1>8

LEMMA LoggedIs ==
    ASSUME NEW m \in Managers, Apart(m.log), \A e \in m.log : Proper(e),
           NEW o \in Nat, NEW d, IsData(d), Cutoff(m, o) \in Int
    PROVE  /\ Logged(m, o, d) \subseteq Piece /\ Apart(Logged(m, o, d))
           /\ \A e \in Logged(m, o, d) : Proper(e)
           /\ \A e \in Logged(m, o, d) :
                 \/ e = Piece1(o, d)
                 \/ \E x \in m.log : x.at <= e.at /\ End(e) <= End(x)
           /\ \A p \in Int : \A b : Logs(Logged(m, o, d), p, b) <=>
                 \/ Says(Piece1(o, d), p, b)
                 \/ /\ ~(o <= p /\ p < o + Len(d)) /\ Cutoff(m, o) <= p
                    /\ Logs(m.log, p, b)
<1>0. PICK cut \in Int : cut = Cutoff(m, o)
  OBVIOUS
<1>1. PICK new \in Piece : new = Piece1(o, d) /\ new.at = o
                           /\ End(new) = o + Len(d)
  <2>1. o \in Int
    OBVIOUS
  <2>2. /\ Piece1(o, d) \in Piece /\ Piece1(o, d).at = o
        /\ End(Piece1(o, d)) = o + Len(d)
    BY <2>1, PieceIs
  <2> QED
    BY <2>2
<1>2. o \in Int /\ Len(d) \in Nat /\ o + Len(d) \in Int /\ o + Len(d) >= o
  BY PieceIs
<1> DEFINE Old(e) == IF e.at < cut THEN Part(e, cut, End(e)) ELSE e
           kept == Visible({Old(e) : e \in m.log})
           Before(e) == Part(e, e.at, o)
           After(e) == Part(e, o + Len(d), End(e))
           parts == {Before(e) : e \in kept} \cup {After(e) : e \in kept}
<1>3. Logged(m, o, d) = {new} \cup Visible(parts)
  BY <1>0, <1>1 DEF Logged, Piece1
<1>4. m.log \subseteq Piece /\ \A e \in m.log : e.at \in Int /\ End(e) \in Int
  BY ManagerIs, EndIs
<1>5. \A e \in m.log : Old(e) = Part(e, cut, End(e))
  <2>1. ASSUME NEW e \in m.log, ~(e.at < cut) PROVE Part(e, cut, End(e)) = e
    <3>1. e \in Piece /\ cut <= e.at
      BY <2>1, <1>4
    <3> QED
      BY <3>1, WholePart
  <2> QED
    BY <2>1
<1> HIDE DEF Old
<1>6. ASSUME NEW x \in kept
      PROVE  /\ x \in Piece /\ Proper(x) /\ x.data # <<>>
             /\ \E e \in m.log : /\ x = Part(e, cut, End(e))
                                 /\ e.at <= x.at /\ End(x) <= End(e)
  <2>1. PICK e \in m.log : x = Part(e, cut, End(e))
    BY <1>5 DEF Visible
  <2>2. x.data # <<>>
    BY DEF Visible
  <2>3. e \in Piece /\ Proper(e) /\ End(e) \in Int
    BY <1>4
  <2>4. x \in Piece /\ Proper(x) /\ e.at <= x.at /\ End(x) <= End(e)
    BY <2>1, <2>2, <2>3, PartOf
  <2> QED
    BY <2>1, <2>2, <2>4
<1>7. Apart(kept)
  <2> SUFFICES ASSUME NEW x \in kept, NEW y \in kept, x # y
               PROVE  End(x) <= y.at \/ End(y) <= x.at
    BY DEF Apart
  <2>1. PICK e \in m.log : x = Part(e, cut, End(e))
    BY <1>6
  <2>2. PICK f \in m.log : y = Part(f, cut, End(f))
    BY <1>6
  <2>3. End(e) <= f.at \/ End(f) <= e.at
    BY <2>1, <2>2 DEF Apart
  <2>4. x.data # <<>> /\ y.data # <<>> /\ e \in Piece /\ f \in Piece
        /\ End(e) \in Int /\ End(f) \in Int
    BY <1>4, <1>6
  <2> QED
    BY <2>1, <2>2, <2>3, <2>4, PartsApart
<1>8. ASSUME NEW p \in Int, NEW b
      PROVE  Logs(kept, p, b) <=> cut <= p /\ Logs(m.log, p, b)
  <2>1. {Old(e) : e \in m.log} \subseteq Piece
    <3>1. \A e \in m.log : Part(e, cut, End(e)) \in Piece
      BY <1>4, PartIs
    <3> QED
      BY <3>1, <1>5
  <2>2. Logs(kept, p, b) <=> Logs({Old(e) : e \in m.log}, p, b)
    BY <2>1, VisibleLogs
  <2>3. ASSUME NEW e \in m.log
        PROVE  Says(Old(e), p, b) <=> cut <= p /\ Says(e, p, b)
    <3>1. Says(Part(e, cut, End(e)), p, b) <=>
             cut <= p /\ p < End(e) /\ Says(e, p, b)
      BY <1>4, PartIs
    <3> QED
      BY <3>1, <1>5 DEF Says, Covers
  <2>4. Logs({Old(e) : e \in m.log}, p, b) <=>
           \E e \in m.log : Says(Old(e), p, b)
    BY DEF Logs
  <2>5. (\E e \in m.log : Says(Old(e), p, b)) <=> cut <= p /\ Logs(m.log, p, b)
    BY <2>3 DEF Logs
  <2> HIDE DEF kept
  <2> QED
    BY <2>2, <2>4, <2>5
<1> HIDE DEF kept
<1>9. ASSUME NEW x \in Visible(parts)
      PROVE  /\ x \in Piece /\ Proper(x)
             /\ \E e \in m.log : e.at <= x.at /\ End(x) <= End(e)
             /\ \E e \in kept : \/ x = Before(e) /\ End(x) <= o
                                \/ x = After(e) /\ o + Len(d) <= x.at
  <2>1. x.data # <<>> /\ x \in parts
    BY DEF Visible
  <2>2. PICK e \in kept : x = Before(e) \/ x = After(e)
    BY <2>1
  <2>3. e \in Piece /\ Proper(e) /\ e.at \in Int /\ End(e) \in Int
    BY <1>6, EndIs
  <2>4. x \in Piece /\ Proper(x) /\ e.at <= x.at /\ End(x) <= End(e)
    BY <2>1, <2>2, <2>3, <1>2, PartOf
  <2>5. PICK y \in m.log : y.at <= e.at /\ End(e) <= End(y)
    BY <1>6
  <2>6. y.at <= x.at /\ End(x) <= End(y)
    <3>1. /\ y.at \in Int /\ End(y) \in Int /\ x.at \in Int /\ End(x) \in Int
      BY <2>4, <1>4, EndIs
    <3> QED
      BY <3>1, <2>3, <2>4, <2>5
  <2>7. x = Before(e) => End(x) <= o
    BY <2>1, <2>3, <1>2, PartOf
  <2>8. x = After(e) => o + Len(d) <= x.at
    BY <2>1, <2>3, <1>2, PartOf
  <2> QED
    BY <2>2, <2>4, <2>6, <2>7, <2>8
<1>10. ASSUME NEW x \in Visible(parts), NEW y \in Visible(parts), x # y
       PROVE  End(x) <= y.at \/ End(y) <= x.at
  <2>1. PICK e \in kept : x = Before(e) \/ x = After(e)
    BY <1>9
  <2>2. PICK f \in kept : y = Before(f) \/ y = After(f)
    BY <1>9
  <2>3. /\ e \in Piece /\ f \in Piece /\ e.at \in Int /\ f.at \in Int
        /\ End(e) \in Int /\ End(f) \in Int
    BY <1>6, EndIs
  <2>4. x.data # <<>> /\ y.data # <<>>
    BY DEF Visible
  <2>5. CASE e # f
    <3>1. End(e) <= f.at \/ End(f) <= e.at
      BY <2>5, <1>7 DEF Apart
    <3> QED
      BY <2>1, <2>2, <2>3, <2>4, <3>1, <1>2, PartsApart
  <2>6. CASE e = f
    <3>2. y = Before(e) \/ y = After(e)
      BY <2>2, <2>6
    <3>1. \/ x = Before(e) /\ y = After(f)
          \/ x = After(e) /\ y = Before(f)
      BY <2>1, <2>6, <3>2, <1>10
    <3> QED
      BY <2>3, <2>4, <3>1, <1>2, PartsApart
  <2> QED
    BY <2>5, <2>6
<1>11. \A x \in Visible(parts) : End(x) <= new.at \/ End(new) <= x.at
  BY <1>1, <1>9
<1>12. Apart(Logged(m, o, d))
  BY <1>3, <1>10, <1>11 DEF Apart
<1>13. Proper(new)
  BY <1>1 DEF Proper, Piece1, IsData
<1>14. ASSUME NEW p \in Int, NEW b
       PROVE  Logs(parts, p, b) <=>
                 /\ ~(o <= p /\ p < o + Len(d))
                 /\ Logs(kept, p, b)
  <2>1. ASSUME NEW e \in kept
        PROVE  Says(Before(e), p, b) \/ Says(After(e), p, b) <=>
                  ~(o <= p /\ p < o + Len(d)) /\ Says(e, p, b)
    <3>0. e \in Piece /\ e.at \in Int /\ End(e) \in Int
      BY <1>6, EndIs
    <3>1. Says(Before(e), p, b) <=> e.at <= p /\ p < o /\ Says(e, p, b)
      BY <3>0, <1>2, PartIs
    <3>2. Says(After(e), p, b) <=>
             o + Len(d) <= p /\ p < End(e) /\ Says(e, p, b)
      BY <3>0, <1>2, PartIs
    <3>3. Says(e, p, b) => e.at <= p /\ p < End(e)
      BY DEF Says, Covers
    <3>4. ~(o <= p /\ p < o + Len(d)) <=> p < o \/ o + Len(d) <= p
      BY <1>2
    <3> QED
      BY <3>1, <3>2, <3>3, <3>4
  <2>2. Logs(parts, p, b) <=>
           \E e \in kept : Says(Before(e), p, b) \/ Says(After(e), p, b)
    BY DEF Logs
  <2> QED
    BY <2>1, <2>2 DEF Logs
<1>15. parts \subseteq Piece
  <2>1. ASSUME NEW e \in kept PROVE Before(e) \in Piece /\ After(e) \in Piece
    <3>0. e \in Piece /\ e.at \in Int /\ End(e) \in Int
      BY <1>6, EndIs
    <3>1. Part(e, e.at, o) \in Piece
      BY <3>0, <1>2, PartIs
    <3>2. Part(e, o + Len(d), End(e)) \in Piece
      BY <3>0, <1>2, PartIs
    <3> QED
      BY <3>1, <3>2
  <2> QED
    BY <2>1
<1> HIDE DEF parts
<1>16. ASSUME NEW p \in Int, NEW b
       PROVE  Logs(Logged(m, o, d), p, b) <=>
                 \/ Says(new, p, b)
                 \/ /\ ~(o <= p /\ p < o + Len(d)) /\ cut <= p
                    /\ Logs(m.log, p, b)
  <2>1. Logs(Visible(parts), p, b) <=> Logs(parts, p, b)
    BY <1>15, VisibleLogs
  <2>2. Logs(Logged(m, o, d), p, b) <=>
           Says(new, p, b) \/ Logs(Visible(parts), p, b)
    BY <1>3 DEF Logs
  <2> QED
    BY <2>1, <2>2, <1>8, <1>14
<1>17. Logged(m, o, d) \subseteq Piece /\ \A e \in Logged(m, o, d) : Proper(e)
  BY <1>1, <1>3, <1>9, <1>13
<1>18. ASSUME NEW e \in Logged(m, o, d)
       PROVE  e = new \/ \E x \in m.log : x.at <= e.at /\ End(e) <= End(x)
  BY <1>3, <1>9
<1> QED
  BY <1>0, <1>1, <1>12, <1>16, <1>17, <1>18

-----------------------------------------------------------------------------
(* write(): the buffer.                                                      *)

Within(o, d, p) == o <= p /\ p < o + Len(d)
Written(m, o, d) == [m EXCEPT !.buffer = Overlay(@, o - m.offset, d)]

LEMMA WrittenIs ==
    ASSUME NEW m \in Managers, NEW o \in Nat, NEW d, IsData(d), m.offset <= o
    PROVE  /\ Written(m, o, d) \in Managers
           /\ Written(m, o, d).offset = m.offset /\ Written(m, o, d).pos = m.pos
           /\ Written(m, o, d).log = m.log /\ Written(m, o, d).ready = m.ready
           /\ Written(m, o, d).started = m.started
           /\ Cursor(Written(m, o, d)) = Cursor(m)
           /\ \A p \in Int : \A b \in Nat \ {0} :
                 Holds(Written(m, o, d), p, b) <=>
                     \/ Says(Piece1(o, d), p, b)
                     \/ ~Within(o, d, p) /\ Holds(m, p, b)
<1>0. /\ m.offset \in Nat /\ m.buffer \in Seq(Nat) /\ Len(m.buffer) \in Nat
  BY ManagerIs
<1>11. o \in Int
  OBVIOUS
<1>1. Len(d) \in Nat /\ 1 <= Len(d)
  BY <1>11, PieceIs
<1>2. PICK i \in Nat : i = o - m.offset
  BY <1>0
<1>3. PICK buffer : buffer = Overlay(m.buffer, i, d)
  OBVIOUS
<1>4. Written(m, o, d) = [m EXCEPT !.buffer = buffer]
  BY <1>2, <1>3 DEF Written
<1>5. Written(m, o, d) = [offset |-> m.offset, buffer |-> buffer, pos |-> m.pos,
                          log |-> m.log, ready |-> m.ready, started |-> m.started]
  BY <1>4 DEF Managers
<1>6. PICK len \in Nat : len = IF i + Len(d) > Len(m.buffer)
                               THEN i + Len(d) ELSE Len(m.buffer)
  BY <1>0, <1>1
<1>7. /\ buffer \in Seq(Nat) /\ Len(buffer) = len
      /\ \A k \in 1..len : buffer[k] = IF i < k /\ k <= i + Len(d) THEN d[k - i]
                                       ELSE IF k <= Len(m.buffer)
                                            THEN m.buffer[k] ELSE 0
  <2>1. PICK s \in Seq(Nat) : s = m.buffer
    BY <1>0
  <2>2. buffer = Overlay(s, i, d)
    BY <1>3, <2>1
  <2>3. /\ buffer \in Seq(Nat)
        /\ Len(buffer) = IF i + Len(d) > Len(s) THEN i + Len(d) ELSE Len(s)
        /\ \A k \in 1..Len(buffer) :
              buffer[k] = IF i < k /\ k <= i + Len(d) THEN d[k - i]
                          ELSE IF k <= Len(s) THEN s[k] ELSE 0
    BY <2>2, OverlayIs
  <2>4. Len(buffer) = len
    BY <2>1, <2>3, <1>6
  <2> QED
    BY <2>1, <2>3, <2>4
<1>8. Written(m, o, d) \in Managers
  BY <1>5, <1>7, ManagerIs DEF Managers
<1>9. Cursor(Written(m, o, d)) = Cursor(m)
  BY <1>5 DEF Cursor
<1>10. ASSUME NEW p \in Int, NEW b \in Nat \ {0}
       PROVE  Holds(Written(m, o, d), p, b) <=>
                  \/ Says(Piece1(o, d), p, b)
                  \/ ~Within(o, d, p) /\ Holds(m, p, b)
  <2>1. PICK k \in Int : k = p - m.offset + 1
    BY <1>0
  <2>2. Holds(Written(m, o, d), p, b) <=> k \in 1..len /\ buffer[k] = b
    <3>1. Holds(Written(m, o, d), p, b) <=>
             m.offset <= p /\ p < m.offset + len /\ buffer[k] = b
      BY <1>5, <1>7, <2>1 DEF Holds
    <3>2. m.offset <= p /\ p < m.offset + len <=> k \in 1..len
      BY <1>0, <2>1
    <3> QED
      BY <3>1, <3>2
  <2>3. Holds(m, p, b) <=> k \in 1..Len(m.buffer) /\ m.buffer[k] = b
    <3>1. Holds(m, p, b) <=>
             m.offset <= p /\ p < m.offset + Len(m.buffer) /\ m.buffer[k] = b
      BY <2>1 DEF Holds
    <3>2. m.offset <= p /\ p < m.offset + Len(m.buffer) <=> k \in 1..Len(m.buffer)
      BY <1>0, <2>1
    <3> QED
      BY <3>1, <3>2
  <2>4. Within(o, d, p) <=> i < k /\ k <= i + Len(d)
    BY <1>0, <1>1, <1>2, <2>1 DEF Within
  <2>5. Says(Piece1(o, d), p, b) <=> Within(o, d, p) /\ d[k - i] = b
    <3>1. Says(Piece1(o, d), p, b) <=> Within(o, d, p) /\ d[p - o + 1] = b
      <4>1. Says(Piece1(o, d), p, b) <=>
               o <= p /\ p < o + Len(d) /\ d[p - o + 1] = b
        BY <1>11, PieceSays
      <4> QED
        BY <4>1 DEF Within
    <3>2. k - i = p - o + 1
      BY <1>0, <1>2, <2>1
    <3> QED
      BY <3>1, <3>2
  <2>6. CASE Within(o, d, p)
    <3>1. i < k /\ k <= i + Len(d)
      BY <2>4, <2>6
    <3>2. k \in 1..len
      BY <3>1, <1>0, <1>1, <1>6
    <3>3. buffer[k] = d[k - i]
      BY <3>1, <3>2, <1>7
    <3> QED
      BY <3>2, <3>3, <2>2, <2>5, <2>6
  <2>7. CASE ~Within(o, d, p)
    <3>1. k \in 1..Len(m.buffer) => k \in 1..len
      BY <1>0, <1>1, <1>6
    <3>2. k \in 1..len => buffer[k] = IF k <= Len(m.buffer) THEN m.buffer[k] ELSE 0
      BY <2>4, <2>7, <1>7
    <3>3. k \in 1..len /\ k <= Len(m.buffer) => k \in 1..Len(m.buffer)
      BY <1>0
    <3>4. k \in 1..Len(m.buffer) => k <= Len(m.buffer)
      BY <1>0
    <3>5. k \in 1..len /\ buffer[k] = b <=> k \in 1..Len(m.buffer) /\ m.buffer[k] = b
      BY <3>1, <3>2, <3>3, <3>4
    <3> QED
      BY <3>5, <2>2, <2>3, <2>5, <2>7
  <2> QED
    BY <2>6, <2>7
<1> QED
  BY <1>5, <1>8, <1>9, <1>10

(* The buffer a far packet is written to: compacted first.                   *)
WithLog(m, log) == [m EXCEPT !.log = log]
Near(m, o) == IF o - m.offset > Span THEN Compact(m) ELSE m

LEMMA WithLogIs ==
    ASSUME NEW m \in Managers, NEW log \in SUBSET Piece
    PROVE  /\ WithLog(m, log) \in Managers /\ WithLog(m, log).log = log
           /\ WithLog(m, log).offset = m.offset /\ WithLog(m, log).pos = m.pos
           /\ WithLog(m, log).ready = m.ready
           /\ WithLog(m, log).started = m.started
           /\ WithLog(m, log).buffer = m.buffer
           /\ Cursor(WithLog(m, log)) = Cursor(m)
           /\ \A p, b : Holds(WithLog(m, log), p, b) <=> Holds(m, p, b)
<1>1. WithLog(m, log) = [offset |-> m.offset, buffer |-> m.buffer, pos |-> m.pos,
                         log |-> log, ready |-> m.ready, started |-> m.started]
  BY DEF WithLog, Managers
<1>2. WithLog(m, log) \in Managers
  BY <1>1, ManagerIs DEF Managers
<1> QED
  BY <1>1, <1>2 DEF Cursor, Holds

LEMMA NearIs ==
    ASSUME NEW m \in Managers, m.ready, NEW o \in Nat, Cursor(m) <= o
    PROVE  /\ Near(m, o) \in Managers /\ Near(m, o).ready
           /\ Near(m, o).started = m.started
           /\ Cursor(Near(m, o)) = Cursor(m)
           /\ m.offset <= Near(m, o).offset /\ Near(m, o).offset <= Cursor(m)
           /\ m.pos = 0 => Near(m, o).pos = 0 /\ Near(m, o).offset = m.offset
           /\ Near(m, o).log \subseteq m.log
           /\ \A e \in m.log : e \in Near(m, o).log \/ End(e) <= Cursor(m)
           /\ o - Near(m, o).offset > Span <=> o - Cursor(m) > Span
           /\ \A p \in Int : \A b : Cursor(m) <= p =>
                 (Holds(Near(m, o), p, b) <=> Holds(m, p, b))
<1>0. /\ m.offset \in Nat /\ m.pos \in Nat /\ Cursor(m) \in Nat
      /\ Cursor(m) = m.offset + m.pos /\ m.log \subseteq Piece
  BY ManagerIs
<1>1. CASE o - m.offset > Span
  <2>1. Near(m, o) = Compact(m)
    BY <1>1 DEF Near
  <2>2. /\ Compact(m) \in Managers /\ Compact(m).ready
        /\ Compact(m).started = m.started
        /\ Compact(m).offset = Cursor(m) /\ Compact(m).pos = 0
        /\ Cursor(Compact(m)) = Cursor(m)
        /\ Compact(m).log = {e \in m.log : m.pos = 0 \/ End(e) > Cursor(m)}
        /\ \A p \in Int : \A b : Cursor(m) <= p =>
              (Holds(Compact(m), p, b) <=> Holds(m, p, b))
    BY CompactIs
  <2>3. \A e \in m.log : e \in Compact(m).log \/ End(e) <= Cursor(m)
    <3>1. \A e \in m.log : End(e) \in Int
      BY <1>0, EndIs
    <3> QED
      BY <3>1, <2>2, <1>0
  <2>4. m.offset <= Cursor(m) /\ (m.pos = 0 => Cursor(m) = m.offset)
    BY <1>0
  <2> QED
    BY <2>1, <2>2, <2>3, <2>4, <1>0
<1>2. CASE ~(o - m.offset > Span)
  <2>1. Near(m, o) = m
    BY <1>2 DEF Near
  <2>2. ~(o - Cursor(m) > Span)
    <3>1. o - Cursor(m) <= o - m.offset
      BY <1>0
    <3> QED
      BY <3>1, <1>0, <1>2, SpanAssumption
  <2>3. m.offset <= Cursor(m)
    BY <1>0
  <2>4. o - m.offset > Span <=> o - Cursor(m) > Span
    BY <2>2, <1>2
  <2>5. PICK r : r = Near(m, o)
    OBVIOUS
  <2>6. r = m
    BY <2>1, <2>5
  <2>7. /\ r \in Managers /\ r.ready /\ r.started = m.started
        /\ Cursor(r) = Cursor(m) /\ m.offset <= r.offset /\ r.offset <= Cursor(m)
        /\ m.pos = 0 => r.pos = 0 /\ r.offset = m.offset
        /\ r.log \subseteq m.log
        /\ \A e \in m.log : e \in r.log \/ End(e) <= Cursor(m)
    BY <2>3, <2>6, <1>0
  <2>8. \A p \in Int : \A b : Cursor(m) <= p => (Holds(r, p, b) <=> Holds(m, p, b))
    BY <2>6
  <2>9. o - r.offset > Span <=> o - Cursor(m) > Span
    BY <2>4, <2>6
  <2> QED
    BY <2>5, <2>7, <2>8, <2>9
<1> QED
  BY <1>1, <1>2

LEMMA HasByte ==
    ASSUME NEW m \in Managers, NEW p \in Int, NEW b, Has(m, p, b)
    PROVE  b \in Nat \ {0}
  BY HoldsByte DEF Has, Silence

(* d over what there was, played from where it was or from d on.             *)
Filled(m, r, o, d) ==
    /\ Cursor(m) <= o /\ o - Cursor(m) <= Span
    /\ Cursor(r) = Cursor(m) /\ (r.started <=> m.started)
    /\ \A p \in Int : \A b \in Nat \ {0} : Has(r, p, b) <=>
          \/ Says(Piece1(o, d), p, b)
          \/ ~Within(o, d, p) /\ Has(m, p, b)
Earlier(m, r, o, d) ==
    /\ o < Cursor(m) /\ Cursor(m) - o < Erase /\ ~m.started
    /\ Cursor(r) = o /\ ~r.started
    /\ \A p \in Int : \A b \in Nat \ {0} : Has(r, p, b) <=>
          \/ Says(Piece1(o, d), p, b)
          \/ ~Within(o, d, p) /\ Logs(m.log, p, b)
Fresh(m, r, o, d) ==
    /\ Cursor(r) = o /\ ~r.started
    /\ \A p \in Int : \A b \in Nat \ {0} :
          Has(r, p, b) <=> Says(Piece1(o, d), p, b)

LEMMA InsertIs ==
    ASSUME NEW m \in Managers, NEW o \in Nat, NEW d,
           NEW log, log = Logged(m, o, d),
           NEW near, near = Near(WithLog(m, log), o),
           NEW far \in BOOLEAN, far <=> o - near.offset > Span
    PROVE  /\ o < m.offset /\ m.offset - o >= Erase => Insert(m, o, d) = Reset(o, d)
           /\ o < m.offset /\ m.offset - o < Erase =>
                 Insert(m, o, d) = Rebuild([WithLog(m, log) EXCEPT !.offset = o])
           /\ m.offset <= o /\ far => Insert(m, o, d) = Reset(o, d)
<1>0. m.offset \in Nat /\ o \in Int /\ m.offset \in Int
  BY DEF Managers
<1>1. PICK logged : logged = WithLog(m, log)
  OBVIOUS
<1>2. logged = [m EXCEPT !.log = Logged(m, o, d)]
  BY <1>1 DEF WithLog
<1>3. logged.offset = m.offset
  BY <1>2 DEF Managers
<1>4. near = Near(logged, o)
  BY <1>1
<1>5. near = IF o - m.offset > Span THEN Compact(logged) ELSE logged
  BY <1>3, <1>4 DEF Near
<1>6. Insert(m, o, d) =
        CASE o < m.offset /\ m.offset - o >= Erase -> Reset(o, d)
          [] o < m.offset /\ m.offset - o < Erase ->
                 Rebuild([logged EXCEPT !.offset = o])
          [] o >= m.offset /\ o - near.offset > Span -> Reset(o, d)
          [] OTHER -> Written(near, o, d)
  BY <1>2, <1>5 DEF Insert, Written
<1>7. Erase \in Int
  BY SpanAssumption
<1>8. /\ m.offset <= o => ~(o < m.offset)
      /\ m.offset <= o <=> o >= m.offset
      /\ m.offset - o < Erase => ~(m.offset - o >= Erase)
      /\ o < m.offset => ~(o >= m.offset)
  BY <1>0, <1>7
<1>9. o < m.offset /\ m.offset - o >= Erase => Insert(m, o, d) = Reset(o, d)
  BY <1>6, <1>8
<1>10. o < m.offset /\ m.offset - o < Erase =>
           Insert(m, o, d) = Rebuild([logged EXCEPT !.offset = o])
  BY <1>6, <1>8
<1>11. m.offset <= o /\ o - near.offset > Span => Insert(m, o, d) = Reset(o, d)
  BY <1>6, <1>8
<1> QED
  BY <1>1, <1>9, <1>10, <1>11

LEMMA InsertBefore ==
    ASSUME NEW m \in Managers, NEW o \in Nat, NEW d,
           o < m.offset, m.offset - o < Erase
    PROVE  Insert(m, o, d) =
               Rebuild([WithLog(m, Logged(m, o, d)) EXCEPT !.offset = o])
<1>1. PICK near : near = Near(WithLog(m, Logged(m, o, d)), o)
  OBVIOUS
<1>2. PICK far \in BOOLEAN : far <=> o - near.offset > Span
  OBVIOUS
<1> QED
  BY <1>1, <1>2, InsertIs

LEMMA InsertOver ==
    ASSUME NEW m \in Managers, NEW o \in Nat, NEW d,
           NEW near, near = Near(WithLog(m, Logged(m, o, d)), o),
           m.offset <= o, ~(o - near.offset > Span)
    PROVE  Insert(m, o, d) = Written(near, o, d)
<1>0. m.offset \in Nat /\ o \in Int /\ m.offset \in Int
  BY DEF Managers
<1>1. PICK logged : logged = [m EXCEPT !.log = Logged(m, o, d)]
  OBVIOUS
<1>2. logged.offset = m.offset
  BY <1>1 DEF Managers
<1>3. near = IF o - m.offset > Span THEN Compact(logged) ELSE logged
  BY <1>1, <1>2 DEF Near, WithLog
<1>4. ~(o < m.offset) /\ o >= m.offset
  BY <1>0
<1>5. Insert(m, o, d) =
        CASE o < m.offset /\ m.offset - o >= Erase -> Reset(o, d)
          [] o < m.offset /\ m.offset - o < Erase ->
                 Rebuild([logged EXCEPT !.offset = o])
          [] o >= m.offset /\ o - near.offset > Span -> Reset(o, d)
          [] OTHER -> Written(near, o, d)
  BY <1>1, <1>3 DEF Insert, Written
<1> QED
  BY <1>4, <1>5

(* An earlier packet, before playout has started.                            *)
LEMMA EarlierKeeps ==
    ASSUME NEW m, Sound(m), m.ready, NEW o \in Nat, NEW d, IsData(d),
           Cutoff(m, o) \in Int, Cutoff(m, o) <= o,
           \A e \in m.log : e.at <= Cutoff(m, o) + Span,
           o < m.offset, m.offset - o < Erase, ~m.started,
           NEW r, r = Rebuild([WithLog(m, Logged(m, o, d)) EXCEPT !.offset = o])
    PROVE  Sound(r) /\ r.ready /\ Earlier(m, r, o, d)
<1>0. m \in Managers /\ m.pos = 0 /\ \A e \in m.log : m.offset <= e.at
  BY DEF Sound
<1>1. /\ m.offset \in Nat /\ Cursor(m) = m.offset /\ m.log \subseteq Piece
      /\ m.log \in SUBSET Piece
  BY <1>0, ManagerIs
<1>2. PICK log \in SUBSET Piece : log = Logged(m, o, d)
  BY <1>0, LoggedIs, SoundIs
<1>3. PICK new \in Piece : new = Piece1(o, d) /\ new.at = o /\ End(new) = o + Len(d)
  BY PieceIs
<1>4. Len(d) \in Nat /\ Len(d) <= Largest /\ o \in Int /\ Span \in Nat
  BY PieceIs, SpanAssumption
<1>5. /\ Apart(log) /\ \A e \in log : Proper(e)
      /\ \A e \in log : \/ e = new
                        \/ \E x \in m.log : x.at <= e.at /\ End(e) <= End(x)
      /\ \A p \in Int : \A b : Logs(log, p, b) <=>
            \/ Says(new, p, b)
            \/ /\ ~Within(o, d, p) /\ Cutoff(m, o) <= p /\ Logs(m.log, p, b)
  BY <1>0, <1>2, <1>3, LoggedIs, SoundIs DEF Within
<1>6. PICK s : s = [offset |-> o, buffer |-> m.buffer, pos |-> 0, log |-> log,
                    ready |-> TRUE, started |-> FALSE]
  OBVIOUS
<1>7. r = Rebuild(s)
  <2>1. m = [offset |-> m.offset, buffer |-> m.buffer, pos |-> 0, log |-> m.log,
             ready |-> TRUE, started |-> FALSE]
    BY <1>0, ManagerIs
  <2>3. PICK w \in Managers : w = WithLog(m, log)
    BY <1>0, WithLogIs
  <2>4. /\ w.pos = 0 /\ w.ready /\ ~w.started /\ w.log = log
        /\ w.buffer = m.buffer
    BY <2>1, <2>3, <1>0, WithLogIs
  <2>5. w.ready = TRUE /\ w.started = FALSE
    BY <2>4 DEF Managers
  <2>7. w = [offset |-> w.offset, buffer |-> w.buffer, pos |-> w.pos,
             log |-> w.log, ready |-> w.ready, started |-> w.started]
    BY ManagerIs
  <2>6. [w EXCEPT !.offset = o] =
            [offset |-> o, buffer |-> w.buffer, pos |-> w.pos, log |-> w.log,
             ready |-> w.ready, started |-> w.started]
    BY <2>7
  <2>2. [w EXCEPT !.offset = o] = s
    BY <2>4, <2>5, <2>6, <1>6
  <2> QED
    BY <2>2, <2>3, <1>2
<1>8. s \in Managers /\ Apart(s.log)
  BY <1>0, <1>5, <1>6, ManagerIs DEF Managers
<1>9. \A e \in log : End(e) <= o + Span + Largest /\ o <= e.at
  <2> SUFFICES ASSUME NEW e \in log PROVE End(e) <= o + Span + Largest /\ o <= e.at
    OBVIOUS
  <2>0. e.at \in Int /\ End(e) \in Int
    BY EndIs
  <2>1. CASE e = new
    <3>1. o + Len(d) <= o + Span + Largest
      BY <1>4
    <3> QED
      BY <2>1, <1>3, <3>1, <1>4
  <2>2. CASE \E x \in m.log : x.at <= e.at /\ End(e) <= End(x)
    <3>1. PICK x \in m.log : x.at <= e.at /\ End(e) <= End(x)
      BY <2>2
    <3>2. /\ x.at \in Int /\ End(x) \in Int /\ Len(x.data) \in Nat
          /\ End(x) = x.at + Len(x.data)
      BY <1>1, EndIs
    <3>3. Len(x.data) <= Largest
      BY SoundIs DEF Proper
    <3>4. x.at <= o + Span
      BY <3>2, <1>4
    <3>5. m.offset <= x.at
      BY <1>0
    <3>6. End(e) <= o + Span + Largest
      BY <3>1, <3>2, <3>3, <3>4, <2>0, <1>4
    <3>7. o <= e.at
      BY <3>1, <3>2, <3>5, <2>0, <1>1, <1>4
    <3> QED
      BY <3>6, <3>7
  <2> QED
    BY <2>1, <2>2, <1>5
<1>10. PICK top \in Int : top = o + Span + Largest
  BY <1>4
<1>11. /\ r \in Managers /\ r.offset = o /\ r.pos = 0 /\ r.log = log
       /\ r.ready /\ ~r.started
       /\ \A p \in Int : \A b \in Nat \ {0} : o <= p =>
             (Holds(r, p, b) <=> Logs(log, p, b))
  <2>1. \A e \in s.log : End(e) <= top
    BY <1>6, <1>9, <1>10
  <2>2. /\ Rebuild(s) \in Managers
        /\ Rebuild(s).offset = s.offset /\ Rebuild(s).pos = s.pos
        /\ Rebuild(s).log = s.log /\ Rebuild(s).ready = s.ready
        /\ Rebuild(s).started = s.started
        /\ \A p \in Int : \A b \in Nat \ {0} : s.offset <= p =>
              (Holds(Rebuild(s), p, b) <=> Logs(s.log, p, b))
    BY <2>1, <1>8, RebuildIs
  <2> QED
    BY <2>2, <1>6, <1>7
<1>12. Cursor(r) = o
  BY <1>11, <1>4 DEF Cursor
<1>13. ASSUME NEW p \in Int, NEW b \in Nat \ {0}
       PROVE  Has(r, p, b) <=> o <= p /\ Logs(log, p, b)
  BY <1>11, <1>12 DEF Has, Silence
<1>14. LogHeld(r)
  BY <1>11, <1>12 DEF LogHeld
<1>15. Forgotten(r)
  BY <1>11, <1>13 DEF Forgotten
<1>16. Sound(r)
  BY <1>5, <1>9, <1>11, <1>14, <1>15 DEF Sound
<1>17. ASSUME NEW p \in Int, NEW b \in Nat \ {0}
       PROVE  Has(r, p, b) <=> \/ Says(new, p, b)
                               \/ ~Within(o, d, p) /\ Logs(m.log, p, b)
  <2>1. Says(new, p, b) => o <= p
    BY <1>3 DEF Says, Covers
  <2>2. Logs(m.log, p, b) => o <= p
    <3> SUFFICES ASSUME NEW e \in m.log, Says(e, p, b) PROVE o <= p
      BY DEF Logs
    <3>1. e.at <= p /\ m.offset <= e.at /\ e.at \in Int
      BY <1>0, <1>1, EndIs DEF Says, Covers
    <3> QED
      BY <3>1, <1>1, <1>4
  <2>3. o <= p => Cutoff(m, o) <= p
    BY <1>4
  <2> QED
    BY <2>1, <2>2, <2>3, <1>5, <1>13
<1>18. o < Cursor(m) /\ Cursor(m) - o < Erase
  BY <1>1
<1> QED
  BY <1>3, <1>11, <1>12, <1>16, <1>17, <1>18 DEF Earlier

(* A packet at or after the start of the buffer, within Span of the cursor.  *)
LEMMA FilledKeeps ==
    ASSUME NEW m, Sound(m), m.ready, NEW o \in Nat, NEW d, IsData(d),
           NEW newest \in Int, Cutoff(m, o) = newest - Span,
           newest = o \/ \E e \in m.log : e.at = newest,
           Cursor(m) <= o, o - Cursor(m) <= Span,
           NEW near, near = Near(WithLog(m, Logged(m, o, d)), o),
           NEW r, r = Written(near, o, d)
    PROVE  Sound(r) /\ r.ready /\ Filled(m, r, o, d)
<1>0. m \in Managers /\ o \in Int
  BY DEF Sound
<1>1. /\ m.offset \in Nat /\ Cursor(m) \in Nat /\ m.log \subseteq Piece
      /\ m.pos \in Nat /\ Cursor(m) = m.offset + m.pos
  BY <1>0, ManagerIs
<1>2. PICK cut \in Int : cut = Cutoff(m, o)
  BY SpanAssumption
<1>3. PICK log \in SUBSET Piece : log = Logged(m, o, d)
  BY <1>0, <1>2, LoggedIs, SoundIs
<1>4. PICK new \in Piece : new = Piece1(o, d) /\ new.at = o /\ End(new) = o + Len(d)
  BY <1>0, PieceIs
<1>5. Len(d) \in Nat /\ 1 <= Len(d) /\ Len(d) <= Largest /\ o \in Int /\ Span \in Nat
  BY <1>0, PieceIs, SpanAssumption
<1>6. /\ Apart(log) /\ \A e \in log : Proper(e)
      /\ \A e \in log : \/ e = new
                        \/ \E x \in m.log : x.at <= e.at /\ End(e) <= End(x)
      /\ \A p \in Int : \A b : Logs(log, p, b) <=>
            \/ Says(new, p, b)
            \/ /\ ~Within(o, d, p) /\ cut <= p /\ Logs(m.log, p, b)
  BY <1>0, <1>2, <1>3, <1>4, LoggedIs, SoundIs DEF Within
<1>7. PICK w \in Managers : w = WithLog(m, log)
  BY <1>0, WithLogIs
<1>8. /\ w.log = log /\ w.offset = m.offset /\ w.pos = m.pos /\ w.ready
      /\ w.started = m.started /\ Cursor(w) = Cursor(m)
      /\ \A p, b : Holds(w, p, b) <=> Holds(m, p, b)
  BY <1>0, <1>7, WithLogIs
<1>9. near = Near(w, o)
  BY <1>3, <1>7
<1>10. /\ near \in Managers /\ near.ready /\ near.started = m.started
       /\ Cursor(near) = Cursor(m)
       /\ m.offset <= near.offset /\ near.offset <= Cursor(m)
       /\ m.pos = 0 => near.pos = 0 /\ near.offset = m.offset
       /\ near.log \subseteq log
       /\ \A e \in log : e \in near.log \/ End(e) <= Cursor(m)
       /\ \A p \in Int : \A b : Cursor(m) <= p =>
             (Holds(near, p, b) <=> Holds(m, p, b))
  BY <1>8, <1>9, NearIs
<1>11. near.offset \in Nat /\ near.offset <= o
  BY <1>1, <1>5, <1>10, ManagerIs
<1>12. /\ r \in Managers /\ r.offset = near.offset /\ r.pos = near.pos
       /\ r.log = near.log /\ r.ready /\ r.started = m.started
       /\ Cursor(r) = Cursor(m)
       /\ \A p \in Int : \A b \in Nat \ {0} : Holds(r, p, b) <=>
             Says(new, p, b) \/ (~Within(o, d, p) /\ Holds(near, p, b))
  BY <1>4, <1>10, <1>11, WrittenIs
<1>13. ASSUME NEW p \in Int, NEW b \in Nat \ {0}
       PROVE  Has(r, p, b) <=> Says(new, p, b) \/ (~Within(o, d, p) /\ Has(m, p, b))
  <2>1. Says(new, p, b) => Cursor(m) <= p
    BY <1>1, <1>4, <1>5 DEF Says, Covers
  <2> QED
    BY <2>1, <1>10, <1>12 DEF Has, Silence
<1>14. ASSUME NEW p \in Int, Within(o, d, p) PROVE \E b \in Nat : Has(r, p, b)
  <2>1. d[p - o + 1] \in Nat \ {0} /\ Says(Piece1(o, d), p, d[p - o + 1])
    BY <1>5, <1>14, PieceByte DEF Within
  <2> QED
    BY <2>1, <1>4, <1>13
<1>15. ASSUME NEW p \in Int, NEW b, Has(m, p, b)
       PROVE  \E c \in Nat : Has(r, p, c)
  <2>1. b \in Nat \ {0}
    BY <1>0, <1>15, HasByte
  <2> QED
    BY <2>1, <1>13, <1>14, <1>15
<1>16. ASSUME NEW e \in r.log
       PROVE  Proper(e) /\ End(e) <= r.offset + Span + Largest
  <2>0. e \in log /\ e.at \in Int /\ End(e) \in Int
    BY <1>10, <1>12, EndIs
  <2>1. CASE e = new
    <3>1. o <= near.offset + m.pos + Span
      <4>1. Cursor(near) = near.offset + near.pos /\ near.pos \in Nat
        BY <1>10, ManagerIs
      <4>2. o - near.offset <= Span + m.pos
        BY <1>1, <1>5, <1>10, <1>11
      <4>3. m.pos \in Nat /\ near.offset \in Int /\ Span \in Int /\ o \in Int
        BY <1>1, <1>5, <1>11
      <4> QED
        BY <4>2, <4>3
    <3>2. o - near.offset <= Span
      <4>1. CASE o - m.offset > Span
        <5>1. near = Compact(w) /\ Compact(w).offset = Cursor(w)
          BY <4>1, <1>8, <1>9, CompactIs DEF Near
        <5> QED
          BY <5>1, <1>8
      <4>2. CASE ~(o - m.offset > Span)
        BY <4>2, <1>1, <1>5, <1>10, <1>11
      <4> QED
        BY <4>1, <4>2
    <3>3. o + Len(d) <= near.offset + Span + Largest
      BY <3>2, <1>5, <1>11
    <3> QED
      BY <2>0, <2>1, <3>3, <1>4, <1>6, <1>12
  <2>2. CASE \E x \in m.log : x.at <= e.at /\ End(e) <= End(x)
    <3>1. PICK x \in m.log : x.at <= e.at /\ End(e) <= End(x)
      BY <2>2
    <3>2. End(x) \in Int /\ End(x) <= m.offset + Span + Largest
      BY <1>1, EndIs, SoundIs
    <3>3. End(e) <= near.offset + Span + Largest
      <4>1. m.offset <= near.offset /\ m.offset \in Int /\ near.offset \in Int
            /\ Span \in Int
        <5>1. m.offset \in Int
          BY <1>1
        <5>2. m.offset <= near.offset
          BY <1>10
        <5>3. near.offset \in Int
          BY <1>11
        <5>4. Span \in Int
          BY SpanAssumption
        <5> QED
          BY <5>1, <5>2, <5>3, <5>4
      <4> QED
        BY <4>1, <3>1, <3>2, <2>0
    <3> QED
      BY <2>0, <3>3, <1>6, <1>12
  <2> QED
    BY <2>0, <2>1, <2>2, <1>6
<1>17. Apart(r.log)
  BY <1>6, <1>10, <1>12 DEF Apart
<1>18. LogHeld(r)
  <2> SUFFICES ASSUME NEW p \in Int, NEW b \in Nat \ {0}, Cursor(r) <= p,
                      Logs(r.log, p, b)
               PROVE  Holds(r, p, b)
    BY DEF LogHeld
  <2>1. Logs(log, p, b)
    BY <1>10, <1>12 DEF Logs
  <2>2. Says(new, p, b) \/ (~Within(o, d, p) /\ Logs(m.log, p, b))
    BY <2>1, <1>6
  <2>3. Logs(m.log, p, b) => Holds(near, p, b)
    BY <1>10, <1>12, SoundIs DEF LogHeld
  <2> QED
    BY <2>2, <2>3, <1>12
<1>19. Forgotten(r)
  <2> SUFFICES ASSUME NEW p \in Int, NEW b \in Nat \ {0}, Has(r, p, b)
               PROVE  Logs(r.log, p, b) \/ TooOld(r, p)
    BY DEF Forgotten
  <2>1. Cursor(m) <= p
    BY <1>12 DEF Has
  <2>2. Logs(log, p, b) => Logs(r.log, p, b)
    <3> SUFFICES ASSUME NEW e \in log, Says(e, p, b) PROVE Logs(r.log, p, b)
      BY DEF Logs
    <3>1. p < End(e) /\ End(e) \in Int
      BY EndIs DEF Says, Covers
    <3>2. e \in near.log
      BY <2>1, <3>1, <1>1, <1>10
    <3> QED
      BY <3>2, <1>12 DEF Logs
  <2>3. CASE Says(new, p, b)
    BY <2>2, <2>3, <1>6
  <2>4. CASE ~Within(o, d, p) /\ Has(m, p, b)
    <3>1. CASE TooOld(m, p)
      <4>1. PICK q \in Int : q - p > Span /\ \E c \in Nat : Has(m, q, c)
        BY <3>1 DEF TooOld
      <4>2. \E c \in Nat : Has(r, q, c)
        BY <4>1, <1>15
      <4> QED
        BY <4>1, <4>2 DEF TooOld
    <3>2. CASE Logs(m.log, p, b) /\ cut <= p
      BY <2>2, <2>4, <3>2, <1>6
    <3>3. CASE ~(cut <= p)
      <4>1. newest - p > Span
        BY <3>3, <1>2, <1>5
      <4>2. \E c \in Nat : Has(r, newest, c)
        <5>1. CASE newest = o
          <6>1. Within(o, d, o)
            BY <1>5 DEF Within
          <6> QED
            BY <5>1, <6>1, <1>14
        <5>2. CASE \E e \in m.log : e.at = newest
          <6>1. PICK e \in m.log : e.at = newest
            BY <5>2
          <6>2. /\ e \in Piece /\ Len(e.data) \in Nat /\ End(e) = e.at + Len(e.data)
                /\ e.data # <<>> /\ e.data \in Seq(Nat \ {0})
            BY <1>1, EndIs, SoundIs DEF Proper
          <6>3. Len(e.data) > 0
            BY <6>2
          <6>4. Covers(e, newest)
            BY <6>1, <6>2, <6>3 DEF Covers
          <6>5. PICK c \in Nat \ {0} : Says(e, newest, c)
            BY <6>2, <6>4, SaysByte
          <6>6. Cursor(m) <= newest
            BY <2>1, <4>1, <1>1, <1>5
          <6>7. Logs(m.log, newest, c)
            BY <6>5 DEF Logs
          <6>8. Has(m, newest, c)
            BY <6>6, <6>7, SoundIs DEF LogHeld, Has, Silence
          <6> QED
            BY <6>8, <1>15
        <5> QED
          BY <5>1, <5>2
      <4> QED
        BY <4>1, <4>2 DEF TooOld
    <3>4. Logs(m.log, p, b) \/ TooOld(m, p)
      BY <2>4, SoundIs DEF Forgotten
    <3> QED
      BY <3>1, <3>2, <3>3, <3>4
  <2> QED
    BY <2>3, <2>4, <1>13
<1>20. ~r.started => r.pos = 0 /\ \A e \in r.log : r.offset <= e.at
  <2> SUFFICES ASSUME ~r.started
               PROVE  r.pos = 0 /\ \A e \in r.log : r.offset <= e.at
    OBVIOUS
  <2>1. m.pos = 0 /\ \A e \in m.log : m.offset <= e.at
    BY <1>12 DEF Sound
  <2>2. near.pos = 0 /\ near.offset = m.offset
    BY <2>1, <1>10
  <2>3. ASSUME NEW e \in r.log PROVE m.offset <= e.at
    <3>0. e \in log /\ e.at \in Int
      BY <1>10, <1>12, EndIs
    <3>1. CASE e = new
      BY <3>1, <2>1, <1>1, <1>4, <1>5
    <3>2. CASE \E x \in m.log : x.at <= e.at /\ End(e) <= End(x)
      <4>1. PICK x \in m.log : x.at <= e.at
        BY <3>2
      <4>2. x.at \in Int /\ m.offset <= x.at
        BY <2>1, <1>1, EndIs
      <4> QED
        BY <4>1, <4>2, <3>0, <1>1
    <3> QED
      BY <3>0, <3>1, <3>2, <1>6
  <2> QED
    BY <2>2, <2>3, <1>12
<1>21. Sound(r)
  BY <1>12, <1>16, <1>17, <1>18, <1>19, <1>20 DEF Sound
<1> QED
  BY <1>4, <1>12, <1>13, <1>21 DEF Filled

(* write() past the checks.                                                  *)
LEMMA InsertKeeps ==
    ASSUME NEW m, Sound(m), m.ready, NEW o \in Nat, NEW d, IsData(d),
           ~(o < Cutoff(m, o)), m.started => Cursor(m) <= o,
           NEW r, r = Insert(m, o, d)
    PROVE  /\ Sound(r) /\ r.ready
           /\ \/ Filled(m, r, o, d)
              \/ Earlier(m, r, o, d)
              \/ Fresh(m, r, o, d) /\ \/ o - Cursor(m) > Span
                                      \/ /\ o < Cursor(m) /\ ~m.started
                                         /\ Cursor(m) - o >= Erase
<1>0. m \in Managers /\ o \in Int
  BY DEF Sound
<1>1. /\ m.offset \in Nat /\ Cursor(m) \in Nat /\ m.log \subseteq Piece
      /\ m.pos \in Nat /\ Cursor(m) = m.offset + m.pos
  BY <1>0, ManagerIs
<1>2. PICK top \in Int : top = m.offset + Span + Largest
  BY <1>1, SpanAssumption
<1>3. PICK newest \in Int :
        /\ Cutoff(m, o) = newest - Span
        /\ o <= newest /\ \A e \in m.log : e.at <= newest
        /\ newest = o \/ \E e \in m.log : e.at = newest
  <2>1. \A e \in m.log : End(e) <= top
    BY <1>2, SoundIs
  <2> QED
    BY <2>1, <1>0, CutoffIs
<1>4. PICK cut \in Int : cut = Cutoff(m, o) /\ cut = newest - Span
  BY <1>3, SpanAssumption
<1>5. PICK log \in SUBSET Piece : log = Logged(m, o, d)
  BY <1>0, <1>4, LoggedIs, SoundIs
<1>6. ~m.started => m.pos = 0
  BY DEF Sound
<1>7. PICK w \in Managers : w = WithLog(m, log)
  BY <1>0, WithLogIs
<1>8. PICK near : near = Near(w, o)
  OBVIOUS
<1>9. Span \in Nat /\ Erase \in Nat
  BY SpanAssumption
<1>10. Sound(Reset(o, d)) /\ Reset(o, d).ready /\ Fresh(m, Reset(o, d), o, d)
  BY ResetIs DEF Fresh
<1>14. PICK far \in BOOLEAN : far <=> o - near.offset > Span
  OBVIOUS
<1>11. CASE o < m.offset /\ m.offset - o >= Erase
  <2>1. r = Reset(o, d)
    BY <1>0, <1>5, <1>7, <1>8, <1>11, <1>14, InsertIs
  <2>2. ~m.started
    BY <1>0, <1>1, <1>11
  <2>3. o < Cursor(m) /\ Cursor(m) - o >= Erase
    BY <2>2, <1>1, <1>6, <1>11
  <2> QED
    BY <2>1, <2>2, <2>3, <1>10
<1>12. CASE o < m.offset /\ m.offset - o < Erase
  <2>1. r = Rebuild([WithLog(m, log) EXCEPT !.offset = o])
    BY <1>0, <1>5, <1>12, InsertBefore
  <2>2. ~m.started
    BY <1>0, <1>1, <1>12
  <2>3. cut <= o
    BY <1>0, <1>4
  <2>4. \A e \in m.log : e.at <= cut + Span
    BY <1>3, <1>4, <1>9
  <2>5. Sound(r) /\ r.ready /\ Earlier(m, r, o, d)
    BY <2>1, <2>2, <2>3, <2>4, <1>4, <1>5, <1>12, EarlierKeeps
  <2> QED
    BY <2>5
<1>13. CASE m.offset <= o
  <2>1. Cursor(m) <= o
    BY <1>1, <1>6, <1>13
  <2>2. o - near.offset > Span <=> o - Cursor(m) > Span
    <3>1. w.ready /\ Cursor(w) = Cursor(m)
      BY <1>0, <1>7, WithLogIs
    <3> QED
      BY <2>1, <3>1, <1>8, NearIs
  <2>3. CASE o - near.offset > Span
    <3>1. r = Reset(o, d)
      BY <2>3, <1>0, <1>5, <1>7, <1>8, <1>13, <1>14, InsertIs
    <3> QED
      BY <3>1, <2>2, <2>3, <1>10
  <2>4. CASE ~(o - near.offset > Span)
    <3>1. r = Written(near, o, d)
      <4>1. near = Near(WithLog(m, Logged(m, o, d)), o)
        BY <1>5, <1>7, <1>8
      <4>2. Insert(m, o, d) = Written(near, o, d)
        BY <4>1, <2>4, <1>0, <1>13, InsertOver
      <4> QED
        BY <4>2
    <3>2. o - Cursor(m) <= Span
      BY <2>2, <2>4, <1>1, <1>9
    <3>3. near = Near(WithLog(m, Logged(m, o, d)), o)
      BY <1>5, <1>7, <1>8
    <3>4. Sound(r) /\ r.ready /\ Filled(m, r, o, d)
      BY <2>1, <3>1, <3>2, <3>3, <1>3, FilledKeeps
    <3> QED
      BY <3>4
  <2> QED
    BY <2>3, <2>4
<1> QED
  BY <1>0, <1>1, <1>11, <1>12, <1>13, <1>9

-----------------------------------------------------------------------------
(* write().                                                                  *)

LEMMA StartsAhead ==
    ASSUME NEW m, Sound(m), NEW e \in m.log, Cursor(m) <= e.at
    PROVE  \E c \in Nat : Has(m, e.at, c)
<1>1. /\ e \in Piece /\ Len(e.data) \in Nat /\ End(e) = e.at + Len(e.data)
      /\ e.at \in Int /\ e.data # <<>> /\ e.data \in Seq(Nat \ {0})
  <2>1. e \in Piece /\ Proper(e)
    BY SoundIs
  <2> QED
    BY <2>1, EndIs DEF Proper
<1>2. Len(e.data) > 0
  BY <1>1
<1>3. Covers(e, e.at)
  BY <1>1, <1>2 DEF Covers
<1>4. PICK c \in Nat \ {0} : Says(e, e.at, c)
  BY <1>1, <1>3, SaysByte
<1>5. Logs(m.log, e.at, c)
  BY <1>4 DEF Logs
<1>6. Holds(m, e.at, c)
  BY <1>1, <1>5, SoundIs DEF LogHeld
<1> QED
  BY <1>6 DEF Has, Silence

(* What of d, written at o, is yet to be reached: c at u.                    *)
Rest(m, o, d, u, c) ==
    \/ u = o /\ c = d /\ (m.started => Cursor(m) <= o)
    \/ /\ m.started /\ o < Cursor(m) /\ Cursor(m) - o < Len(d)
       /\ u = Cursor(m) /\ c = SubSeq(d, Cursor(m) - o + 1, Len(d))

LEMMA RestIs ==
    ASSUME NEW m \in Managers, NEW o \in Nat, NEW d, IsData(d),
           NEW u, NEW c, Rest(m, o, d, u, c)
    PROVE  /\ u \in Nat /\ IsData(c) /\ (m.started => Cursor(m) <= u)
           /\ \A k \in 1..Len(c) : \E j \in 1..Len(d) : c[k] = d[j]
           /\ \A j, k \in 1..Len(c) :
                 \E i, n \in 1..Len(d) : /\ c[j] = d[i] /\ c[k] = d[n]
                                         /\ i = n => j = k
<1>0. Cursor(m) \in Nat /\ o \in Int
  BY ManagerIs
<1>1. /\ Len(d) \in Nat /\ 1 <= Len(d) /\ Len(d) <= Largest /\ d \in Seq(Nat \ {0})
  BY <1>0, PieceIs
<1>2. CASE u = o /\ c = d /\ (m.started => Cursor(m) <= o)
  <2>1. u \in Nat /\ IsData(c) /\ (m.started => Cursor(m) <= u)
    BY <1>2
  <2>2. \A k \in 1..Len(c) : c[k] = d[k] /\ k \in 1..Len(d)
    BY <1>2
  <2> QED
    BY <2>1, <2>2
<1>3. CASE /\ m.started /\ o < Cursor(m) /\ Cursor(m) - o < Len(d)
           /\ u = Cursor(m) /\ c = SubSeq(d, Cursor(m) - o + 1, Len(d))
  <2>1. PICK i \in Nat : i = Cursor(m) - o
    BY <1>0, <1>3
  <2>2. PICK n \in Nat : n = Len(d) - i
    BY <1>1, <1>3, <2>1
  <2>3. i + n = Len(d) /\ n > 0 /\ n <= Largest /\ i + n <= Len(d)
    BY <1>1, <1>3, <2>1, <2>2
  <2>4. c = SubSeq(d, i + 1, i + n)
    BY <1>3, <2>1, <2>3
  <2>5. /\ c \in Seq(Nat \ {0}) /\ Len(c) = n
        /\ \A k \in 1..n : c[k] = d[i + k]
    BY <1>1, <2>3, <2>4, Slice
  <2>6. c # <<>>
    BY <2>3, <2>5
  <2>7. IsData(c) /\ u \in Nat /\ Cursor(m) <= u
    <3>1. IsData(c)
      BY <2>3, <2>5, <2>6 DEF IsData, Data
    <3> QED
      BY <3>1, <1>0, <1>3
  <2>8. \A k \in 1..n : i + k \in 1..Len(d)
    BY <2>3
  <2>9. \A j, k \in 1..n : i + j = i + k => j = k
    OBVIOUS
  <2>10. ASSUME NEW j \in 1..n, NEW k \in 1..n
         PROVE  \E a, b \in 1..Len(d) : /\ c[j] = d[a] /\ c[k] = d[b]
                                        /\ a = b => j = k
    BY <2>5, <2>8, <2>9
  <2> QED
    BY <2>5, <2>7, <2>8, <2>10
<1> QED
  BY <1>2, <1>3 DEF Rest

LEMMA LateIs ==
    ASSUME NEW m \in Managers, NEW o \in Nat, NEW d, IsData(d),
           NEW w, w = Late(m, o, d)
    PROVE  \/ Rest(m, o, d, w.at, w.data) /\ w.data # <<>>
           \/ m.started /\ w.data = <<>> /\ Len(d) <= Cursor(m) - o
<1>0. Cursor(m) \in Nat /\ o \in Int /\ Cursor(m) \in Int
  BY ManagerIs
<1>1. /\ Len(d) \in Nat /\ 1 <= Len(d) /\ d \in Seq(Nat \ {0})
      /\ Piece1(o, d) \in Piece /\ Piece1(o, d).at = o
      /\ Piece1(o, d).data = d /\ End(Piece1(o, d)) = o + Len(d)
  BY <1>0, PieceIs
<1>2. d # <<>>
  BY DEF IsData
<1>3. CASE ~m.started
  <2>1. w = Piece1(o, d)
    BY <1>3 DEF Late, Piece1
  <2> QED
    BY <2>1, <1>1, <1>2, <1>3 DEF Rest
<1>4. CASE m.started /\ Cursor(m) <= o
  <2>1. w = Part(Piece1(o, d), Cursor(m), End(Piece1(o, d)))
    BY <1>1, <1>4 DEF Late, Piece1
  <2>2. w = Piece1(o, d)
    BY <2>1, <1>0, <1>1, <1>4, WholePart
  <2> QED
    BY <2>2, <1>1, <1>2, <1>4 DEF Rest
<1>5. CASE m.started /\ ~(Cursor(m) <= o)
  <2>0. Cursor(m) > o /\ o < Cursor(m)
    BY <1>0, <1>5
  <2>1. w = Part(Piece1(o, d), Cursor(m), o + Len(d))
    BY <1>5 DEF Late, Piece1
  <2>2. PICK hi \in Int : hi = o + Len(d)
    BY <1>0, <1>1
  <2>3. hi - o = Len(d) /\ End(Piece1(o, d)) = hi
    BY <1>0, <1>1, <2>2
  <2>4. w = [at |-> Cursor(m), data |-> SubSeq(d, Cursor(m) - o + 1, Len(d))]
    <3>1. w = [at |-> Cursor(m), data |-> SubSeq(d, Cursor(m) - o + 1, hi - o)]
      BY <2>0, <2>1, <2>2, <2>3, <1>1 DEF Part
    <3> QED
      BY <3>1, <2>3
  <2>5. CASE Cursor(m) - o < Len(d)
    <3>1. Rest(m, o, d, w.at, w.data)
      <4>1. w.at = Cursor(m) /\ w.data = SubSeq(d, Cursor(m) - o + 1, Len(d))
        <5>1. PICK c : c = SubSeq(d, Cursor(m) - o + 1, Len(d))
          OBVIOUS
        <5>2. w = [at |-> Cursor(m), data |-> c]
          BY <2>4, <5>1
        <5>3. w.at = Cursor(m) /\ w.data = c
          BY <5>2
        <5> QED
          BY <5>1, <5>3
      <4>2. m.started /\ o < Cursor(m) /\ Cursor(m) - o < Len(d)
        BY <2>0, <2>5, <1>5
      <4> QED
        BY <4>1, <4>2 DEF Rest
    <3>2. IsData(w.data)
      BY <3>1, RestIs
    <3> QED
      BY <3>1, <3>2 DEF IsData
  <2>6. CASE ~(Cursor(m) - o < Len(d))
    <3>1. PICK i \in Int : i = Cursor(m) - o + 1
      BY <1>0
    <3>2. Len(d) < i /\ Len(d) <= Cursor(m) - o
      BY <2>6, <3>1, <1>0, <1>1
    <3>3. SubSeq(d, i, Len(d)) = <<>>
      BY <3>2, <1>1, SubSeqEmpty
    <3> QED
      BY <3>1, <3>2, <3>3, <2>4, <1>5
  <2> QED
    BY <2>5, <2>6
<1> QED
  BY <1>3, <1>4, <1>5

(* Once something was received: the rest of a packet is too old, or inserted.*)
Inserted(m, r, u, c) ==
    \/ r = m /\ TooOld(m, u)
    \/ Filled(m, r, u, c)
    \/ Earlier(m, r, u, c)
    \/ Fresh(m, r, u, c) /\ \/ u - Cursor(m) > Span
                            \/ /\ u < Cursor(m) /\ ~m.started
                               /\ Cursor(m) - u >= Erase

LEMMA WriteKeeps ==
    ASSUME NEW m, Sound(m), NEW o \in Nat, NEW d, IsData(d),
           NEW r, r = Write(m, o, d)
    PROVE  /\ Sound(r) /\ r.ready
           /\ \/ ~m.ready /\ Fresh(m, r, o, d)
              \/ /\ m.ready /\ r = m /\ m.started
                 /\ Len(d) <= Cursor(m) - o
              \/ /\ m.ready
                 /\ \E u, c : Rest(m, o, d, u, c) /\ Inserted(m, r, u, c)
<1>0. m \in Managers /\ d # <<>>
  BY DEF Sound, IsData
<1>1. CASE ~m.ready
  <2>1. r = Reset(o, d)
    BY <1>0, <1>1 DEF Write
  <2> QED
    BY <2>1, <1>1, ResetIs DEF Fresh
<1>2. CASE m.ready
  <2>1. PICK w : w = Late(m, o, d)
    OBVIOUS
  <2>2. r = IF w.data = <<>> \/ w.at < Cutoff(m, w.at) THEN m
            ELSE Insert(m, w.at, w.data)
    BY <2>1, <1>0, <1>2 DEF Write
  <2>3. \/ Rest(m, o, d, w.at, w.data) /\ w.data # <<>>
        \/ m.started /\ w.data = <<>> /\ Len(d) <= Cursor(m) - o
    BY <2>1, <1>0, LateIs
  <2>4. CASE w.data = <<>>
    BY <2>2, <2>3, <2>4, <1>2
  <2>5. CASE w.data # <<>>
    <3>1. PICK u : u = w.at
      OBVIOUS
    <3>2. PICK c : c = w.data
      OBVIOUS
    <3>3. /\ Rest(m, o, d, u, c) /\ u \in Nat /\ IsData(c)
          /\ (m.started => Cursor(m) <= u)
      BY <2>3, <2>5, <3>1, <3>2, <1>0, RestIs
    <3>4. CASE u < Cutoff(m, u)
      <4>1. r = m
        BY <2>2, <3>1, <3>4
      <4>2. PICK top \in Int : top = m.offset + Span + Largest
        BY <1>0, ManagerIs, SpanAssumption
      <4>3. PICK newest \in Int :
              /\ Cutoff(m, u) = newest - Span
              /\ u <= newest /\ \A e \in m.log : e.at <= newest
              /\ newest = u \/ \E e \in m.log : e.at = newest
        <5>1. \A e \in m.log : End(e) <= top
          BY <4>2, SoundIs
        <5>2. u \in Int
          BY <3>3
        <5> QED
          BY <5>1, <5>2, <1>0, CutoffIs
      <4>4. newest - u > Span
        BY <3>3, <3>4, <4>3, SpanAssumption
      <4>5. PICK e \in m.log : e.at = newest
        BY <3>3, <4>3, <4>4, SpanAssumption
      <4>6. Cursor(m) <= newest
        <5>1. CASE m.started
          BY <5>1, <3>3, <4>3, <1>0, ManagerIs
        <5>2. CASE ~m.started
          <6>1. m.pos = 0 /\ m.offset <= newest
            BY <5>2, <4>5, <1>2 DEF Sound
          <6> QED
            BY <6>1, <1>0, ManagerIs
        <5> QED
          BY <5>1, <5>2
      <4>7. \E b \in Nat : Has(m, newest, b)
        BY <4>5, <4>6, StartsAhead
      <4>8. TooOld(m, u)
        BY <4>4, <4>7 DEF TooOld
      <4> QED
        BY <4>1, <4>8, <3>3, <1>2 DEF Inserted
    <3>5. CASE ~(u < Cutoff(m, u))
      <4>1. r = Insert(m, u, c)
        BY <2>2, <2>5, <3>1, <3>2, <3>5
      <4>2. /\ Sound(r) /\ r.ready
            /\ \/ Filled(m, r, u, c)
               \/ Earlier(m, r, u, c)
               \/ Fresh(m, r, u, c) /\ \/ u - Cursor(m) > Span
                                       \/ /\ u < Cursor(m) /\ ~m.started
                                          /\ Cursor(m) - u >= Erase
        BY <3>3, <3>5, <4>1, <1>2, InsertKeeps
      <4>3. Inserted(m, r, u, c)
        BY <4>2 DEF Inserted
      <4> QED
        BY <4>2, <4>3, <3>3, <1>2
    <3> QED
      BY <3>4, <3>5
  <2> QED
    BY <2>4, <2>5
<1> QED
  BY <1>1, <1>2

-----------------------------------------------------------------------------
(* _shift_unread_receive_suffix().                                           *)

Moved(e, boundary, delta, cursor) ==
    LET start == IF e.at > boundary THEN e.at ELSE boundary
        unread == Part(e, IF start > cursor THEN start ELSE cursor, End(e))
        moved == [unread EXCEPT !.at = @ + delta]
    IN Part(moved, cursor, End(moved))

LEMMA MovedIs ==
    ASSUME NEW e \in Piece, NEW boundary \in Int, NEW delta \in Int,
           NEW cursor \in Int,
           NEW y, y = Moved(e, boundary, delta, cursor)
    PROVE  /\ y \in Piece /\ Len(y.data) <= Len(e.data)
           /\ y.data # <<>> =>
                 /\ y.at >= cursor /\ y.at >= boundary + delta
                 /\ y.at >= e.at + delta /\ End(y) <= End(e) + delta
           /\ \A p \in Int : \A b : Says(y, p, b) <=>
                 /\ cursor <= p /\ boundary <= p - delta
                 /\ cursor <= p - delta /\ Says(e, p - delta, b)
<1>0. /\ End(e) \in Int /\ e.at \in Int /\ Len(e.data) \in Nat
      /\ End(e) = e.at + Len(e.data)
  BY EndIs
<1>1. PICK start \in Int : start = IF e.at > boundary THEN e.at ELSE boundary
  BY <1>0
<1>2. PICK from \in Int : from = IF start > cursor THEN start ELSE cursor
  OBVIOUS
<1>3. from >= e.at /\ from >= boundary /\ from >= cursor
  BY <1>0, <1>1, <1>2
<1>4. ASSUME NEW q \in Int PROVE from <= q <=> e.at <= q /\ boundary <= q /\ cursor <= q
  BY <1>0, <1>1, <1>2
<1>5. PICK unread \in Piece : unread = Part(e, from, End(e))
  BY <1>0, PartIs
<1>6. /\ Len(unread.data) <= Len(e.data)
      /\ unread.data # <<>> => unread.at >= from /\ End(unread) <= End(e)
      /\ \A p \in Int : \A b :
            Says(unread, p, b) <=> from <= p /\ p < End(e) /\ Says(e, p, b)
  <2>1. Len(unread.data) <= Len(e.data)
    BY <1>0, <1>5, PartIs
  <2>2. unread.data # <<>> => unread.at >= from /\ End(unread) <= End(e)
    <3>1. unread.data # <<>> => from <= unread.at /\ End(unread) <= End(e)
      BY <1>0, <1>5, PartOf
    <3>2. unread.at \in Int
      BY EndIs
    <3> QED
      BY <3>1, <3>2
  <2>3. \A p \in Int : \A b :
            Says(unread, p, b) <=> from <= p /\ p < End(e) /\ Says(e, p, b)
    BY <1>0, <1>5, PartIs
  <2> QED
    BY <2>1, <2>2, <2>3
<1>7. /\ unread.at \in Int /\ Len(unread.data) \in Nat
      /\ End(unread) = unread.at + Len(unread.data) /\ unread.data \in Data
  BY EndIs DEF Data
<1>8. PICK at \in Int : at = unread.at + delta
  BY <1>7
<1>9. PICK moved : moved = [at |-> at, data |-> unread.data]
  OBVIOUS
<1>10. moved \in Piece /\ moved.at = at /\ moved.data = unread.data
  BY <1>7, <1>9 DEF Piece
<1>11. /\ End(moved) \in Int /\ Len(moved.data) \in Nat
       /\ End(moved) = at + Len(moved.data)
  BY <1>10, EndIs
<1>12. y = Part(moved, cursor, End(moved))
  <2>1. [unread EXCEPT !.at = @ + delta] = moved
    BY <1>8, <1>9 DEF Piece
  <2> QED
    BY <2>1, <1>1, <1>2, <1>5 DEF Moved
<1>13. y \in Piece /\ Len(y.data) <= Len(e.data)
  <2>1. y \in Piece /\ Len(y.data) <= Len(moved.data)
    BY <1>10, <1>11, <1>12, PartIs
  <2>2. Len(y.data) \in Nat
    BY <2>1, EndIs
  <2> QED
    BY <2>1, <2>2, <1>0, <1>6, <1>7, <1>10
<1>14. ASSUME y.data # <<>>
       PROVE  /\ y.at >= cursor /\ y.at >= boundary + delta
              /\ y.at >= e.at + delta /\ End(y) <= End(e) + delta
  <2>1. /\ moved.at <= y.at /\ End(y) <= End(moved) /\ cursor <= y.at
    BY <1>10, <1>11, <1>12, <1>14, PartOf
  <2>2. y.at \in Int /\ End(y) \in Int /\ y.data \in Seq(Nat \ {0})
        /\ Len(y.data) \in Nat
    BY <1>13, EndIs
  <2>3. Len(y.data) > 0
    BY <2>2, <1>14
  <2>4. Len(y.data) <= Len(moved.data)
    BY <1>10, <1>11, <1>12, PartIs
  <2>5. Len(unread.data) > 0
    BY <2>2, <2>3, <2>4, <1>7, <1>10
  <2>6. unread.data # <<>>
    BY <2>5
  <2>7. unread.at >= from /\ End(unread) <= End(e)
    BY <2>6, <1>6
  <2>8. y.at >= cursor
    BY <2>1, <2>2
  <2>9. y.at >= from + delta
    BY <2>1, <2>2, <2>7, <1>7, <1>8, <1>10
  <2>10. y.at >= boundary + delta
    BY <2>2, <2>9, <1>3
  <2>11. y.at >= e.at + delta
    BY <2>2, <2>9, <1>0, <1>3
  <2>12. End(y) <= End(e) + delta
    <3>1. moved.data = unread.data
      BY <1>10
    <3>2. End(moved) = at + Len(unread.data)
      BY <3>1, <1>11
    <3>3. End(moved) = End(unread) + delta /\ End(unread) \in Int
      BY <3>2, <1>7, <1>8
    <3> QED
      BY <3>3, <2>1, <2>2, <2>7, <1>0
  <2> QED
    BY <2>8, <2>10, <2>11, <2>12
<1>15. ASSUME NEW p \in Int, NEW b
       PROVE  Says(y, p, b) <=> /\ cursor <= p /\ boundary <= p - delta
                                /\ cursor <= p - delta /\ Says(e, p - delta, b)
  <2>1. Says(y, p, b) <=> cursor <= p /\ p < End(moved) /\ Says(moved, p, b)
    BY <1>10, <1>11, <1>12, PartIs
  <2>2. Says(moved, p, b) => p < End(moved)
    BY DEF Says, Covers
  <2>3. PICK q \in Int : q = p - delta
    OBVIOUS
  <2>4. Says(moved, p, b) <=> Says(unread, q, b)
    <3>1. moved.at <= p /\ p < End(moved) <=> unread.at <= q /\ q < End(unread)
      <4>1. moved.at = unread.at + delta /\ End(moved) = End(unread) + delta
            /\ unread.at \in Int /\ End(unread) \in Int
        BY <1>7, <1>8, <1>10, <1>11
      <4> QED
        BY <4>1, <2>3
    <3>2. p - moved.at + 1 = q - unread.at + 1
      BY <2>3, <1>7, <1>8, <1>10
    <3> QED
      BY <3>1, <3>2, <1>10 DEF Says, Covers
  <2>5. Says(unread, q, b) <=> from <= q /\ q < End(e) /\ Says(e, q, b)
    BY <1>6
  <2>6. Says(e, q, b) => e.at <= q /\ q < End(e)
    BY DEF Says, Covers
  <2>7. from <= q <=> e.at <= q /\ boundary <= q /\ cursor <= q
    BY <1>4
  <2> QED
    BY <2>1, <2>2, <2>3, <2>4, <2>5, <2>6, <2>7
<1> QED
  BY <1>13, <1>14, <1>15

LEMMA MovedSays ==
    ASSUME NEW e \in Piece, NEW boundary \in Int, NEW delta \in Int,
           NEW cursor \in Int,
           NEW y, y = Moved(e, boundary, delta, cursor),
           NEW p \in Int, NEW b
    PROVE  Says(y, p, b) <=> /\ cursor <= p /\ boundary <= p - delta
                             /\ cursor <= p - delta /\ Says(e, p - delta, b)
<1>1. /\ y \in Piece /\ Len(y.data) <= Len(e.data)
      /\ y.data # <<>> =>
            /\ y.at >= cursor /\ y.at >= boundary + delta
            /\ y.at >= e.at + delta /\ End(y) <= End(e) + delta
      /\ \A q \in Int : \A x : Says(y, q, x) <=>
            /\ cursor <= q /\ boundary <= q - delta
            /\ cursor <= q - delta /\ Says(e, q - delta, x)
  BY MovedIs
<1> QED
  BY <1>1

(* The byte b is at p once the correction is made.                           *)
MovedTo(m, boundary, delta, p, b) ==
    \/ p < boundary /\ Logs(m.log, p, b)
    \/ /\ Cursor(m) <= p /\ boundary <= p - delta
       /\ Cursor(m) <= p - delta /\ Logs(m.log, p - delta, b)

LEMMA NoClash ==
    ASSUME NEW m \in Managers, NEW boundary \in Int, NEW delta \in Int,
           delta # 0, ~ShiftRefused(m, boundary, delta),
           NEW e \in m.log, NEW p \in Int, Covers(e, p), p < boundary
    PROVE  p - delta < boundary
<1>0. e.at \in Int /\ End(e) \in Int /\ e.at <= p /\ p < End(e)
  BY EndIs, ManagerIs DEF Covers
<1>1. CASE delta > 0
  BY <1>1
<1>2. CASE delta < 0
  <2>1. ~(e.at < boundary /\ End(e) > boundary + delta)
    BY <1>2 DEF ShiftRefused
  <2>2. e.at < boundary
    BY <1>0
  <2> QED
    BY <2>1, <2>2, <1>0
<1> QED
  BY <1>1, <1>2

LEMMA ShiftedIs ==
    ASSUME NEW m \in Managers, Apart(m.log), \A e \in m.log : Proper(e),
           NEW boundary \in Int, NEW delta \in Int, delta # 0,
           ~ShiftRefused(m, boundary, delta),
           NEW s, s = Shifted(m, boundary, delta)
    PROVE  /\ s \in SUBSET Piece /\ Apart(s)
           /\ \A x \in s : /\ Proper(x)
                           /\ \E e \in m.log : /\ End(x) <= End(e) + delta
                                                     \/ End(x) <= End(e)
                                               /\ \/ e.at <= x.at
                                                  \/ Cursor(m) <= x.at
           /\ \A p \in Int : \A b : Logs(s, p, b) <=>
                 MovedTo(m, boundary, delta, p, b)
<1> DEFINE Before(e) == Part(e, e.at, boundary)
           After(e) == Moved(e, boundary, delta, Cursor(m))
           parts == {Before(e) : e \in m.log} \cup {After(e) : e \in m.log}
<1>1. s = Visible(parts)
  BY DEF Shifted, Moved
<1>2. /\ m.log \subseteq Piece /\ Cursor(m) \in Nat /\ Cursor(m) \in Int
      /\ \A e \in m.log : e.at \in Int /\ End(e) \in Int
  BY ManagerIs, EndIs
<1>3. ASSUME NEW e \in m.log
      PROVE  /\ Before(e) \in Piece /\ After(e) \in Piece
             /\ Before(e).data # <<>> =>
                   /\ Proper(Before(e)) /\ e.at <= Before(e).at
                   /\ End(Before(e)) <= End(e) /\ End(Before(e)) <= boundary
                   /\ e.at < boundary
             /\ After(e).data # <<>> =>
                   /\ Proper(After(e)) /\ Cursor(m) <= After(e).at
                   /\ boundary + delta <= After(e).at
                   /\ e.at + delta <= After(e).at
                   /\ End(After(e)) <= End(e) + delta
  <2>0. e \in Piece /\ e.at \in Int /\ End(e) \in Int
    BY <1>2
  <2>1. PICK x \in Piece : x = Before(e)
    BY <2>0, PartIs
  <2>2. PICK y \in Piece : y = After(e)
    BY <2>0, <1>2, MovedIs
  <2>3. /\ x.at \in Int /\ End(x) \in Int /\ x.data \in Seq(Nat \ {0})
        /\ Len(x.data) \in Nat /\ End(x) = x.at + Len(x.data)
        /\ y.at \in Int /\ Len(y.data) \in Nat
    BY EndIs
  <2>4. ASSUME x.data # <<>>
        PROVE  /\ Proper(x) /\ e.at <= x.at
               /\ End(x) <= End(e) /\ End(x) <= boundary /\ e.at < boundary
    <3>1. /\ Proper(x) /\ e.at <= x.at /\ End(x) <= End(e) /\ End(x) <= boundary
      BY <2>0, <2>1, <2>4, PartOf
    <3>2. Len(x.data) > 0
      BY <2>3, <2>4
    <3> QED
      BY <3>1, <3>2, <2>0, <2>3
  <2>5. ASSUME y.data # <<>>
        PROVE  /\ Proper(y) /\ Cursor(m) <= y.at /\ boundary + delta <= y.at
               /\ e.at + delta <= y.at /\ End(y) <= End(e) + delta
    <3>1. /\ Len(y.data) <= Len(e.data) /\ y.at >= Cursor(m)
          /\ y.at >= boundary + delta /\ y.at >= e.at + delta
          /\ End(y) <= End(e) + delta
      <4>1. PICK c \in Int : c = Cursor(m)
        BY <1>2
      <4>2. y = Moved(e, boundary, delta, c)
        BY <2>2, <4>1
      <4>3. /\ Len(y.data) <= Len(e.data) /\ y.at >= c
            /\ y.at >= boundary + delta /\ y.at >= e.at + delta
            /\ End(y) <= End(e) + delta
        BY <4>2, <2>0, <2>5, MovedIs
      <4> QED
        BY <4>1, <4>3
    <3>2. Len(e.data) <= Largest /\ Len(e.data) \in Nat
      BY <2>0, EndIs DEF Proper
    <3>3. Len(y.data) <= Largest
      BY <3>1, <3>2, <2>3
    <3>4. y.at \in Nat
      BY <3>1, <2>3, <1>2
    <3> QED
      BY <3>1, <3>3, <3>4, <2>0, <2>3, <2>5, <1>2 DEF Proper
  <2> QED
    BY <2>1, <2>2, <2>4, <2>5
<1> HIDE DEF Before, After
<1>4. parts \subseteq Piece
  BY <1>3
<1>5. ASSUME NEW x \in s
      PROVE  x.data # <<>> /\ \E e \in m.log : x = Before(e) \/ x = After(e)
  BY <1>1 DEF Visible
<1>6. ASSUME NEW d \in m.log, NEW e \in m.log,
             Before(d).data # <<>>, After(e).data # <<>>
      PROVE  End(Before(d)) <= After(e).at
  <2>1. PICK x \in Piece : x = Before(d)
    BY <1>3
  <2>2. PICK y \in Piece : y = After(e)
    BY <1>3
  <2>3. x.at \in Int /\ End(x) \in Int /\ y.at \in Int
    BY EndIs
  <2>4. /\ End(x) <= End(d) /\ End(x) <= boundary /\ d.at < boundary
        /\ boundary + delta <= y.at
    BY <2>1, <2>2, <1>3, <1>6
  <2>5. CASE delta > 0
    BY <2>3, <2>4, <2>5, <2>1, <2>2
  <2>6. CASE delta < 0
    <3>1. ~(d.at < boundary /\ End(d) > boundary + delta)
      BY <2>6 DEF ShiftRefused
    <3>2. End(d) <= boundary + delta
      BY <3>1, <2>4, <1>2
    <3> QED
      BY <3>2, <2>1, <2>2, <2>3, <2>4, <1>2
  <2> QED
    BY <2>5, <2>6
<1>7. ASSUME NEW d \in m.log, NEW e \in m.log, d # e,
             Before(d).data # <<>>, Before(e).data # <<>>
      PROVE  End(Before(d)) <= Before(e).at \/ End(Before(e)) <= Before(d).at
  <2>1. End(d) <= e.at \/ End(e) <= d.at
    BY <1>7 DEF Apart
  <2> QED
    BY <2>1, <1>2, <1>7, PartsApart DEF Before
<1>8. ASSUME NEW d \in m.log, NEW e \in m.log, d # e,
             After(d).data # <<>>, After(e).data # <<>>
      PROVE  End(After(d)) <= After(e).at \/ End(After(e)) <= After(d).at
  <2>1. PICK x \in Piece : x = After(d)
    BY <1>3
  <2>2. PICK y \in Piece : y = After(e)
    BY <1>3
  <2>3. x.at \in Int /\ End(x) \in Int /\ y.at \in Int /\ End(y) \in Int
        /\ d.at \in Int /\ e.at \in Int /\ End(d) \in Int /\ End(e) \in Int
    BY <1>2, EndIs
  <2>4. /\ d.at + delta <= x.at /\ End(x) <= End(d) + delta
        /\ e.at + delta <= y.at /\ End(y) <= End(e) + delta
    BY <2>1, <2>2, <1>3, <1>8
  <2>5. End(d) <= e.at \/ End(e) <= d.at
    BY <1>8 DEF Apart
  <2>6. End(x) <= y.at \/ End(y) <= x.at
    BY <2>3, <2>4, <2>5
  <2> QED
    BY <2>1, <2>2, <2>6
<1>9. Apart(s)
  <2> SUFFICES ASSUME NEW x \in s, NEW y \in s, x # y
               PROVE  End(x) <= y.at \/ End(y) <= x.at
    BY DEF Apart
  <2>1. x.data # <<>> /\ y.data # <<>>
    BY <1>5
  <2>2. PICK d \in m.log : x = Before(d) \/ x = After(d)
    BY <1>5
  <2>3. PICK e \in m.log : y = Before(e) \/ y = After(e)
    BY <1>5
  <2>4. CASE x = Before(d) /\ y = Before(e)
    <3>1. d # e
      BY <2>4
    <3> QED
      BY <3>1, <2>1, <2>4, <1>7
  <2>5. CASE x = After(d) /\ y = After(e)
    <3>1. d # e
      BY <2>5
    <3> QED
      BY <3>1, <2>1, <2>5, <1>8
  <2>6. CASE x = Before(d) /\ y = After(e)
    BY <2>1, <2>6, <1>6
  <2>7. CASE x = After(d) /\ y = Before(e)
    BY <2>1, <2>7, <1>6
  <2> QED
    BY <2>2, <2>3, <2>4, <2>5, <2>6, <2>7
<1>10. ASSUME NEW x \in s
       PROVE  /\ Proper(x)
              /\ \E e \in m.log : /\ End(x) <= End(e) + delta
                                        \/ End(x) <= End(e)
                                  /\ \/ e.at <= x.at
                                     \/ Cursor(m) <= x.at
  BY <1>3, <1>5
<1>11. ASSUME NEW p \in Int, NEW b
       PROVE  Logs(s, p, b) <=> MovedTo(m, boundary, delta, p, b)
  <2>1. Logs(s, p, b) <=> Logs(parts, p, b)
    BY <1>1, <1>4, VisibleLogs
  <2>2. Logs(parts, p, b) <=>
           \E e \in m.log : Says(Before(e), p, b) \/ Says(After(e), p, b)
    BY DEF Logs
  <2>3. ASSUME NEW e \in m.log
        PROVE  /\ Says(Before(e), p, b) <=> p < boundary /\ Says(e, p, b)
               /\ Says(After(e), p, b) <=>
                     /\ Cursor(m) <= p /\ boundary <= p - delta
                     /\ Cursor(m) <= p - delta /\ Says(e, p - delta, b)
    <3>1. Says(Before(e), p, b) <=> e.at <= p /\ p < boundary /\ Says(e, p, b)
      BY <1>2, PartIs DEF Before
    <3>2. Says(e, p, b) => e.at <= p
      BY DEF Says, Covers
    <3>3. Says(After(e), p, b) <=>
             /\ Cursor(m) <= p /\ boundary <= p - delta
             /\ Cursor(m) <= p - delta /\ Says(e, p - delta, b)
      <4>1. PICK c \in Int : c = Cursor(m)
        BY <1>2
      <4>2. PICK y : y = Moved(e, boundary, delta, c)
        OBVIOUS
      <4>3. Says(y, p, b) <=> /\ c <= p /\ boundary <= p - delta
                              /\ c <= p - delta /\ Says(e, p - delta, b)
        <5>1. e \in Piece
          BY <1>2
        <5>2. Says(y, p, b) <=> /\ c <= p /\ boundary <= p - delta
                                /\ c <= p - delta /\ Says(e, p - delta, b)
          BY <5>1, <4>2, MovedSays
        <5> QED
          BY <5>2
      <4> QED
        BY <4>1, <4>2, <4>3 DEF After
    <3> QED
      BY <3>1, <3>2, <3>3
  <2> HIDE DEF parts
  <2> QED
    BY <2>1, <2>2, <2>3 DEF Logs, MovedTo
<1>12. s \in SUBSET Piece
  BY <1>1, <1>4 DEF Visible
<1> QED
  BY <1>9, <1>10, <1>11, <1>12

LEMMA NewestIs ==
    ASSUME NEW s, s # {}, s \subseteq Piece, NEW top \in Int,
           \A e \in s : End(e) <= top
    PROVE  /\ Newest(s) \in Int /\ \A e \in s : e.at <= Newest(s)
           /\ \E e \in s : e.at = Newest(s)
<1> DEFINE ats == {e.at : e \in s}
<1>1. \A e \in s : e.at \in Int /\ e.at <= top
  <2> SUFFICES ASSUME NEW e \in s PROVE e.at \in Int /\ e.at <= top
    OBVIOUS
  <2>1. e.at \in Int /\ End(e) \in Int /\ e.at <= End(e)
    BY EndIs
  <2> QED
    BY <2>1
<1>2. ats \subseteq Int /\ ats # {} /\ \A x \in ats : x <= top
  BY <1>1
<1>3. PICK n \in ats : \A x \in ats : x <= n
  BY <1>2, GreatestInt
<1>4. \E x \in ats : \A e \in s : e.at <= x
  BY <1>3
<1>5. Newest(s) \in ats /\ \A e \in s : e.at <= Newest(s)
  BY <1>4 DEF Newest
<1> QED
  BY <1>2, <1>5

LEMMA OldestIs ==
    ASSUME NEW s, s # {}, \A e \in s : e.at \in Nat
    PROVE  /\ Oldest(s) \in Nat /\ \A e \in s : e.at >= Oldest(s)
           /\ \E e \in s : e.at = Oldest(s)
<1> DEFINE ats == {e.at : e \in s}
<1>1. ats \subseteq Nat /\ ats # {}
  OBVIOUS
<1>2. PICK n \in ats : \A x \in ats : n <= x
  BY <1>1, LeastNat
<1>3. \E x \in ats : \A e \in s : e.at >= x
  BY <1>1, <1>2
<1>4. Oldest(s) \in ats /\ \A e \in s : e.at >= Oldest(s)
  BY <1>3 DEF Oldest
<1> QED
  BY <1>1, <1>4

(* The buffer made again from a log that replaces the old one.               *)
LEMMA RebuiltSound ==
    ASSUME NEW m \in Managers, Apart(m.log), m.ready,
           \A e \in m.log : Proper(e) /\ End(e) <= m.offset + Span + Largest,
           ~m.started => m.pos = 0 /\ \A e \in m.log : m.offset <= e.at,
           NEW r, r = Rebuild(m)
    PROVE  /\ Sound(r) /\ r.ready = m.ready /\ Cursor(r) = Cursor(m)
           /\ r.started = m.started
           /\ \A p \in Int : \A b \in Nat \ {0} :
                 Has(r, p, b) <=> Cursor(m) <= p /\ Logs(m.log, p, b)
<1>1. m.offset \in Nat /\ Cursor(m) \in Nat /\ m.pos \in Nat
      /\ Cursor(m) = m.offset + m.pos
  BY ManagerIs
<1>2. PICK top \in Int : top = m.offset + Span + Largest
  BY <1>1, SpanAssumption
<1>3. /\ r \in Managers /\ r.offset = m.offset /\ r.pos = m.pos
      /\ r.log = m.log /\ r.ready = m.ready
      /\ r.started = m.started /\ Cursor(r) = Cursor(m)
      /\ \A p \in Int : \A b \in Nat \ {0} : m.offset <= p =>
            (Holds(r, p, b) <=> Logs(m.log, p, b))
  <2>1. \A e \in m.log : End(e) <= top
    BY <1>2
  <2> QED
    BY <2>1, RebuildIs
<1>4. ASSUME NEW p \in Int, Cursor(m) <= p PROVE m.offset <= p
  BY <1>1, <1>4
<1>5. LogHeld(r)
  BY <1>3, <1>4 DEF LogHeld
<1>6. ASSUME NEW p \in Int, NEW b \in Nat \ {0}
      PROVE  Has(r, p, b) <=> Cursor(m) <= p /\ Logs(m.log, p, b)
  BY <1>3, <1>4 DEF Has, Silence
<1>7. Forgotten(r)
  BY <1>3, <1>6 DEF Forgotten
<1>8. Sound(r)
  BY <1>3, <1>5, <1>7 DEF Sound
<1> QED
  BY <1>3, <1>6, <1>8

LEMMA ShiftKeeps ==
    ASSUME NEW m, Sound(m), m.log # {}, NEW boundary \in Int, NEW delta \in Int,
           delta # 0, NEW r, r = Shift(m, boundary, delta)
    PROVE  /\ Sound(r)
           /\ \/ ShiftRefused(m, boundary, delta) /\ r = m
              \/ ShiftExceeds(m, boundary, delta)
              \/ /\ ~ShiftRefused(m, boundary, delta)
                 /\ r.ready = m.ready /\ Cursor(r) = Cursor(m)
                 /\ r.started = m.started
                 /\ \A p \in Int : \A b \in Nat \ {0} :
                       Has(r, p, b) <=> /\ Cursor(m) <= p
                                        /\ MovedTo(m, boundary, delta, p, b)
<1>0. m \in Managers /\ m.ready
  BY DEF Sound
<1>1. /\ m.offset \in Nat /\ m.pos \in Nat /\ Cursor(m) \in Nat
      /\ Cursor(m) = m.offset + m.pos /\ m.log \subseteq Piece
      /\ Span \in Nat
  BY <1>0, ManagerIs, SpanAssumption
<1>2. PICK s : s = Shifted(m, boundary, delta)
  OBVIOUS
<1>3. CASE ShiftRefused(m, boundary, delta)
  <2>1. r = m
    BY <1>3 DEF Shift
  <2> QED
    BY <2>1, <1>3
<1>4. CASE ~ShiftRefused(m, boundary, delta)
  <2>1. /\ s \in SUBSET Piece /\ Apart(s)
        /\ \A x \in s : /\ Proper(x)
                        /\ \E e \in m.log : /\ End(x) <= End(e) + delta
                                                  \/ End(x) <= End(e)
                                            /\ \/ e.at <= x.at
                                               \/ Cursor(m) <= x.at
        /\ \A p \in Int : \A b : Logs(s, p, b) <=>
              MovedTo(m, boundary, delta, p, b)
    <3>1. Apart(m.log) /\ \A e \in m.log : Proper(e)
      BY <1>0, SoundIs
    <3>2. m \in Managers /\ ~ShiftRefused(m, boundary, delta)
      BY <1>0, <1>4
    <3> QED
      BY <3>1, <3>2, <1>2, ShiftedIs
  <2>2. \A x \in s : /\ x.at \in Int /\ End(x) \in Int /\ Len(x.data) \in Nat
                     /\ End(x) = x.at + Len(x.data)
    BY <2>1, EndIs
  <2>3. PICK top \in Int :
          top = m.offset + Span + Largest + (IF delta > 0 THEN delta ELSE 0)
    BY <1>1
  <2>4. \A x \in s : End(x) <= top
    <3> SUFFICES ASSUME NEW x \in s PROVE End(x) <= top
      OBVIOUS
    <3>1. PICK e \in m.log : End(x) <= End(e) + delta \/ End(x) <= End(e)
      BY <2>1
    <3>2. End(e) \in Int /\ End(e) <= m.offset + Span + Largest
      BY <1>1, EndIs, SoundIs
    <3> QED
      BY <3>1, <3>2, <2>2, <2>3, <1>1
  <2>5. CASE ~ShiftExceeds(m, boundary, delta)
    <3>1. PICK w \in Managers : w = WithLog(m, s)
      BY <2>1, <1>0, WithLogIs
    <3>2. /\ w.log = s /\ w.offset = m.offset /\ w.pos = m.pos /\ w.ready = m.ready
          /\ w.started = m.started /\ Cursor(w) = Cursor(m)
      BY <2>1, <3>1, <1>0, WithLogIs
    <3>3. r = Rebuild(w)
      BY <2>5, <3>1, <1>2, <1>4 DEF Shift, WithLog
    <3>4. ASSUME NEW x \in s PROVE End(x) <= m.offset + Span + Largest
      <4>1. Newest(s) \in Int /\ x.at <= Newest(s)
        BY <2>1, <2>4, NewestIs
      <4>2. ~(Newest(s) - m.offset > Span)
        BY <2>5, <1>2 DEF ShiftExceeds
      <4>3. Len(x.data) <= Largest
        BY <2>1 DEF Proper
      <4> QED
        <5>1. Newest(s) <= m.offset + Span /\ m.offset \in Int /\ Span \in Int
          BY <4>1, <4>2, <1>1
        <5>2. x.at \in Int /\ Len(x.data) \in Nat /\ End(x) = x.at + Len(x.data)
          BY <2>2
        <5> QED
          BY <5>1, <5>2, <4>1, <4>3
    <3>5. ASSUME ~m.started, NEW x \in s PROVE m.offset <= x.at
      <4>1. PICK e \in m.log : e.at <= x.at \/ Cursor(m) <= x.at
        BY <2>1
      <4>2. m.offset <= e.at /\ e.at \in Int
        BY <3>5, <1>0, <1>1, EndIs DEF Sound
      <4> QED
        BY <4>1, <4>2, <2>2, <1>1
    <3>6. ~m.started => m.pos = 0
      BY <1>0 DEF Sound
    <3>7. /\ Sound(r) /\ r.ready = w.ready /\ Cursor(r) = Cursor(w)
          /\ r.started = w.started
          /\ \A p \in Int : \A b \in Nat \ {0} :
                Has(r, p, b) <=> Cursor(w) <= p /\ Logs(w.log, p, b)
      <4>1. Apart(w.log) /\ w.ready
        BY <2>1, <3>2, <1>0
      <4>2. \A e \in w.log : Proper(e) /\ End(e) <= w.offset + Span + Largest
        BY <2>1, <3>2, <3>4
      <4>3. ~w.started => w.pos = 0 /\ \A e \in w.log : w.offset <= e.at
        BY <3>2, <3>5, <3>6
      <4> QED
        BY <4>1, <4>2, <4>3, <3>3, RebuiltSound
    <3> QED
      BY <2>1, <3>2, <3>7, <1>4
  <2>6. CASE ShiftExceeds(m, boundary, delta)
    <3>1. s # {}
      BY <2>6, <1>2 DEF ShiftExceeds
    <3>2. PICK newest \in Int : newest = Newest(s)
      BY <2>1, <2>4, <3>1, NewestIs
    <3>3. (\A x \in s : x.at <= newest) /\ \E x \in s : x.at = newest
      BY <2>1, <2>4, <3>1, <3>2, NewestIs
    <3>4. PICK cutoff \in Int : cutoff = newest - Span
      BY <1>1
    <3>5. PICK recent : recent = Visible({Part(e, cutoff, End(e)) : e \in s})
      OBVIOUS
    <3>6. ASSUME NEW x \in recent
          PROVE  /\ x \in Piece /\ Proper(x) /\ x.data # <<>>
                 /\ cutoff <= x.at /\ End(x) <= newest + Largest
                 /\ \E e \in s : x = Part(e, cutoff, End(e))
      <4>1. PICK e \in s : x = Part(e, cutoff, End(e)) /\ x.data # <<>>
        BY <3>5 DEF Visible
      <4>2. e \in Piece /\ Proper(e) /\ End(e) \in Int
        BY <2>1, <2>2
      <4>3. x \in Piece /\ Proper(x) /\ cutoff <= x.at /\ End(x) <= End(e)
        BY <4>1, <4>2, PartOf
      <4>4. End(x) <= newest + Largest
        <5>1. Len(e.data) <= Largest /\ e.at <= newest
          BY <4>2, <3>3 DEF Proper
        <5>2. End(x) \in Int
          BY <4>3, EndIs
        <5> QED
          BY <5>1, <5>2, <4>3, <2>2
      <4> QED
        BY <4>1, <4>3, <4>4
    <3>7. recent # {}
      <4>1. PICK x \in s : x.at = newest
        BY <3>3
      <4>2. Part(x, cutoff, End(x)) = x
        BY <4>1, <3>4, <2>1, <1>1, WholePart
      <4>3. x.data # <<>>
        BY <2>1 DEF Proper
      <4>4. x \in recent
        BY <4>2, <4>3, <3>5 DEF Visible
      <4> QED
        BY <4>4
    <3>8. Apart(recent)
      <4> SUFFICES ASSUME NEW x \in recent, NEW y \in recent, x # y
                   PROVE  End(x) <= y.at \/ End(y) <= x.at
        BY DEF Apart
      <4>1. PICK e \in s : x = Part(e, cutoff, End(e))
        BY <3>6
      <4>2. PICK f \in s : y = Part(f, cutoff, End(f))
        BY <3>6
      <4>3. End(e) <= f.at \/ End(f) <= e.at
        BY <4>1, <4>2, <2>1 DEF Apart
      <4>4. x.data # <<>> /\ y.data # <<>> /\ e \in Piece /\ f \in Piece
            /\ End(e) \in Int /\ End(f) \in Int
        BY <2>1, <2>2, <3>6
      <4> QED
        BY <4>1, <4>2, <4>3, <4>4, PartsApart
    <3>9. PICK oldest \in Nat : oldest = Oldest(recent)
      BY <3>6, <3>7, OldestIs DEF Proper
    <3>10. (\A x \in recent : x.at >= oldest) /\ \E x \in recent : x.at = oldest
      BY <3>6, <3>7, <3>9, OldestIs DEF Proper
    <3>11. cutoff <= oldest
      BY <3>6, <3>10
    <3>12. PICK w : w = [offset |-> oldest, buffer |-> m.buffer, pos |-> 0,
                         log |-> recent, ready |-> m.ready, started |-> FALSE]
      OBVIOUS
    <3>13. w \in Managers
      <4>1. recent \in SUBSET Piece
        BY <3>6
      <4> QED
        BY <4>1, <3>12, <1>0, ManagerIs DEF Managers
    <3>14. r = Rebuild(w)
      <4>1. r = Rebuild([m EXCEPT !.log = recent, !.offset = oldest,
                                  !.pos = 0, !.started = FALSE])
        BY <2>6, <3>2, <3>4, <3>5, <3>9, <1>2, <1>4 DEF Shift
      <4>2. [m EXCEPT !.log = recent, !.offset = oldest,
                      !.pos = 0, !.started = FALSE] = w
        <5>1. PICK no \in BOOLEAN : no = FALSE
          OBVIOUS
        <5>2. PICK start \in Nat : start = 0
          OBVIOUS
        <5>3. PICK z : z = [m EXCEPT !.log = recent, !.offset = oldest,
                                     !.pos = start, !.started = no]
          OBVIOUS
        <5>4. z = [offset |-> oldest, buffer |-> m.buffer, pos |-> start,
                   log |-> recent, ready |-> m.ready, started |-> no]
          BY <5>3, <1>0 DEF Managers
        <5> QED
          BY <5>1, <5>2, <5>3, <5>4, <3>12
      <4> QED
        BY <4>1, <4>2
    <3>15. ASSUME NEW x \in recent PROVE End(x) <= oldest + Span + Largest
      <4>1. End(x) \in Int /\ End(x) <= newest + Largest
        BY <3>6, EndIs
      <4> QED
        BY <4>1, <3>4, <3>11, <1>1
    <3>16. ASSUME NEW x \in recent PROVE oldest <= x.at
      <4>1. x.at \in Int
        BY <3>6, EndIs
      <4> QED
        BY <4>1, <3>10
    <3>17. Sound(r)
      <4>1. Apart(w.log) /\ w.ready
        BY <3>8, <3>12, <1>0
      <4>2. \A e \in w.log : Proper(e) /\ End(e) <= w.offset + Span + Largest
        BY <3>6, <3>12, <3>15
      <4>3. ~w.started => w.pos = 0 /\ \A e \in w.log : w.offset <= e.at
        BY <3>12, <3>16
      <4> QED
        BY <4>1, <4>2, <4>3, <3>13, <3>14, RebuiltSound
    <3> QED
      BY <2>6, <3>17
  <2> QED
    BY <2>5, <2>6
<1> QED
  BY <1>3, <1>4

-----------------------------------------------------------------------------
(* The manager is sound in every reachable state.                            *)

Counted == writes \in Nat /\ out \in Seq(Nat)
SoundInv == Sound(pm) /\ Counted

LEMMA PacketIs ==
    ASSUME NEW n \in Nat, NEW size \in Sizes
    PROVE  /\ IsData(Packet(n, size)) /\ Len(Packet(n, size)) = size
           /\ size \in 1..Largest
           /\ \A k \in 1..size : Packet(n, size)[k] = Largest * n + k
<1>1. size \in 1..Largest
  BY BoundsAssumption
<1>2. PICK d : d = [k \in 1..size |-> Largest * n + k]
  OBVIOUS
<1>3. \A k \in 1..size : Largest * n + k \in Nat \ {0}
  BY <1>1
<1>4. d \in [1..size -> Nat \ {0}]
  BY <1>2, <1>3
<1>5. d \in Seq(Nat \ {0}) /\ Len(d) = size
  <2>1. size \in Nat /\ DOMAIN d = 1..size
    BY <1>1, <1>4
  <2>2. d \in Seq(Nat \ {0})
    BY <2>1, <1>4
  <2> QED
    BY <2>1, <2>2, LenProperties, <1>1
<1>6. d # <<>> /\ Len(d) <= Largest
  <2>1. Len(d) > 0 /\ Len(d) <= Largest
    BY <1>1, <1>5
  <2> QED
    BY <2>1
<1> QED
  BY <1>1, <1>2, <1>5, <1>6 DEF IsData, Data, Packet

LEMMA SoundInit == Init => SoundInv
<1> SUFFICES ASSUME Init PROVE SoundInv
  OBVIOUS
<1>1. pm = [offset |-> 0, buffer |-> <<>>, pos |-> 0, log |-> {},
            ready |-> FALSE, started |-> FALSE]
  BY DEF Init, New
<1>2. Len(<<>>) = 0 /\ <<>> \in Seq(Nat)
  OBVIOUS
<1>3. pm \in Managers
  BY <1>1, <1>2 DEF Managers
<1>4. \A p \in Int : \A b : ~Holds(pm, p, b)
  BY <1>1, <1>2 DEF Holds
<1>5. pm.log = {} /\ pm.buffer = <<>> /\ ~pm.ready /\ ~pm.started
  BY <1>1
<1>6. Apart(pm.log) /\ LogHeld(pm) /\ Forgotten(pm)
  BY <1>4, <1>5 DEF Apart, LogHeld, Logs, Forgotten, Has
<1>7. Sound(pm)
  BY <1>3, <1>5, <1>6 DEF Sound
<1>8. Counted
  BY <1>2 DEF Init, Counted
<1> QED
  BY <1>7, <1>8 DEF SoundInv

LEMMA SoundStep == SoundInv /\ [Next]_vars => SoundInv'
<1> SUFFICES ASSUME SoundInv, [Next]_vars PROVE SoundInv'
  OBVIOUS
<1>0. Sound(pm) /\ writes \in Nat /\ out \in Seq(Nat) /\ pm \in Managers
  BY DEF SoundInv, Counted, Sound
<1>1. ASSUME NEW o \in Offsets, NEW size \in Sizes, Receive(o, size)
      PROVE  SoundInv'
  <2>1. o \in Nat /\ IsData(Packet(writes, size))
    BY <1>0, PacketIs, BoundsAssumption
  <2>2. pm' = Write(pm, o, Packet(writes, size))
    BY <1>1 DEF Receive
  <2>3. Sound(pm')
    BY <2>1, <2>2, <1>0, WriteKeeps
  <2>4. writes' \in Nat /\ out' \in Seq(Nat)
    BY <1>0, <1>1 DEF Receive
  <2> QED
    BY <2>3, <2>4 DEF SoundInv, Counted
<1>2. ASSUME NEW o \in Offsets, NEW size \in Sizes, Begin(o, size)
      PROVE  SoundInv'
  <2>1. o \in Nat /\ IsData(Packet(writes, size))
    BY <1>0, PacketIs, BoundsAssumption
  <2>2. pm' = Reset(o, Packet(writes, size))
    BY <1>2 DEF Begin
  <2>3. Sound(pm')
    BY <2>1, <2>2, ResetIs
  <2>4. writes' \in Nat /\ out' \in Seq(Nat)
    BY <1>0, <1>2 DEF Begin
  <2> QED
    BY <2>3, <2>4 DEF SoundInv, Counted
<1>3. ASSUME NEW n \in Lengths, Play(n) PROVE SoundInv'
  <2>1. n \in Nat
    BY BoundsAssumption
  <2>2. pm' = Read(pm, n) /\ out' = Taken(pm, n) /\ writes' = writes
    BY <1>3 DEF Play
  <2>3. Sound(pm')
    BY <2>1, <2>2, <1>0, ReadKeeps
  <2>4. out' \in Seq(Nat)
    BY <2>1, <2>2, <1>0, TakenIs
  <2> QED
    BY <2>2, <2>3, <2>4, <1>0 DEF SoundInv, Counted
<1>4. ASSUME NEW b \in Offsets, NEW delta \in Deltas, Correct(b, delta)
      PROVE  SoundInv'
  <2>1. b \in Int /\ delta \in Int
    BY BoundsAssumption
  <2>2. /\ pm' = Shift(pm, b, delta) /\ pm.log # {} /\ delta # 0
        /\ writes' = writes /\ out' = out
    BY <1>4 DEF Correct
  <2>3. Sound(pm')
    BY <2>1, <2>2, <1>0, ShiftKeeps
  <2> QED
    BY <2>2, <2>3, <1>0 DEF SoundInv, Counted
<1>5. CASE UNCHANGED vars
  BY <1>5 DEF SoundInv, Counted, vars, counters
<1> QED
  BY <1>1, <1>2, <1>3, <1>4, <1>5 DEF Next

(* What is held ahead of the cursor, as the function Ahead.                  *)
TapeOf(m) == LET Byte(p) == m.buffer[p - m.offset + 1]
             IN [p \in {q \in Cursor(m)..(m.offset + Len(m.buffer) - 1) :
                            Byte(q) # Silence} |-> Byte(p)]

LEMMA TapeIs ==
    ASSUME NEW m \in Managers
    PROVE  /\ DOMAIN TapeOf(m) \subseteq Int
           /\ TapeOf(m) = [p \in DOMAIN TapeOf(m) |-> TapeOf(m)[p]]
           /\ \A p \in Int : \A b \in Nat \ {0} :
                 Has(m, p, b) <=> p \in DOMAIN TapeOf(m) /\ TapeOf(m)[p] = b
           /\ \A p \in DOMAIN TapeOf(m) :
                 TapeOf(m)[p] \in Nat \ {0} /\ Has(m, p, TapeOf(m)[p])
<1>0. /\ m.offset \in Nat /\ Cursor(m) \in Nat /\ m.pos \in Nat
      /\ Cursor(m) = m.offset + m.pos
      /\ m.buffer \in Seq(Nat) /\ Len(m.buffer) \in Nat
  BY ManagerIs
<1> DEFINE Byte(p) == m.buffer[p - m.offset + 1]
           D == {q \in Cursor(m)..(m.offset + Len(m.buffer) - 1) :
                     Byte(q) # Silence}
<1>1. TapeOf(m) = [p \in D |-> Byte(p)]
  BY DEF TapeOf
<1>2. ASSUME NEW p \in Int
      PROVE  p \in D <=> /\ Cursor(m) <= p /\ p < m.offset + Len(m.buffer)
                         /\ m.offset <= p /\ Byte(p) # Silence
  <2>1. p \in Cursor(m)..(m.offset + Len(m.buffer) - 1) <=>
           /\ Cursor(m) <= p /\ p < m.offset + Len(m.buffer) /\ m.offset <= p
    BY <1>0
  <2> QED
    BY <2>1
<1>3. D \subseteq Int
  BY <1>0
<1>4. ASSUME NEW p \in D PROVE Byte(p) \in Nat \ {0}
  <2>1. p \in Int /\ m.offset <= p /\ p < m.offset + Len(m.buffer)
        /\ Byte(p) # Silence
    BY <1>2, <1>3
  <2>7. m.offset \in Int /\ Len(m.buffer) \in Int
    BY <1>0
  <2>2. PICK k \in Int : k = p - m.offset + 1
    BY <2>1, <2>7
  <2>3. k \in 1..Len(m.buffer)
    BY <2>1, <2>2, <2>7
  <2>5. PICK t \in Seq(Nat) : t = m.buffer
    BY <1>0
  <2>6. t[k] \in Nat
    BY <2>3, <2>5
  <2>4. m.buffer[k] \in Nat
    BY <2>5, <2>6
  <2> QED
    BY <2>1, <2>2, <2>4 DEF Silence
<1>5. ASSUME NEW p \in Int, NEW b
      PROVE  Has(m, p, b) <=> p \in D /\ Byte(p) = b
  BY <1>2 DEF Has, Holds
<1> HIDE DEF D, Byte
<1>6. DOMAIN TapeOf(m) = D /\ \A p \in D : TapeOf(m)[p] = Byte(p)
  BY <1>1
<1>7. TapeOf(m) = [p \in DOMAIN TapeOf(m) |-> TapeOf(m)[p]]
  BY <1>1
<1> QED
  BY <1>3, <1>4, <1>5, <1>6, <1>7

LEMMA SoundLog == Sound(pm) => LogIsTheBuffer
<1> SUFFICES ASSUME Sound(pm) PROVE LogIsTheBuffer
  OBVIOUS
<1>0. pm \in Managers /\ pm.log \subseteq Piece /\ Cursor(pm) \in Int
  BY SoundIs, ManagerIs
<1>1. PICK t : t = Ahead
  OBVIOUS
<1>2. t = TapeOf(pm)
  BY <1>1 DEF Ahead, TapeOf
<1>3. /\ DOMAIN t \subseteq Int
      /\ \A p \in Int : \A b \in Nat \ {0} :
            Has(pm, p, b) <=> p \in DOMAIN t /\ t[p] = b
      /\ \A p \in DOMAIN t : t[p] \in Nat \ {0} /\ Has(pm, p, t[p])
  BY <1>0, <1>2, TapeIs
<1> DEFINE logged == {p \in UNION {e.at..(End(e) - 1) : e \in pm.log} :
                          p >= Cursor(pm)}
<1>4. ASSUME NEW p \in Int, NEW e \in pm.log
      PROVE  p \in e.at..(End(e) - 1) <=> Covers(e, p)
  <2>1. e.at \in Int /\ End(e) \in Int
    BY <1>0, EndIs
  <2> QED
    BY <2>1 DEF Covers
<1>5. logged \subseteq Int
  OBVIOUS
<1>6. ASSUME NEW p \in Int
      PROVE  p \in logged <=> Cursor(pm) <= p /\ \E e \in pm.log : Covers(e, p)
  BY <1>0, <1>4
<1> HIDE DEF logged
<1>7. \A a, b \in pm.log : a.at < b.at => End(a) <= b.at
  <2> SUFFICES ASSUME NEW a \in pm.log, NEW b \in pm.log, a.at < b.at
               PROVE  End(a) <= b.at
    OBVIOUS
  <2>1. a.at \in Int /\ End(a) \in Int /\ b.at \in Int /\ End(b) \in Int
        /\ b.at <= End(b)
    BY <1>0, EndIs
  <2>2. a = b \/ End(a) <= b.at \/ End(b) <= a.at
    BY SoundIs DEF Apart
  <2> QED
    BY <2>1, <2>2
<1>8. ASSUME NEW p \in logged
      PROVE  \E e \in pm.log : /\ Covers(e, p)
                               /\ p \in DOMAIN t /\ t[p] = e.data[p - e.at + 1]
  <2>1. p \in Int /\ Cursor(pm) <= p
    BY <1>5, <1>6
  <2>2. PICK e \in pm.log : Covers(e, p)
    BY <2>1, <1>6
  <2>3. PICK c \in Nat \ {0} : c = e.data[p - e.at + 1] /\ Says(e, p, c)
    BY <2>1, <2>2, <1>0, SaysByte
  <2>4. Logs(pm.log, p, c)
    BY <2>3 DEF Logs
  <2>5. Holds(pm, p, c)
    BY <2>1, <2>4, SoundIs DEF LogHeld
  <2>6. Has(pm, p, c)
    BY <2>1, <2>5 DEF Has, Silence
  <2> QED
    BY <2>1, <2>2, <2>3, <2>6, <1>3
<1>9. ASSUME NEW p \in DOMAIN t \ logged
      PROVE  \E q \in DOMAIN t : q - p > Span
  <2>1. p \in Int /\ t[p] \in Nat \ {0} /\ Has(pm, p, t[p])
    BY <1>3
  <2>2. ~Logs(pm.log, p, t[p])
    <3>1. Cursor(pm) <= p
      BY <2>1 DEF Has
    <3> QED
      BY <2>1, <3>1, <1>6 DEF Logs, Says
  <2>3. TooOld(pm, p)
    BY <2>1, <2>2, SoundIs DEF Forgotten
  <2>4. PICK q \in Int : q - p > Span /\ \E c \in Nat : Has(pm, q, c)
    BY <2>3 DEF TooOld
  <2>6. PICK c \in Nat : Has(pm, q, c)
    BY <2>4
  <2>5. c \in Nat \ {0}
    BY <2>6, <1>0, HasByte
  <2> QED
    BY <2>4, <2>5, <2>6, <1>3
<1> QED
  BY <1>1, <1>7, <1>8, <1>9 DEF LogIsTheBuffer, logged

(* A rebuild of the buffer from the log changes nothing that is unread, but  *)
(* for what lies more than max_log_span before a byte that was received.     *)
THEOREM LogAgrees == Spec => []LogIsTheBuffer
<1>1. Init => SoundInv
  BY SoundInit
<1>2. SoundInv /\ [Next]_vars => SoundInv'
  BY SoundStep
<1>3. SoundInv => LogIsTheBuffer
  BY SoundLog DEF SoundInv
<1> QED
  BY <1>1, <1>2, <1>3, PTL DEF Spec

-----------------------------------------------------------------------------
(* No byte is heard twice.                                                   *)

(* Parts of a packet hold its bytes, each once.                              *)
PartOfPacket(c, d) ==
    \A j, k \in 1..Len(c) : \E i, n \in 1..Len(d) :
        c[j] = d[i] /\ c[k] = d[n] /\ (i = n => j = k)

(* What is unread after a step was unread before it, or is of the packet d.  *)
OnlyAdds(m, r, d) ==
    \E u, c :
        /\ u \in Nat /\ IsData(c) /\ PartOfPacket(c, d)
        /\ \A p \in Int : \A b \in Nat \ {0} :
              Has(r, p, b) => Has(m, p, b) \/ Says(Piece1(u, c), p, b)

LEMMA WholePacket ==
    ASSUME NEW d PROVE PartOfPacket(d, d)
  BY DEF PartOfPacket

LEMMA ResetAdds ==
    ASSUME NEW m, NEW o \in Nat, NEW d, IsData(d)
    PROVE  OnlyAdds(m, Reset(o, d), d)
  BY ResetIs, WholePacket DEF OnlyAdds

LEMMA WriteAdds ==
    ASSUME NEW m, Sound(m), NEW o \in Nat, NEW d, IsData(d),
           NEW r, r = Write(m, o, d)
    PROVE  OnlyAdds(m, r, d)
<1>0. m \in Managers
  BY DEF Sound
<1>1. \/ ~m.ready /\ Fresh(m, r, o, d)
      \/ m.ready /\ r = m /\ m.started /\ Len(d) <= Cursor(m) - o
      \/ /\ m.ready
         /\ \E u, c : Rest(m, o, d, u, c) /\ Inserted(m, r, u, c)
  BY WriteKeeps
<1>2. CASE Fresh(m, r, o, d)
  BY <1>2, WholePacket DEF Fresh, OnlyAdds
<1>3. CASE r = m
  BY <1>3, WholePacket DEF OnlyAdds
<1>4. CASE m.ready /\ \E u, c : Rest(m, o, d, u, c) /\ Inserted(m, r, u, c)
  <2>1. PICK u, c : Rest(m, o, d, u, c) /\ Inserted(m, r, u, c)
    BY <1>4
  <2>2. u \in Nat /\ IsData(c) /\ PartOfPacket(c, d)
    BY <2>1, <1>0, RestIs DEF PartOfPacket
  <2>3. ASSUME NEW p \in Int, NEW b \in Nat \ {0}, Has(r, p, b)
        PROVE  Has(m, p, b) \/ Says(Piece1(u, c), p, b)
    <3>1. CASE r = m
      BY <3>1, <2>3
    <3>2. CASE Filled(m, r, u, c)
      BY <3>2, <2>3 DEF Filled
    <3>3. CASE Earlier(m, r, u, c)
      <4>1. Says(Piece1(u, c), p, b) \/ Logs(m.log, p, b)
        BY <3>3, <2>3 DEF Earlier
      <4>2. ASSUME Logs(m.log, p, b) PROVE Has(m, p, b)
        <5>1. m.pos = 0 /\ \A e \in m.log : m.offset <= e.at
          BY <3>3, <1>4 DEF Earlier, Sound
        <5>2. Cursor(m) = m.offset /\ m.offset \in Nat /\ m.log \subseteq Piece
          BY <5>1, <1>0, ManagerIs
        <5>3. PICK e \in m.log : Says(e, p, b)
          BY <4>2 DEF Logs
        <5>4. e.at <= p /\ e.at \in Int /\ m.offset <= e.at
          BY <5>1, <5>2, <5>3, EndIs DEF Says, Covers
        <5>5. Cursor(m) <= p
          BY <5>2, <5>4
        <5> QED
          BY <4>2, <5>5, SoundIs DEF LogHeld, Has, Silence
      <4> QED
        BY <4>1, <4>2
    <3>4. CASE Fresh(m, r, u, c)
      BY <3>4, <2>3 DEF Fresh
    <3> QED
      BY <2>1, <3>1, <3>2, <3>3, <3>4 DEF Inserted
  <2> QED
    BY <2>2, <2>3 DEF OnlyAdds
<1> QED
  BY <1>1, <1>2, <1>3, <1>4

(* Every byte is unread at one position, and not heard; no byte is later     *)
(* than the packets written.                                                 *)
Spoken == heard \cup Bytes(out)
Origin ==
    /\ NothingReplayed /\ heard \subseteq Nat \ {0}
    /\ \A b \in Spoken : b <= Largest * writes
    /\ \A p \in Int : \A b \in Nat \ {0} :
          Has(pm, p, b) => b <= Largest * writes /\ b \notin Spoken
    /\ \A p, q \in Int : \A b \in Nat \ {0} :
          Has(pm, p, b) /\ Has(pm, q, b) => p = q
OriginInv == SoundInv /\ Origin

LEMMA BytesAre ==
    ASSUME NEW s \in Seq(Nat)
    PROVE  /\ Bytes(s) \subseteq Nat \ {0}
           /\ \A b : b \in Bytes(s) <=> b # 0 /\ \E k \in 1..Len(s) : s[k] = b
<1>1. Len(s) \in Nat /\ \A k \in 1..Len(s) : s[k] \in Nat
  BY LenProperties
<1> QED
  BY <1>1 DEF Bytes, Silence

(* A packet adds bytes of its own number.                                    *)
LEMMA AddKeeps ==
    ASSUME OriginInv, NEW size \in Sizes, OnlyAdds(pm, pm', Packet(writes, size)),
           writes' = writes + 1, UNCHANGED <<out, heard>>
    PROVE  Origin'
<1>0. writes \in Nat /\ out \in Seq(Nat) /\ Origin
  BY DEF OriginInv, SoundInv, Counted
<1>1. PICK d : d = Packet(writes, size)
  OBVIOUS
<1>2. /\ IsData(d) /\ Len(d) = size /\ size \in 1..Largest
      /\ \A k \in 1..size : d[k] = Largest * writes + k
  BY <1>0, <1>1, PacketIs
<1>3. PICK u, c :
        /\ u \in Nat /\ IsData(c) /\ PartOfPacket(c, d)
        /\ \A p \in Int : \A b \in Nat \ {0} :
              Has(pm', p, b) => Has(pm, p, b) \/ Says(Piece1(u, c), p, b)
  BY <1>1 DEF OnlyAdds
<1>4. PICK last \in Nat : last = Largest * writes
  BY <1>0
<1>5. Largest * writes' = last + Largest
  BY <1>0, <1>4
<1>6. ASSUME NEW p \in Int, NEW b \in Nat \ {0}, Says(Piece1(u, c), p, b)
      PROVE  /\ p - u + 1 \in 1..Len(c) /\ c[p - u + 1] = b
             /\ last < b /\ b <= last + Largest
  <2>1. u <= p /\ p < u + Len(c) /\ c[p - u + 1] = b /\ Len(c) \in Nat /\ u \in Int
    <3>1. u \in Int
      BY <1>3
    <3> QED
      <4>1. u <= p /\ p < u + Len(c) /\ c[p - u + 1] = b
        BY <3>1, <1>6, PieceSays
      <4>2. Len(c) \in Nat
        BY <3>1, <1>3, PieceIs
      <4> QED
        BY <3>1, <4>1, <4>2
  <2>2. p - u + 1 \in 1..Len(c)
    BY <2>1
  <2>3. PICK i \in 1..Len(d) : b = d[i]
    BY <2>1, <2>2, <1>3 DEF PartOfPacket
  <2>4. i \in 1..Largest /\ b = last + i
    BY <2>3, <1>2, <1>4
  <2> QED
    BY <2>1, <2>2, <2>4
<1>7. ASSUME NEW p \in Int, NEW q \in Int, NEW b \in Nat \ {0},
             Says(Piece1(u, c), p, b), Says(Piece1(u, c), q, b)
      PROVE  p = q
  <2>0. u \in Int
    BY <1>3
  <2>1. PICK j \in Int : j = p - u + 1
    BY <2>0
  <2>2. PICK k \in Int : k = q - u + 1
    BY <2>0
  <2>3. j \in 1..Len(c) /\ c[j] = b /\ k \in 1..Len(c) /\ c[k] = b
    BY <2>1, <2>2, <1>6, <1>7
  <2>4. PICK i \in 1..Len(d), n \in 1..Len(d) :
          c[j] = d[i] /\ c[k] = d[n] /\ (i = n => j = k)
    BY <2>3, <1>3 DEF PartOfPacket
  <2>5. b = last + i /\ b = last + n
    BY <2>3, <2>4, <1>2, <1>4
  <2>6. i = n
    BY <2>5, <1>2
  <2>7. j = k
    BY <2>4, <2>6
  <2> QED
    BY <2>0, <2>1, <2>2, <2>7
<1>8. Spoken' = Spoken /\ Spoken \subseteq Nat \ {0}
  BY <1>0, BytesAre DEF Spoken, Origin
<1>9. NothingReplayed' /\ (heard \subseteq Nat \ {0})'
  BY <1>0 DEF Origin, NothingReplayed
<1>10. ASSUME NEW b \in Spoken PROVE b <= last /\ b <= last + Largest
  <2>1. b <= last /\ b \in Nat
    BY <1>0, <1>4, <1>8 DEF Origin
  <2> QED
    BY <2>1
<1>11. ASSUME NEW p \in Int, NEW b \in Nat \ {0}, Has(pm, p, b)
       PROVE  b <= last /\ b \notin Spoken
  BY <1>0, <1>4, <1>11 DEF Origin
<1>12. ASSUME NEW p \in Int, NEW b \in Nat \ {0}, Has(pm', p, b)
       PROVE  b <= last + Largest /\ b \notin Spoken
  <2>1. CASE Has(pm, p, b)
    <3>1. b <= last /\ b \notin Spoken
      BY <2>1, <1>11
    <3> QED
      BY <3>1
  <2>2. CASE Says(Piece1(u, c), p, b)
    <3>1. last < b /\ b <= last + Largest
      BY <2>2, <1>6
    <3>2. ASSUME b \in Spoken PROVE FALSE
      BY <3>1, <3>2, <1>10
    <3> QED
      BY <3>1, <3>2
  <2> QED
    BY <2>1, <2>2, <1>3, <1>12
<1>13. ASSUME NEW p \in Int, NEW q \in Int, NEW b \in Nat \ {0},
              Has(pm', p, b), Has(pm', q, b)
       PROVE  p = q
  <2>1. Has(pm, p, b) \/ Says(Piece1(u, c), p, b)
    BY <1>3, <1>13
  <2>2. Has(pm, q, b) \/ Says(Piece1(u, c), q, b)
    BY <1>3, <1>13
  <2>3. Has(pm, p, b) \/ Has(pm, q, b) => b <= last
    BY <1>11
  <2>4. Says(Piece1(u, c), p, b) \/ Says(Piece1(u, c), q, b) => last < b
    BY <1>6
  <2>5. Has(pm, p, b) /\ Has(pm, q, b) => p = q
    BY <1>0 DEF Origin
  <2>6. ~(b <= last /\ last < b)
    OBVIOUS
  <2> QED
    BY <2>1, <2>2, <2>3, <2>4, <2>5, <2>6, <1>7
<1> QED
  BY <1>5, <1>8, <1>9, <1>10, <1>12, <1>13 DEF Origin

(* Bytes read are not read again.                                            *)
LEMMA PlayKeeps ==
    ASSUME OriginInv, NEW n \in Lengths, Play(n)
    PROVE  Origin'
<1>0. Sound(pm) /\ pm \in Managers /\ writes \in Nat /\ out \in Seq(Nat)
      /\ Origin /\ n \in Nat
  BY BoundsAssumption DEF OriginInv, SoundInv, Counted, Sound
<1>1. /\ out' = Taken(pm, n) /\ pm' = Read(pm, n)
      /\ heard' = heard \cup Bytes(out) /\ writes' = writes
  BY DEF Play
<1>2. PICK at \in Nat : at = Cursor(pm)
  BY <1>0, ManagerIs
<1>3. /\ out' \in Seq(Nat) /\ Len(out') = n
      /\ \A k \in 1..n : \A b \in Nat \ {0} :
            out'[k] = b <=> Has(pm, at + k - 1, b)
  BY <1>0, <1>1, <1>2, TakenIs
<1>4. \A p \in Int : \A b : Has(pm', p, b) <=> at + n <= p /\ Has(pm, p, b)
  BY <1>0, <1>1, <1>2, ReadKeeps
<1>5. heard' = Spoken /\ heard' \subseteq Nat \ {0}
  BY <1>0, <1>1, BytesAre DEF Spoken, Origin
<1>6. ASSUME NEW b \in Bytes(out')
      PROVE  /\ b \in Nat \ {0}
             /\ \E k \in 1..n : out'[k] = b /\ Has(pm, at + k - 1, b)
  BY <1>3, BytesAre
<1>7. ASSUME NEW b \in Bytes(out') PROVE b <= Largest * writes /\ b \notin Spoken
  <2>1. PICK k \in 1..n : Has(pm, at + k - 1, b)
    BY <1>6
  <2>2. at + k - 1 \in Int /\ b \in Nat \ {0}
    BY <1>6
  <2> QED
    BY <2>1, <2>2, <1>0 DEF Origin
<1>8. NothingReplayed'
  <2>1. Bytes(out') \cap heard' = {}
    BY <1>5, <1>7
  <2>2. ASSUME NEW j \in 1..Len(out'), NEW k \in 1..Len(out'), out'[j] = out'[k],
               out'[j] # Silence
        PROVE  j = k
    <3>1. j \in 1..n /\ k \in 1..n /\ out'[j] \in Nat \ {0}
      BY <2>2, <1>3 DEF Silence
    <3>2. PICK b \in Nat \ {0} : b = out'[j]
      BY <3>1
    <3>3. Has(pm, at + j - 1, b) /\ Has(pm, at + k - 1, b)
      BY <3>1, <3>2, <2>2, <1>3
    <3>4. PICK p \in Int : p = at + j - 1
      BY <3>1
    <3>5. PICK q \in Int : q = at + k - 1
      BY <3>1
    <3>6. p = q
      BY <3>3, <3>4, <3>5, <1>0 DEF Origin
    <3> QED
      BY <3>1, <3>4, <3>5, <3>6
  <2> QED
    BY <2>1, <2>2 DEF NothingReplayed
<1>9. ASSUME NEW b \in Spoken' PROVE b <= Largest * writes'
  <2>1. b \in Spoken \/ b \in Bytes(out')
    BY <1>5 DEF Spoken
  <2>2. b \in Spoken => b <= Largest * writes
    BY <1>0 DEF Origin
  <2> QED
    BY <2>1, <2>2, <1>1, <1>7
<1>10. ASSUME NEW p \in Int, NEW b \in Nat \ {0}, Has(pm', p, b)
       PROVE  b <= Largest * writes' /\ b \notin Spoken'
  <2>1. at + n <= p /\ Has(pm, p, b)
    BY <1>4, <1>10
  <2>2. b <= Largest * writes /\ b \notin Spoken
    BY <2>1, <1>0 DEF Origin
  <2>3. ASSUME b \in Bytes(out') PROVE FALSE
    <3>1. PICK k \in 1..n : Has(pm, at + k - 1, b)
      BY <2>3, <1>6
    <3>2. PICK q \in Int : q = at + k - 1
      OBVIOUS
    <3>3. p = q
      BY <2>1, <3>1, <3>2, <1>0 DEF Origin
    <3> QED
      BY <2>1, <3>2, <3>3, <1>0
  <2> QED
    BY <2>2, <2>3, <1>1, <1>5 DEF Spoken
<1>11. ASSUME NEW p \in Int, NEW q \in Int, NEW b \in Nat \ {0},
              Has(pm', p, b), Has(pm', q, b)
       PROVE  p = q
  BY <1>0, <1>4, <1>11 DEF Origin
<1> QED
  BY <1>5, <1>8, <1>9, <1>10, <1>11 DEF Origin

(* A correction within Span moves bytes; it does not make any.               *)
LEMMA CorrectKeeps ==
    ASSUME OriginInv, ~FarShifts, NEW boundary \in Offsets, NEW delta \in Deltas,
           Correct(boundary, delta)
    PROVE  Origin'
<1>0. /\ Sound(pm) /\ pm \in Managers /\ Origin
      /\ boundary \in Int /\ delta \in Int
  BY BoundsAssumption DEF OriginInv, SoundInv, Sound
<1>1. /\ pm' = Shift(pm, boundary, delta) /\ pm.log # {} /\ delta # 0
      /\ UNCHANGED <<out, heard, writes>> /\ ~ShiftExceeds(pm, boundary, delta)
  BY DEF Correct
<1>2. \/ pm' = pm
      \/ \A p \in Int : \A b \in Nat \ {0} :
            Has(pm', p, b) <=> /\ Cursor(pm) <= p
                               /\ MovedTo(pm, boundary, delta, p, b)
  <2>1. \/ ShiftRefused(pm, boundary, delta) /\ pm' = pm
        \/ ShiftExceeds(pm, boundary, delta)
        \/ /\ ~ShiftRefused(pm, boundary, delta)
           /\ \A p \in Int : \A b \in Nat \ {0} :
                 Has(pm', p, b) <=> /\ Cursor(pm) <= p
                                    /\ MovedTo(pm, boundary, delta, p, b)
    <3>1. PICK r : r = pm'
      OBVIOUS
    <3>2. r = Shift(pm, boundary, delta)
      BY <3>1, <1>1
    <3>3. \/ ShiftRefused(pm, boundary, delta) /\ r = pm
          \/ ShiftExceeds(pm, boundary, delta)
          \/ /\ ~ShiftRefused(pm, boundary, delta)
             /\ \A p \in Int : \A b \in Nat \ {0} :
                   Has(r, p, b) <=> /\ Cursor(pm) <= p
                                    /\ MovedTo(pm, boundary, delta, p, b)
      BY <3>2, <1>0, <1>1, ShiftKeeps
    <3> QED
      BY <3>1, <3>3
  <2> QED
    BY <2>1, <1>1
<1>3. Spoken' = Spoken
  BY <1>1 DEF Spoken
<1>4. CASE pm' = pm
  BY <1>0, <1>1, <1>3, <1>4 DEF Origin, NothingReplayed
<1>5. CASE \A p \in Int : \A b \in Nat \ {0} :
              Has(pm', p, b) <=> /\ Cursor(pm) <= p
                                 /\ MovedTo(pm, boundary, delta, p, b)
  <2>1. ASSUME NEW p \in Int, NEW b \in Nat \ {0}, Has(pm', p, b)
        PROVE  \/ p < boundary /\ Has(pm, p, b)
               \/ boundary <= p - delta /\ Has(pm, p - delta, b)
    <3>1. Cursor(pm) <= p /\ MovedTo(pm, boundary, delta, p, b)
      BY <2>1, <1>5
    <3>2. ASSUME NEW q \in Int, Cursor(pm) <= q, Logs(pm.log, q, b)
          PROVE  Has(pm, q, b)
      BY <3>2, <1>0, SoundIs DEF LogHeld, Has, Silence
    <3>3. p - delta \in Int
      BY <1>0
    <3> QED
      BY <3>1, <3>2, <3>3 DEF MovedTo
  <2>2. ASSUME NEW p \in Int, NEW b \in Nat \ {0}, Has(pm', p, b)
        PROVE  b <= Largest * writes /\ b \notin Spoken
    <3>1. PICK q \in Int : Has(pm, q, b)
      <4>1. p - delta \in Int
        BY <1>0
      <4> QED
        BY <4>1, <2>1, <2>2
    <3> QED
      BY <3>1, <1>0 DEF Origin
  <2>3. ASSUME NEW p \in Int, NEW q \in Int, NEW b \in Nat \ {0},
               Has(pm', p, b), Has(pm', q, b)
        PROVE  p = q
    <3>1. PICK x \in Int : x = p - delta
      BY <1>0
    <3>2. PICK y \in Int : y = q - delta
      BY <1>0
    <3>3. \/ p < boundary /\ Has(pm, p, b)
          \/ boundary <= x /\ Has(pm, x, b)
      BY <2>1, <2>3, <3>1
    <3>4. \/ q < boundary /\ Has(pm, q, b)
          \/ boundary <= y /\ Has(pm, y, b)
      BY <2>1, <2>3, <3>2
    <3>5. ASSUME NEW i \in Int, NEW j \in Int, Has(pm, i, b), Has(pm, j, b)
          PROVE  i = j
      BY <3>5, <1>0 DEF Origin
    <3>6. CASE Has(pm, p, b) /\ Has(pm, q, b)
      BY <3>5, <3>6
    <3>7. CASE p < boundary /\ Has(pm, p, b) /\ boundary <= y /\ Has(pm, y, b)
      <4>1. p = y
        BY <3>5, <3>7
      <4> QED
        BY <4>1, <3>7, <1>0
    <3>8. CASE q < boundary /\ Has(pm, q, b) /\ boundary <= x /\ Has(pm, x, b)
      <4>1. q = x
        BY <3>5, <3>8
      <4> QED
        BY <4>1, <3>8, <1>0
    <3>9. CASE Has(pm, x, b) /\ Has(pm, y, b)
      <4>1. x = y
        BY <3>5, <3>9
      <4>2. p = x + delta /\ q = y + delta
        BY <3>1, <3>2, <1>0
      <4> QED
        BY <4>1, <4>2
    <3> QED
      BY <3>3, <3>4, <3>6, <3>7, <3>8, <3>9
  <2>4. NothingReplayed' /\ heard' = heard /\ writes' = writes
    BY <1>0, <1>1 DEF Origin, NothingReplayed
  <2> QED
    BY <2>2, <2>3, <2>4, <1>0, <1>3 DEF Origin
<1> QED
  BY <1>2, <1>4, <1>5

LEMMA OriginStep ==
    ASSUME ~FarShifts, OriginInv, [Next]_vars
    PROVE  OriginInv'
<1>0. Sound(pm) /\ writes \in Nat /\ SoundInv'
  <2>1. SoundInv'
    BY SoundStep DEF OriginInv
  <2> QED
    BY <2>1 DEF OriginInv, SoundInv, Counted
<1>1. ASSUME NEW o \in Offsets, NEW size \in Sizes, Receive(o, size)
      PROVE  Origin'
  <2>1. o \in Nat /\ IsData(Packet(writes, size))
    BY <1>0, PacketIs, BoundsAssumption
  <2>2. OnlyAdds(pm, pm', Packet(writes, size))
    BY <2>1, <1>0, <1>1, WriteAdds DEF Receive
  <2> QED
    BY <2>2, <1>1, AddKeeps DEF Receive
<1>2. ASSUME NEW o \in Offsets, NEW size \in Sizes, Begin(o, size)
      PROVE  Origin'
  <2>1. o \in Nat /\ IsData(Packet(writes, size))
    BY <1>0, PacketIs, BoundsAssumption
  <2>2. OnlyAdds(pm, pm', Packet(writes, size))
    BY <2>1, <1>2, ResetAdds DEF Begin
  <2> QED
    BY <2>2, <1>2, AddKeeps DEF Begin
<1>3. ASSUME NEW n \in Lengths, Play(n) PROVE Origin'
  BY <1>3, PlayKeeps
<1>4. ASSUME NEW b \in Offsets, NEW delta \in Deltas, Correct(b, delta)
      PROVE  Origin'
  BY <1>4, CorrectKeeps
<1>5. CASE UNCHANGED vars
  <2>1. Origin /\ UNCHANGED <<pm, out, heard, writes>>
    BY <1>5 DEF OriginInv, vars, counters
  <2>2. Spoken' = Spoken /\ (NothingReplayed <=> NothingReplayed')
    BY <2>1 DEF NothingReplayed, Spoken
  <2>3. /\ heard' = heard /\ writes' = writes
        /\ \A p, b : Has(pm', p, b) <=> Has(pm, p, b)
    BY <2>1
  <2> QED
    BY <2>1, <2>2, <2>3, <1>0 DEF Origin, OriginInv
<1> QED
  BY <1>0, <1>1, <1>2, <1>3, <1>4, <1>5 DEF Next, OriginInv

LEMMA OriginInit == Init => OriginInv
<1> SUFFICES ASSUME Init PROVE OriginInv
  OBVIOUS
<1>1. SoundInv
  BY SoundInit
<1>2. heard = {} /\ out = <<>> /\ Len(out) = 0
  BY DEF Init
<1>3. Bytes(out) = {} /\ Spoken = {} /\ NothingReplayed
  BY <1>2 DEF Bytes, Spoken, NothingReplayed
<1>4. \A p \in Int : \A b : ~Has(pm, p, b)
  <2>1. pm.buffer = <<>> /\ pm.offset = 0
    BY DEF Init, New
  <2> QED
    BY <2>1 DEF Has, Holds
<1> QED
  BY <1>1, <1>2, <1>3, <1>4 DEF OriginInv, Origin

(* As long as no correction exceeds max_log_span, no byte is heard twice.    *)
THEOREM HeardOnce == ASSUME ~FarShifts PROVE Spec => []NothingReplayed
<1>1. Init => OriginInv
  BY OriginInit
<1>2. OriginInv /\ [Next]_vars => OriginInv'
  BY OriginStep
<1>3. OriginInv => NothingReplayed
  BY DEF OriginInv, Origin
<1> QED
  BY <1>1, <1>2, <1>3, PTL DEF Spec

-----------------------------------------------------------------------------
(* Every call is a step of the timeline.                                     *)

Tape(t) == /\ DOMAIN t \subseteq Int /\ t = [p \in DOMAIN t |-> t[p]]
           /\ \A p \in DOMAIN t : t[p] \in Nat \ {0}
At(t, p, b) == p \in DOMAIN t /\ t[p] = b

LEMMA SameTape ==
    ASSUME NEW s, NEW t, Tape(s), Tape(t),
           \A p \in Int : \A b \in Nat \ {0} : At(s, p, b) <=> At(t, p, b)
    PROVE  s = t
<1>1. ASSUME NEW p \in Int
      PROVE  /\ p \in DOMAIN s <=> p \in DOMAIN t
             /\ p \in DOMAIN s => s[p] = t[p]
  BY DEF Tape, At
<1>2. DOMAIN s = DOMAIN t
  BY <1>1 DEF Tape
<1>3. \A p \in DOMAIN s : s[p] = t[p]
  BY <1>1 DEF Tape
<1>4. s = [p \in DOMAIN s |-> s[p]] /\ t = [p \in DOMAIN t |-> t[p]]
  BY DEF Tape
<1>5. [p \in DOMAIN s |-> s[p]] = [p \in DOMAIN s |-> t[p]]
  BY <1>3
<1> QED
  BY <1>2, <1>4, <1>5

LEMMA HeldTape ==
    ASSUME NEW m \in Managers
    PROVE  /\ Tape(TapeOf(m))
           /\ \A p \in Int : \A b \in Nat \ {0} : Has(m, p, b) <=> At(TapeOf(m), p, b)
           /\ \A p \in DOMAIN TapeOf(m) :
                 p \in Int /\ Cursor(m) <= p /\ Has(m, p, TapeOf(m)[p])
<1>1. Tape(TapeOf(m))
  BY TapeIs DEF Tape
<1>2. \A p \in Int : \A b \in Nat \ {0} : Has(m, p, b) <=> At(TapeOf(m), p, b)
  BY TapeIs DEF At
<1>3. \A p \in DOMAIN TapeOf(m) :
         p \in Int /\ Cursor(m) <= p /\ Has(m, p, TapeOf(m)[p])
  BY TapeIs DEF Has
<1> QED
  BY <1>1, <1>2, <1>3

LEMMA OnlyIs ==
    ASSUME NEW o \in Nat, NEW d, IsData(d), NEW t, t = Timeline!Only(o, d)
    PROVE  /\ Tape(t)
           /\ \A p \in Int : \A b \in Nat \ {0} :
                 At(t, p, b) <=> Says(Piece1(o, d), p, b)
<1>0. o \in Int
  OBVIOUS
<1>1. Len(d) \in Nat
  BY <1>0, PieceIs
<1>2. PICK D : D = o..(o + Len(d) - 1)
  OBVIOUS
<1>3. t = [p \in D |-> d[p - o + 1]]
  BY <1>2 DEF Timeline!Only, Timeline!Positions
<1>4. D \subseteq Int /\ \A p \in Int : p \in D <=> o <= p /\ p < o + Len(d)
  BY <1>0, <1>1, <1>2
<1>5. ASSUME NEW p \in D PROVE d[p - o + 1] \in Nat \ {0}
  BY <1>0, <1>4, PieceByte
<1>6. Tape(t)
  BY <1>3, <1>4, <1>5 DEF Tape
<1>7. ASSUME NEW p \in Int, NEW b \in Nat \ {0}
      PROVE  At(t, p, b) <=> Says(Piece1(o, d), p, b)
  <2>1. Says(Piece1(o, d), p, b) <=> p \in D /\ d[p - o + 1] = b
    BY <1>0, <1>4, PieceSays
  <2> QED
    BY <2>1, <1>3 DEF At
<1> QED
  BY <1>6, <1>7

LEMMA OverIs ==
    ASSUME NEW s, Tape(s), NEW o \in Nat, NEW d, IsData(d),
           NEW t, t = Timeline!Over(s, o, d)
    PROVE  /\ Tape(t)
           /\ \A p \in Int : \A b \in Nat \ {0} : At(t, p, b) <=>
                 \/ Says(Piece1(o, d), p, b)
                 \/ ~Within(o, d, p) /\ At(s, p, b)
<1>0. o \in Int
  OBVIOUS
<1>1. Len(d) \in Nat
  BY <1>0, PieceIs
<1>2. PICK D : D = o..(o + Len(d) - 1)
  OBVIOUS
<1>3. t = [p \in DOMAIN s \cup D |-> IF p \in D THEN d[p - o + 1] ELSE s[p]]
  BY <1>2 DEF Timeline!Over, Timeline!Positions
<1>4. D \subseteq Int /\ \A p \in Int : p \in D <=> o <= p /\ p < o + Len(d)
  BY <1>0, <1>1, <1>2
<1>5. ASSUME NEW p \in D PROVE d[p - o + 1] \in Nat \ {0}
  BY <1>0, <1>4, PieceByte
<1>6. DOMAIN t = DOMAIN s \cup D
      /\ \A p \in DOMAIN t : t[p] = IF p \in D THEN d[p - o + 1] ELSE s[p]
  BY <1>3
<1>7. Tape(t)
  <2>1. t = [p \in DOMAIN t |-> t[p]]
    BY <1>3
  <2>2. DOMAIN t \subseteq Int
    BY <1>4, <1>6 DEF Tape
  <2>3. \A p \in DOMAIN t : t[p] \in Nat \ {0}
    BY <1>5, <1>6 DEF Tape
  <2> QED
    BY <2>1, <2>2, <2>3 DEF Tape
<1>8. ASSUME NEW p \in Int, NEW b \in Nat \ {0}
      PROVE  At(t, p, b) <=> \/ Says(Piece1(o, d), p, b)
                             \/ ~Within(o, d, p) /\ At(s, p, b)
  <2>1. Says(Piece1(o, d), p, b) <=> p \in D /\ d[p - o + 1] = b
    BY <1>0, <1>4, PieceSays
  <2>2. Within(o, d, p) <=> p \in D
    BY <1>4 DEF Within
  <2> QED
    BY <2>1, <2>2, <1>6 DEF At
<1> QED
  BY <1>7, <1>8

(* A part of a tape.                                                         *)
LEMMA LessIs ==
    ASSUME NEW s, Tape(s), NEW lost,
           NEW t, t = [p \in DOMAIN s \ lost |-> s[p]]
    PROVE  /\ Tape(t)
           /\ \A p \in Int : \A b \in Nat \ {0} :
                 At(t, p, b) <=> p \notin lost /\ At(s, p, b)
<1>1. DOMAIN t = DOMAIN s \ lost /\ \A p \in DOMAIN t : t[p] = s[p]
  OBVIOUS
<1>2. t = [p \in DOMAIN t |-> t[p]]
  OBVIOUS
<1>3. Tape(t)
  BY <1>1, <1>2 DEF Tape
<1> QED
  BY <1>1, <1>3 DEF At

LEMMA FromIs ==
    ASSUME NEW t, Tape(t), NEW c \in Int, NEW x, x = Timeline!From(t, c)
    PROVE  /\ Tape(x)
           /\ \A p \in Int : \A b \in Nat \ {0} :
                 At(x, p, b) <=> c <= p /\ At(t, p, b)
<1>1. PICK D : D = {q \in DOMAIN t : q >= c}
  OBVIOUS
<1>2. x = [p \in D |-> t[p]]
  BY <1>1 DEF Timeline!From
<1>3. DOMAIN x = D /\ \A p \in D : x[p] = t[p]
  BY <1>2
<1>4. x = [p \in DOMAIN x |-> x[p]]
  BY <1>2
<1>5. D \subseteq Int /\ \A p \in Int : p \in D <=> p \in DOMAIN t /\ c <= p
  BY <1>1 DEF Tape
<1>6. Tape(x)
  BY <1>1, <1>3, <1>4, <1>5 DEF Tape
<1> QED
  BY <1>3, <1>5, <1>6 DEF At

LEMMA FreshTape ==
    ASSUME NEW m, NEW r \in Managers, NEW o \in Nat, NEW d, IsData(d),
           Fresh(m, r, o, d)
    PROVE  TapeOf(r) = Timeline!Only(o, d)
<1>1. PICK t : t = Timeline!Only(o, d)
  OBVIOUS
<1>2. \A p \in Int : \A b \in Nat \ {0} : At(TapeOf(r), p, b) <=> At(t, p, b)
  BY <1>1, OnlyIs, HeldTape DEF Fresh
<1>3. Tape(t) /\ Tape(TapeOf(r))
  BY <1>1, OnlyIs, HeldTape
<1> QED
  BY <1>1, <1>2, <1>3, SameTape

LEMMA FilledTape ==
    ASSUME NEW m \in Managers, NEW r \in Managers, NEW o \in Nat,
           NEW d, IsData(d), Filled(m, r, o, d)
    PROVE  TapeOf(r) = Timeline!Over(TapeOf(m), o, d)
<1>1. PICK s : s = TapeOf(m)
  OBVIOUS
<1>2. PICK t : t = Timeline!Over(s, o, d)
  OBVIOUS
<1>3. /\ Tape(s)
      /\ \A p \in Int : \A b \in Nat \ {0} : Has(m, p, b) <=> At(s, p, b)
  BY <1>1, HeldTape
<1>4. /\ Tape(t)
      /\ \A p \in Int : \A b \in Nat \ {0} : At(t, p, b) <=>
            \/ Says(Piece1(o, d), p, b)
            \/ ~Within(o, d, p) /\ At(s, p, b)
  BY <1>2, <1>3, OverIs
<1>5. \A p \in Int : \A b \in Nat \ {0} : At(TapeOf(r), p, b) <=> At(t, p, b)
  BY <1>3, <1>4, HeldTape DEF Filled
<1>6. Tape(TapeOf(r))
  BY HeldTape
<1> QED
  BY <1>1, <1>2, <1>4, <1>5, <1>6, SameTape

(* What the log still says of the tape: all of it but what is too old.       *)
LEMMA Memory ==
    ASSUME NEW m, Sound(m),
           NEW lost, lost = {p \in DOMAIN TapeOf(m) :
                                 ~Logs(m.log, p, TapeOf(m)[p])}
    PROVE  /\ \A p \in lost : \E q \in DOMAIN TapeOf(m) : q - p > Span
           /\ \A p \in Int : \A b \in Nat \ {0} : Cursor(m) <= p =>
                 (Logs(m.log, p, b) <=> p \notin lost /\ At(TapeOf(m), p, b))
<1>0. m \in Managers
  BY DEF Sound
<1>1. PICK t : t = TapeOf(m)
  OBVIOUS
<1>2. /\ Tape(t) /\ \A p \in DOMAIN t : p \in Int /\ Cursor(m) <= p /\ Has(m, p, t[p])
      /\ \A p \in Int : \A b \in Nat \ {0} : Has(m, p, b) <=> At(t, p, b)
  BY <1>0, <1>1, HeldTape
<1>3. ASSUME NEW p \in lost PROVE \E q \in DOMAIN t : q - p > Span
  <2>1. p \in DOMAIN t /\ ~Logs(m.log, p, t[p])
    BY <1>1
  <2>2. p \in Int /\ t[p] \in Nat \ {0} /\ Has(m, p, t[p])
    BY <2>1, <1>2 DEF Tape
  <2>3. TooOld(m, p)
    BY <2>1, <2>2, SoundIs DEF Forgotten
  <2>4. PICK q \in Int : q - p > Span /\ \E b \in Nat : Has(m, q, b)
    BY <2>3 DEF TooOld
  <2>5. PICK b \in Nat : Has(m, q, b)
    BY <2>4
  <2>6. b \in Nat \ {0}
    BY <2>5, <1>0, HasByte
  <2>7. At(t, q, b)
    BY <2>5, <2>6, <1>2
  <2> QED
    BY <2>4, <2>7 DEF At
<1>4. ASSUME NEW p \in Int, NEW b \in Nat \ {0}, Cursor(m) <= p
      PROVE  Logs(m.log, p, b) <=> p \notin lost /\ At(t, p, b)
  <2>1. ASSUME Logs(m.log, p, b) PROVE p \notin lost /\ At(t, p, b)
    <3>1. Has(m, p, b)
      BY <2>1, <1>4, SoundIs DEF LogHeld, Has, Silence
    <3>2. At(t, p, b)
      BY <3>1, <1>2
    <3> QED
      BY <2>1, <3>2, <1>1 DEF At
  <2>2. ASSUME p \notin lost, At(t, p, b) PROVE Logs(m.log, p, b)
    BY <2>2, <1>1 DEF At
  <2> QED
    BY <2>1, <2>2
<1> QED
  BY <1>1, <1>3, <1>4

LEMMA TapeNow == Ahead = TapeOf(pm) /\ Ahead' = TapeOf(pm')
  BY DEF Ahead, TapeOf, Cursor

LEMMA BeginMaps ==
    ASSUME NEW m, NEW o \in Nat, NEW d, IsData(d), Sound(pm'), pm'.ready,
           Fresh(m, pm', o, d), out' = out
    PROVE  Timeline!Begin(o, d)
<1>1. pm' \in Managers
  BY DEF Sound
<1>2. Ahead' = Timeline!Only(o, d)
  BY <1>1, FreshTape, TapeNow
<1>3. (IF pm.ready THEN Cursor(pm) ELSE 0)' = o
  BY DEF Fresh, Cursor
<1>4. pm'.ready = TRUE /\ pm'.started = FALSE
  BY <1>1 DEF Fresh, Managers
<1> QED
  BY <1>2, <1>3, <1>4 DEF Timeline!Begin

LEMMA FillMaps ==
    ASSUME Sound(pm), pm.ready, Sound(pm'), pm'.ready, out' = out,
           NEW u \in Nat, NEW c, IsData(c),
           \/ Filled(pm, pm', u, c)
           \/ Fresh(pm, pm', u, c) /\ u - Cursor(pm) > Span
    PROVE  Timeline!Fill(u, c)
<1>0. pm \in Managers /\ pm' \in Managers
  BY DEF Sound
<1>1. (IF pm.ready THEN Cursor(pm) ELSE 0) = Cursor(pm)
  OBVIOUS
<1>2. CASE Filled(pm, pm', u, c)
  <2>1. Ahead' = Timeline!Over(Ahead, u, c)
    BY <1>0, <1>2, FilledTape, TapeNow
  <2>2. (IF pm.ready THEN Cursor(pm) ELSE 0)' = Cursor(pm)
    BY <1>2 DEF Filled, Cursor
  <2>3. pm'.started = pm.started /\ pm'.ready = pm.ready
    BY <1>0, <1>2 DEF Filled, Managers
  <2>4. u - Cursor(pm) <= Span
    BY <1>2 DEF Filled
  <2> QED
    BY <1>1, <2>1, <2>2, <2>3, <2>4 DEF Timeline!Fill
<1>3. CASE Fresh(pm, pm', u, c) /\ u - Cursor(pm) > Span
  <2>1. Timeline!Begin(u, c)
    BY <1>3, BeginMaps
  <2> QED
    BY <1>1, <1>3, <2>1 DEF Timeline!Fill
<1> QED
  BY <1>2, <1>3

LEMMA EarlyMaps ==
    ASSUME Sound(pm), pm.ready, Sound(pm'), pm'.ready, out' = out,
           NEW o \in Nat, NEW d, IsData(d),
           \/ Earlier(pm, pm', o, d)
           \/ /\ Fresh(pm, pm', o, d) /\ o < Cursor(pm) /\ ~pm.started
              /\ Cursor(pm) - o >= Erase
    PROVE  Timeline!Early(o, d)
<1>0. /\ pm \in Managers /\ pm' \in Managers /\ o \in Int
      /\ Cursor(pm) \in Int /\ Erase \in Int
  BY ManagerIs, SpanAssumption DEF Sound
<1>1. (IF pm.ready THEN Cursor(pm) ELSE 0) = Cursor(pm)
  OBVIOUS
<1>2. /\ (IF pm.ready THEN Cursor(pm) ELSE 0)' = o
      /\ ~pm.started /\ ~pm'.started /\ o < Cursor(pm)
  BY DEF Fresh, Earlier, Cursor
<1>3. pm'.started = pm.started /\ pm'.ready = pm.ready
  BY <1>0, <1>2 DEF Managers
<1>4. CASE Earlier(pm, pm', o, d)
  <2>1. PICK t : t = Ahead
    OBVIOUS
  <2>2. PICK lost : lost = {p \in DOMAIN t : ~Logs(pm.log, p, t[p])}
    OBVIOUS
  <2>3. PICK s : s = [p \in DOMAIN t \ lost |-> t[p]]
    OBVIOUS
  <2>4. t = TapeOf(pm) /\ Tape(t)
    BY <2>1, <1>0, TapeNow, HeldTape
  <2>5. /\ \A p \in lost : \E q \in DOMAIN t : q - p > Span
        /\ \A p \in Int : \A b \in Nat \ {0} : Cursor(pm) <= p =>
              (Logs(pm.log, p, b) <=> p \notin lost /\ At(t, p, b))
    BY <2>2, <2>4, Memory
  <2>6. /\ Tape(s)
        /\ \A p \in Int : \A b \in Nat \ {0} :
              At(s, p, b) <=> p \notin lost /\ At(t, p, b)
    BY <2>3, <2>4, LessIs
  <2>7. s \in Timeline!Remembered
    <3>1. lost \in SUBSET {p \in DOMAIN t : \E q \in DOMAIN t : q - p > Span}
      BY <2>2, <2>5
    <3> QED
      BY <2>1, <2>3, <3>1 DEF Timeline!Remembered, Timeline!TooOld
  <2>8. ASSUME NEW p \in Int, NEW b \in Nat \ {0}
        PROVE  Logs(pm.log, p, b) <=> At(s, p, b)
    <3>1. Logs(pm.log, p, b) => Cursor(pm) <= p
      <4> SUFFICES ASSUME NEW e \in pm.log, Says(e, p, b) PROVE Cursor(pm) <= p
        BY DEF Logs
      <4>1. pm.pos = 0 /\ pm.offset <= e.at
        BY <1>2 DEF Sound
      <4>2. Cursor(pm) = pm.offset /\ pm.offset \in Nat /\ pm.log \subseteq Piece
        BY <4>1, <1>0, ManagerIs
      <4>3. e.at <= p /\ e.at \in Int
        BY <4>2, EndIs DEF Says, Covers
      <4> QED
        BY <4>1, <4>2, <4>3
    <3>2. At(s, p, b) => Cursor(pm) <= p
      <4>1. At(s, p, b) => p \in DOMAIN t
        BY <2>6 DEF At
      <4> QED
        BY <4>1, <2>4, <1>0, HeldTape
    <3> QED
      BY <3>1, <3>2, <2>5, <2>6
  <2>9. Ahead' = Timeline!Over(s, o, d)
    <3>1. PICK x : x = Timeline!Over(s, o, d)
      OBVIOUS
    <3>2. /\ Tape(x)
          /\ \A p \in Int : \A b \in Nat \ {0} : At(x, p, b) <=>
                \/ Says(Piece1(o, d), p, b)
                \/ ~Within(o, d, p) /\ At(s, p, b)
      BY <2>6, <3>1, OverIs
    <3>3. PICK y : y = TapeOf(pm')
      OBVIOUS
    <3>4. /\ Tape(y)
          /\ \A p \in Int : \A b \in Nat \ {0} : Has(pm', p, b) <=> At(y, p, b)
      BY <3>3, <1>0, HeldTape
    <3>5. \A p \in Int : \A b \in Nat \ {0} : Has(pm', p, b) <=>
              \/ Says(Piece1(o, d), p, b)
              \/ ~Within(o, d, p) /\ Logs(pm.log, p, b)
      BY <1>4 DEF Earlier
    <3>6. \A p \in Int : \A b \in Nat \ {0} : At(y, p, b) <=> At(x, p, b)
      BY <2>8, <3>2, <3>4, <3>5
    <3>7. y = x
      BY <3>2, <3>4, <3>6, SameTape
    <3> QED
      BY <3>1, <3>3, <3>7, TapeNow
  <2>10. ~(Cursor(pm) - o >= Erase)
    BY <1>0, <1>4 DEF Earlier
  <2>11. Ahead' \in {Timeline!Over(x, o, d) : x \in Timeline!Remembered}
    BY <2>7, <2>9
  <2> QED
    BY <2>10, <2>11, <1>1, <1>2, <1>3 DEF Timeline!Early
<1>5. CASE /\ Fresh(pm, pm', o, d) /\ o < Cursor(pm) /\ ~pm.started
           /\ Cursor(pm) - o >= Erase
  <2>1. Ahead' = Timeline!Only(o, d)
    BY <1>0, <1>5, FreshTape, TapeNow
  <2> QED
    BY <2>1, <1>1, <1>2, <1>3, <1>5 DEF Timeline!Early
<1> QED
  BY <1>4, <1>5

LEMMA ReceiveMaps ==
    ASSUME SoundInv, SoundInv', NEW o \in Offsets, NEW size \in Sizes,
           Receive(o, size), writes < MaxWrites
    PROVE  [Timeline!Next]_(Timeline!vars)
<1>0. /\ Sound(pm) /\ Sound(pm') /\ writes \in Nat
      /\ pm \in Managers /\ pm' \in Managers
  BY DEF SoundInv, Counted, Sound
<1>1. PICK d : d = Packet(writes, size)
  OBVIOUS
<1>2. o \in Nat /\ IsData(d)
  BY <1>0, <1>1, PacketIs, BoundsAssumption
<1>3. pm' = Write(pm, o, d) /\ out' = out
  BY <1>1 DEF Receive
<1>4. PICK r : r = pm'
  OBVIOUS
<1>5. /\ r.ready
      /\ \/ ~pm.ready /\ Fresh(pm, r, o, d)
         \/ pm.ready /\ r = pm /\ pm.started /\ Len(d) <= Cursor(pm) - o
         \/ /\ pm.ready
            /\ \E u, c : Rest(pm, o, d, u, c) /\ Inserted(pm, r, u, c)
  <2>1. r = Write(pm, o, d)
    BY <1>3, <1>4
  <2> QED
    BY <2>1, <1>0, <1>2, WriteKeeps
<1>6. ASSUME Timeline!Write(o, d) PROVE Timeline!Next
  <2>1. writes \in 0..MaxWrites
    BY <1>0, BoundsAssumption
  <2>2. d \in {Packet(n, sz) : n \in 0..MaxWrites, sz \in Sizes}
    BY <2>1, <1>1
  <2> QED
    BY <2>2, <1>6 DEF Timeline!Next
<1>7. ASSUME r = pm PROVE UNCHANGED Timeline!vars
  <2>1. pm' = pm
    BY <1>4, <1>7
  <2> QED
    BY <2>1, <1>3, TapeNow DEF Timeline!vars, Cursor
<1>8. CASE ~pm.ready /\ Fresh(pm, r, o, d)
  <2>1. Timeline!Begin(o, d)
    BY <1>0, <1>2, <1>3, <1>4, <1>5, <1>8, BeginMaps
  <2>2. Timeline!Write(o, d)
    BY <2>1, <1>8 DEF Timeline!Write
  <2> QED
    BY <2>2, <1>6
<1>9. CASE pm.ready /\ \E u, c : Rest(pm, o, d, u, c) /\ Inserted(pm, r, u, c)
  <2>1. PICK u, c : Rest(pm, o, d, u, c) /\ Inserted(pm, r, u, c)
    BY <1>9
  <2>2. u \in Nat /\ IsData(c) /\ (pm.started => Cursor(pm) <= u)
    BY <2>1, <1>0, <1>2, RestIs
  <2>3. Cursor(pm) \in Nat /\ Len(d) \in Nat /\ o \in Int /\ Span \in Nat
    <3>1. o \in Int
      BY <1>2
    <3> QED
      BY <3>1, <1>0, <1>2, ManagerIs, PieceIs, SpanAssumption
  <2>4. (IF pm.ready THEN Cursor(pm) ELSE 0) = Cursor(pm)
    BY <1>9
  <2>5. CASE r = pm
    BY <2>5, <1>7
  <2>6. CASE \/ Filled(pm, r, u, c)
             \/ Fresh(pm, r, u, c) /\ u - Cursor(pm) > Span
    <3>1. Timeline!Fill(u, c)
      BY <2>2, <2>6, <1>0, <1>3, <1>4, <1>5, <1>9, FillMaps
    <3>2. Cursor(pm) <= u
      <4>1. u - Cursor(pm) > Span => Cursor(pm) <= u
        BY <2>2, <2>3
      <4> QED
        BY <4>1, <2>6 DEF Filled
    <3>3. CASE u = o /\ c = d
      <4>1. o >= Cursor(pm)
        BY <2>3, <3>2, <3>3
      <4>2. Timeline!Write(o, d)
        BY <3>1, <3>3, <4>1, <2>4, <1>9 DEF Timeline!Write
      <4> QED
        BY <4>2, <1>6
    <3>4. CASE /\ pm.started /\ o < Cursor(pm) /\ Cursor(pm) - o < Len(d)
               /\ u = Cursor(pm) /\ c = SubSeq(d, Cursor(pm) - o + 1, Len(d))
      <4>1. ~(Cursor(pm) - o >= Len(d))
        BY <2>3, <3>4
      <4>2. Timeline!Fill(Cursor(pm), SubSeq(d, Cursor(pm) - o + 1, Len(d)))
        BY <3>1, <3>4
      <4>3. Timeline!Late(o, d)
        BY <3>4, <4>1, <4>2, <2>4 DEF Timeline!Late
      <4>4. Timeline!Write(o, d)
        BY <4>3, <1>9 DEF Timeline!Write
      <4> QED
        BY <4>4, <1>6
    <3> QED
      BY <2>1, <3>3, <3>4 DEF Rest
  <2>7. CASE \/ Earlier(pm, r, u, c)
             \/ /\ Fresh(pm, r, u, c) /\ u < Cursor(pm) /\ ~pm.started
                /\ Cursor(pm) - u >= Erase
    <3>1. Timeline!Early(u, c)
      BY <2>2, <2>7, <1>0, <1>3, <1>4, <1>5, <1>9, EarlyMaps
    <3>2. ~pm.started
      BY <2>7 DEF Earlier
    <3>3. u = o /\ c = d
      BY <2>1, <3>2 DEF Rest
    <3>4. Timeline!Write(o, d)
      BY <3>1, <3>3, <1>9 DEF Timeline!Write
    <3> QED
      BY <3>4, <1>6
  <2> QED
    BY <2>1, <2>5, <2>6, <2>7 DEF Inserted
<1> QED
  BY <1>5, <1>7, <1>8, <1>9

LEMMA NewStreamMaps ==
    ASSUME SoundInv, SoundInv', NEW o \in Offsets, NEW size \in Sizes,
           Begin(o, size), writes < MaxWrites
    PROVE  Timeline!Next
<1>0. Sound(pm') /\ writes \in Nat
  BY DEF SoundInv, Counted
<1>1. PICK d : d = Packet(writes, size)
  OBVIOUS
<1>2. o \in Nat /\ IsData(d)
  BY <1>0, <1>1, PacketIs, BoundsAssumption
<1>3. pm' = Reset(o, d) /\ out' = out
  BY <1>1 DEF Begin
<1>4. Fresh(pm, pm', o, d) /\ pm'.ready
  BY <1>2, <1>3, ResetIs DEF Fresh
<1>5. Timeline!Begin(o, d)
  BY <1>0, <1>2, <1>3, <1>4, BeginMaps
<1>6. writes \in 0..MaxWrites
  BY <1>0, BoundsAssumption
<1>7. d \in {Packet(n, sz) : n \in 0..MaxWrites, sz \in Sizes}
  BY <1>1, <1>6
<1> QED
  BY <1>5, <1>7 DEF Timeline!Next

LEMMA PlayMaps ==
    ASSUME SoundInv, SoundInv', NEW n \in Lengths, Play(n)
    PROVE  Timeline!Read(n)
<1>0. /\ Sound(pm) /\ pm \in Managers /\ pm' \in Managers /\ n \in Nat
  BY BoundsAssumption DEF SoundInv, Sound
<1>1. out' = Taken(pm, n) /\ pm' = Read(pm, n)
  BY DEF Play
<1>2. PICK at \in Nat : at = Cursor(pm)
  BY <1>0, ManagerIs
<1>3. PICK t : t = Ahead
  OBVIOUS
<1>4. /\ t = TapeOf(pm) /\ Tape(t)
      /\ \A p \in Int : \A b \in Nat \ {0} : Has(pm, p, b) <=> At(t, p, b)
      /\ \A p \in DOMAIN t : p \in Int /\ Cursor(pm) <= p /\ Has(pm, p, t[p])
  BY <1>0, <1>3, TapeNow, HeldTape
<1>5. PICK s \in Seq(Nat) :
        /\ s = Taken(pm, n) /\ Len(s) = n
        /\ \A k \in 1..n : \A b \in Nat \ {0} :
              s[k] = b <=> Has(pm, at + k - 1, b)
  <2>1. PICK s : s = Taken(pm, n)
    OBVIOUS
  <2>2. /\ s \in Seq(Nat) /\ Len(s) = n
        /\ \A k \in 1..n : \A b \in Nat \ {0} :
              s[k] = b <=> Has(pm, Cursor(pm) + k - 1, b)
    BY <2>1, <1>0, TakenIs
  <2> QED
    BY <2>1, <2>2, <1>2
<1>6. /\ Cursor(pm') = at + n /\ pm'.ready = pm.ready
      /\ pm'.started <=> pm.started \/ (n > 0 /\ pm.ready)
      /\ \A p \in Int : \A b : Has(pm', p, b) <=> at + n <= p /\ Has(pm, p, b)
  BY <1>0, <1>1, <1>2, ReadKeeps
<1>7. ASSUME NEW k \in 1..n
      PROVE  s[k] = IF at + k - 1 \in DOMAIN t THEN t[at + k - 1] ELSE Silence
  <2>1. PICK p \in Int : p = at + k - 1
    BY <1>2
  <2>2. s[k] \in Nat
    <3>1. k \in 1..Len(s)
      BY <1>5
    <3> QED
      BY <3>1, <1>5
  <2>3. \A b \in Nat \ {0} : s[k] = b <=> p \in DOMAIN t /\ t[p] = b
    BY <2>1, <1>4, <1>5 DEF At
  <2>4. p \in DOMAIN t => t[p] \in Nat \ {0}
    BY <1>4 DEF Tape
  <2>5. p \in DOMAIN t => s[k] = t[p]
    BY <2>3, <2>4
  <2>6. p \notin DOMAIN t => s[k] = 0
    BY <2>2, <2>3
  <2> QED
    BY <2>1, <2>5, <2>6 DEF Silence
<1>8. s = [k \in 1..n |-> s[k]]
  <2>1. DOMAIN s = 1..n
    BY <1>5, LenProperties
  <2>2. s = [k \in DOMAIN s |-> s[k]]
    BY <1>5, LenProperties
  <2> QED
    BY <2>1, <2>2
<1>9. s = [k \in 1..n |-> IF at + k - 1 \in DOMAIN t THEN t[at + k - 1]
                          ELSE Silence]
  BY <1>7, <1>8
<1>10. CASE pm.ready
  <2>1. (IF pm.ready THEN Cursor(pm) ELSE 0) = at
    BY <1>2, <1>10
  <2>2. (IF pm.ready THEN Cursor(pm) ELSE 0)' = at + n
    BY <1>6, <1>10 DEF Cursor
  <2>3. pm'.started = (pm.started \/ n > 0)
    BY <1>0, <1>6, <1>10 DEF Managers
  <2>4. Ahead' = Timeline!From(Ahead, at + n)
    <3>1. PICK x : x = Timeline!From(t, at + n)
      OBVIOUS
    <3>4. /\ Tape(x)
          /\ \A p \in Int : \A b \in Nat \ {0} :
                At(x, p, b) <=> at + n <= p /\ At(t, p, b)
      <4>1. Tape(t) /\ at + n \in Int
        BY <1>0, <1>4
      <4> QED
        BY <3>1, <4>1, FromIs
    <3>5. ASSUME NEW p \in Int, NEW b \in Nat \ {0}
          PROVE  Has(pm', p, b) <=> At(x, p, b)
      BY <3>4, <1>4, <1>6
    <3>6. PICK y : y = TapeOf(pm')
      OBVIOUS
    <3>7. /\ Tape(y)
          /\ \A p \in Int : \A b \in Nat \ {0} : Has(pm', p, b) <=> At(y, p, b)
      BY <3>6, <1>0, HeldTape
    <3>8. y = x
      <4>1. \A p \in Int : \A b \in Nat \ {0} : At(y, p, b) <=> At(x, p, b)
        BY <3>5, <3>7
      <4> QED
        BY <4>1, <3>4, <3>7, SameTape
    <3> QED
      BY <3>1, <3>6, <3>8, <1>3, TapeNow
  <2>5. pm'.ready = pm.ready
    BY <1>6
  <2>6. out' = [k \in 1..n |-> IF at + k - 1 \in DOMAIN Ahead
                               THEN Ahead[at + k - 1] ELSE Silence]
    BY <1>1, <1>3, <1>5, <1>9
  <2> QED
    BY <2>1, <2>2, <2>3, <2>4, <2>5, <2>6, <1>10 DEF Timeline!Read
<1>11. CASE ~pm.ready
  <2>1. (IF pm.ready THEN Cursor(pm) ELSE 0) = 0
    BY <1>11
  <2>2. (IF pm.ready THEN Cursor(pm) ELSE 0)' = 0
    BY <1>6, <1>11
  <2>3. pm'.started = pm.started /\ pm'.ready = pm.ready
    BY <1>0, <1>6, <1>11 DEF Managers
  <2>4. \A p \in Int : \A b : ~Has(pm, p, b)
    <3>1. pm.buffer = <<>> /\ pm.offset \in Nat
      BY <1>0, <1>11 DEF Sound, Managers
    <3>2. Len(pm.buffer) = 0
      BY <3>1
    <3> QED
      BY <3>1, <3>2 DEF Has, Holds
  <2>5. DOMAIN t = {}
    BY <2>4, <1>4
  <2>6. Ahead' = Ahead
    <3>1. PICK y : y = TapeOf(pm')
      OBVIOUS
    <3>2. /\ Tape(y)
          /\ \A p \in Int : \A b \in Nat \ {0} : Has(pm', p, b) <=> At(y, p, b)
      BY <3>1, <1>0, HeldTape
    <3>3. \A p \in Int : \A b \in Nat \ {0} : At(y, p, b) <=> At(t, p, b)
      BY <2>4, <3>2, <1>4, <1>6
    <3>4. y = t
      BY <3>2, <3>3, <1>4, SameTape
    <3> QED
      BY <3>1, <3>4, <1>3, TapeNow
  <2>7. out' = [k \in 1..n |-> IF 0 + k - 1 \in DOMAIN Ahead
                               THEN Ahead[0 + k - 1] ELSE Silence]
    <3>1. s = [k \in 1..n |-> Silence]
      BY <2>5, <1>9
    <3>2. [k \in 1..n |-> IF 0 + k - 1 \in DOMAIN t
                          THEN t[0 + k - 1] ELSE Silence] = [k \in 1..n |-> Silence]
      BY <2>5
    <3> QED
      BY <3>1, <3>2, <1>1, <1>3, <1>5
  <2> QED
    BY <2>1, <2>2, <2>3, <2>6, <2>7, <1>11 DEF Timeline!Read
<1> QED
  BY <1>10, <1>11

(* The bytes of t kept where they are, and the others moved.                 *)
Stay(t, boundary) == {p \in DOMAIN t : p < boundary}
Leave(t, boundary, delta) == {p + delta : p \in DOMAIN t \ Stay(t, boundary)}
Corrected(t, boundary, delta, c) ==
    [p \in Stay(t, boundary) \cup {q \in Leave(t, boundary, delta) : q >= c} |->
        IF p \in Stay(t, boundary) THEN t[p] ELSE t[p - delta]]

LEMMA MoveIs ==
    ASSUME NEW t, Tape(t), NEW boundary \in Int, NEW delta \in Int,
           NEW c \in Int,
           Stay(t, boundary) \cap Leave(t, boundary, delta) = {},
           NEW x, x = Corrected(t, boundary, delta, c)
    PROVE  /\ Tape(x)
           /\ \A p \in Int : \A b \in Nat \ {0} : At(x, p, b) <=>
                 \/ p < boundary /\ At(t, p, b)
                 \/ c <= p /\ boundary <= p - delta /\ At(t, p - delta, b)
<1>11. PICK kept : kept = Stay(t, boundary)
  OBVIOUS
<1>12. PICK moved : moved = Leave(t, boundary, delta)
  OBVIOUS
<1>13. /\ kept = {p \in DOMAIN t : p < boundary} /\ kept \cap moved = {}
       /\ moved = {p + delta : p \in DOMAIN t \ kept}
  BY <1>11, <1>12 DEF Stay, Leave
<1>1. PICK D : D = kept \cup {q \in moved : q >= c}
  OBVIOUS
<1>14. x = [p \in D |-> IF p \in kept THEN t[p] ELSE t[p - delta]]
  BY <1>1, <1>11, <1>12 DEF Corrected
<1>2. DOMAIN x = D
      /\ \A p \in D : x[p] = IF p \in kept THEN t[p] ELSE t[p - delta]
  BY <1>14
<1>3. x = [p \in DOMAIN x |-> x[p]]
  BY <1>14
<1>4. ASSUME NEW p \in Int PROVE p \in kept <=> p \in DOMAIN t /\ p < boundary
  BY <1>13
<1>5. ASSUME NEW p \in Int
      PROVE  p \in moved <=> p - delta \in DOMAIN t /\ boundary <= p - delta
  <2>1. ASSUME p \in moved PROVE p - delta \in DOMAIN t /\ boundary <= p - delta
    <3>1. PICK q \in DOMAIN t \ kept : p = q + delta
      BY <2>1, <1>13
    <3>2. q \in Int
      BY DEF Tape
    <3>3. p - delta = q
      BY <3>1, <3>2
    <3>4. boundary <= q
      BY <3>1, <3>2, <1>4
    <3> QED
      BY <3>1, <3>3, <3>4
  <2>2. ASSUME p - delta \in DOMAIN t, boundary <= p - delta PROVE p \in moved
    <3>1. PICK q \in Int : q = p - delta
      OBVIOUS
    <3>2. q \in DOMAIN t /\ q \notin kept
      BY <2>2, <3>1, <1>4
    <3>3. p = q + delta
      BY <3>1
    <3> QED
      BY <3>2, <3>3, <1>13
  <2> QED
    BY <2>1, <2>2
<1>6. moved \subseteq Int /\ kept \subseteq Int
  <2>1. \A p \in DOMAIN t : p + delta \in Int
    BY DEF Tape
  <2> QED
    BY <2>1, <1>13 DEF Tape
<1>7. D \subseteq Int
  BY <1>1, <1>6
<1>8. \A p \in D : x[p] \in Nat \ {0}
  <2> SUFFICES ASSUME NEW p \in D PROVE x[p] \in Nat \ {0}
    OBVIOUS
  <2>1. CASE p \in kept
    BY <2>1, <1>2, <1>13 DEF Tape
  <2>2. CASE p \notin kept
    <3>1. p \in moved /\ p \in Int
      BY <2>2, <1>1, <1>6
    <3>2. p - delta \in DOMAIN t
      BY <3>1, <1>5
    <3> QED
      BY <2>2, <3>2, <1>2 DEF Tape
  <2> QED
    BY <2>1, <2>2
<1>9. Tape(x)
  BY <1>2, <1>3, <1>7, <1>8 DEF Tape
<1>10. ASSUME NEW p \in Int, NEW b \in Nat \ {0}
       PROVE  At(x, p, b) <=>
                 \/ p < boundary /\ At(t, p, b)
                 \/ c <= p /\ boundary <= p - delta /\ At(t, p - delta, b)
  <2>1. p \in D <=> p \in kept \/ (p \in moved /\ c <= p)
    BY <1>1
  <2>2. CASE p \in kept
    <3>1. p \notin moved
      BY <2>2, <1>13
    <3>2. ~(boundary <= p - delta /\ At(t, p - delta, b))
      BY <3>1, <1>5 DEF At
    <3>3. p \in D /\ x[p] = t[p]
      BY <2>1, <2>2, <1>2
    <3> QED
      BY <2>2, <3>2, <3>3, <1>2, <1>4 DEF At
  <2>3. CASE p \notin kept
    <3>1. ~(p < boundary /\ At(t, p, b))
      BY <2>3, <1>4 DEF At
    <3>2. p \in D => x[p] = t[p - delta]
      BY <2>3, <1>2
    <3>3. p \in D <=> c <= p /\ p - delta \in DOMAIN t /\ boundary <= p - delta
      BY <2>1, <2>3, <1>5
    <3> QED
      BY <3>1, <3>2, <3>3, <1>2 DEF At
  <2> QED
    BY <2>2, <2>3
<1> QED
  BY <1>9, <1>10

LEMMA CorrectMaps ==
    ASSUME ~FarShifts, SoundInv, SoundInv', NEW boundary \in Offsets,
           NEW delta \in Deltas, Correct(boundary, delta)
    PROVE  [Timeline!Next]_(Timeline!vars)
<1>0. /\ Sound(pm) /\ pm \in Managers /\ pm' \in Managers
      /\ boundary \in Int /\ delta \in Int
  BY BoundsAssumption DEF SoundInv, Sound
<1>1. /\ pm' = Shift(pm, boundary, delta) /\ pm.log # {} /\ delta # 0
      /\ out' = out /\ ~ShiftExceeds(pm, boundary, delta)
  BY DEF Correct
<1>2. PICK r : r = pm'
  OBVIOUS
<1>3. \/ ShiftRefused(pm, boundary, delta) /\ r = pm
      \/ ShiftExceeds(pm, boundary, delta)
      \/ /\ ~ShiftRefused(pm, boundary, delta)
         /\ r.ready = pm.ready /\ Cursor(r) = Cursor(pm)
         /\ r.started = pm.started
         /\ \A p \in Int : \A b \in Nat \ {0} :
               Has(r, p, b) <=> /\ Cursor(pm) <= p
                                /\ MovedTo(pm, boundary, delta, p, b)
  <2>1. r = Shift(pm, boundary, delta)
    BY <1>1, <1>2
  <2>2. Sound(pm) /\ pm.log # {} /\ delta # 0
    BY <1>0, <1>1
  <2>3. boundary \in Int /\ delta \in Int
    BY <1>0
  <2> QED
    BY <2>1, <2>2, <2>3, ShiftKeeps
<1>4. CASE r = pm
  <2>1. pm' = pm
    BY <1>2, <1>4
  <2>2. UNCHANGED Timeline!vars
    BY <2>1, <1>1, TapeNow DEF Timeline!vars, Cursor
  <2> QED
    BY <2>2
<1>5. CASE /\ ~ShiftRefused(pm, boundary, delta)
           /\ r.ready = pm.ready /\ Cursor(r) = Cursor(pm)
           /\ r.started = pm.started
           /\ \A p \in Int : \A b \in Nat \ {0} :
                 Has(r, p, b) <=> /\ Cursor(pm) <= p
                                  /\ MovedTo(pm, boundary, delta, p, b)
  <2>1. PICK s : s = Ahead
    OBVIOUS
  <2>2. PICK lost : lost = {p \in DOMAIN s : ~Logs(pm.log, p, s[p])}
    OBVIOUS
  <2>3. PICK t : t = [p \in DOMAIN s \ lost |-> s[p]]
    OBVIOUS
  <2>4. s = TapeOf(pm) /\ Tape(s)
    BY <2>1, <1>0, TapeNow, HeldTape
  <2>5. /\ \A p \in lost : \E q \in DOMAIN s : q - p > Span
        /\ \A p \in Int : \A b \in Nat \ {0} : Cursor(pm) <= p =>
              (Logs(pm.log, p, b) <=> p \notin lost /\ At(s, p, b))
    BY <2>2, <2>4, <1>0, Memory
  <2>6. /\ Tape(t)
        /\ \A p \in Int : \A b \in Nat \ {0} :
              At(t, p, b) <=> p \notin lost /\ At(s, p, b)
    BY <2>3, <2>4, LessIs
  <2>7. t \in Timeline!Remembered
    <3>1. lost \in SUBSET {p \in DOMAIN s : \E q \in DOMAIN s : q - p > Span}
      BY <2>2, <2>5
    <3> QED
      BY <2>1, <2>3, <3>1 DEF Timeline!Remembered, Timeline!TooOld
  <2>8. PICK c \in Int : c = Cursor(pm)
    BY <1>0, ManagerIs
  <2>9. ASSUME NEW p \in DOMAIN t
        PROVE  p \in Int /\ c <= p /\ Logs(pm.log, p, t[p])
    <3>1. p \in Int /\ t[p] \in Nat \ {0} /\ At(t, p, t[p])
      BY <2>6 DEF Tape, At
    <3>2. p \notin lost /\ At(s, p, t[p])
      BY <2>6, <3>1
    <3>3. c <= p
      BY <2>4, <2>8, <3>2, <1>0, HeldTape DEF At
    <3> QED
      BY <2>5, <2>8, <3>1, <3>2, <3>3
  <2>10. ASSUME NEW p \in Int, NEW b \in Nat \ {0}, c <= p
         PROVE  Logs(pm.log, p, b) <=> At(t, p, b)
    BY <2>5, <2>6, <2>8, <2>10
  <2>11. PICK kept : kept = Stay(t, boundary)
    OBVIOUS
  <2>12. PICK moved : moved = Leave(t, boundary, delta)
    OBVIOUS
  <2>13. kept \cap moved = {}
    <3> SUFFICES ASSUME NEW p \in kept, NEW q \in DOMAIN t \ kept, p = q + delta
                 PROVE  FALSE
      BY <2>11, <2>12 DEF Leave
    <3>1. p \in DOMAIN t /\ p \in Int /\ p < boundary /\ Logs(pm.log, p, t[p])
      BY <2>9, <2>11 DEF Stay
    <3>2. q \in Int /\ boundary <= q
      <4>1. q \in Int
        BY <2>9
      <4> QED
        BY <4>1, <2>11, <1>0 DEF Stay
    <3>3. PICK e \in pm.log : Covers(e, p)
      BY <3>1 DEF Logs, Says
    <3>4. p - delta < boundary
      BY <3>1, <3>3, <1>0, <1>1, <1>5, NoClash
    <3> QED
      BY <3>1, <3>2, <3>4, <1>0
  <2>14. PICK x : x = Corrected(t, boundary, delta, c)
    OBVIOUS
  <2>15. /\ Tape(x)
         /\ \A p \in Int : \A b \in Nat \ {0} : At(x, p, b) <=>
               \/ p < boundary /\ At(t, p, b)
               \/ c <= p /\ boundary <= p - delta /\ At(t, p - delta, b)
    <3>1. Tape(t) /\ boundary \in Int /\ delta \in Int
      BY <2>6, <1>0
    <3> QED
      BY <3>1, <2>11, <2>12, <2>13, <2>14, MoveIs
  <2>16. PICK y : y = TapeOf(pm')
    OBVIOUS
  <2>17. /\ Tape(y)
         /\ \A p \in Int : \A b \in Nat \ {0} : Has(r, p, b) <=> At(y, p, b)
    BY <2>16, <1>0, <1>2, HeldTape
  <2>18. ASSUME NEW p \in Int, NEW b \in Nat \ {0}
         PROVE  At(y, p, b) <=> At(x, p, b)
    <3>1. At(y, p, b) <=> c <= p /\ MovedTo(pm, boundary, delta, p, b)
      BY <2>8, <2>17, <1>5
    <3>2. PICK q \in Int : q = p - delta
      BY <1>0
    <3>3. At(t, p, b) => c <= p
      BY <2>9 DEF At
    <3>4. At(t, q, b) => c <= q
      BY <2>9 DEF At
    <3>5. MovedTo(pm, boundary, delta, p, b) <=>
             \/ p < boundary /\ Logs(pm.log, p, b)
             \/ c <= p /\ boundary <= q /\ c <= q /\ Logs(pm.log, q, b)
      BY <2>8, <3>2 DEF MovedTo
    <3>6. c <= p => (Logs(pm.log, p, b) <=> At(t, p, b))
      BY <2>10
    <3>7. c <= q => (Logs(pm.log, q, b) <=> At(t, q, b))
      BY <2>10
    <3>8. At(x, p, b) <=> \/ p < boundary /\ At(t, p, b)
                          \/ c <= p /\ boundary <= q /\ At(t, q, b)
      BY <2>15, <3>2
    <3> QED
      BY <3>1, <3>3, <3>4, <3>5, <3>6, <3>7, <3>8
  <2>19. y = x
    BY <2>15, <2>17, <2>18, SameTape
  <2>20. Ahead' = x
    BY <2>16, <2>19, TapeNow
  <2>21. pm.ready /\ (IF pm.ready THEN Cursor(pm) ELSE 0) = c
    BY <2>8, <1>0, <1>1 DEF Sound
  <2>22. /\ (IF pm.ready THEN Cursor(pm) ELSE 0)' =
                (IF pm.ready THEN Cursor(pm) ELSE 0)
         /\ pm'.started = pm.started /\ pm'.ready = pm.ready
    BY <1>2, <1>5 DEF Cursor
  <2>23. Timeline!Shift(boundary, delta)
    BY <2>7, <2>11, <2>12, <2>13, <2>14, <2>20, <2>21, <2>22, <1>1
       DEF Timeline!Shift, Corrected, Stay, Leave
  <2> QED
    BY <2>23 DEF Timeline!Next
<1> QED
  BY <1>1, <1>3, <1>4, <1>5

LEMMA TimelineInit == Init => Timeline!Init
<1> SUFFICES ASSUME Init PROVE Timeline!Init
  OBVIOUS
<1>1. pm = [offset |-> 0, buffer |-> <<>>, pos |-> 0, log |-> {},
            ready |-> FALSE, started |-> FALSE] /\ out = <<>>
  BY DEF Init, New
<1>2. pm.ready = FALSE /\ pm.started = FALSE /\ pm.buffer = <<>> /\ pm.offset = 0
      /\ pm.pos = 0
  BY <1>1
<1>3. Cursor(pm) = 0 /\ Len(pm.buffer) = 0
  BY <1>2 DEF Cursor
<1>4. Cursor(pm)..(pm.offset + Len(pm.buffer) - 1) = {}
  BY <1>2, <1>3
<1>5. Ahead = [p \in {} |-> Silence]
  BY <1>4 DEF Ahead
<1> QED
  BY <1>1, <1>2, <1>5 DEF Timeline!Init

LEMMA TimelineStep ==
    ASSUME ~FarShifts, SoundInv, [Next]_vars
    PROVE  [Timeline!Next]_(Timeline!vars)
<1>0. SoundInv'
  BY SoundStep
<1>1. ASSUME NEW o \in Offsets, NEW size \in Sizes, Receive(o, size)
      PROVE  [Timeline!Next]_(Timeline!vars)
  BY <1>0, <1>1, ReceiveMaps DEF Receive
<1>2. ASSUME NEW o \in Offsets, NEW size \in Sizes, Begin(o, size)
      PROVE  Timeline!Next
  BY <1>0, <1>2, NewStreamMaps DEF Begin
<1>3. ASSUME NEW n \in Lengths, Play(n) PROVE Timeline!Next
  <2>1. Timeline!Read(n)
    BY <1>0, <1>3, PlayMaps
  <2> QED
    BY <2>1 DEF Timeline!Next
<1>4. ASSUME NEW b \in Offsets, NEW delta \in Deltas, Correct(b, delta)
      PROVE  [Timeline!Next]_(Timeline!vars)
  BY <1>0, <1>4, CorrectMaps
<1>5. CASE UNCHANGED vars
  <2>1. pm' = pm /\ out' = out
    BY <1>5 DEF vars
  <2>2. UNCHANGED Timeline!vars
    BY <2>1, TapeNow DEF Timeline!vars, Cursor
  <2> QED
    BY <2>2
<1> QED
  BY <1>1, <1>2, <1>3, <1>4, <1>5 DEF Next

(* As long as no correction exceeds max_log_span, the manager is one         *)
(* timeline read once: each of its calls is a step of Playout, or changes    *)
(* nothing that will be heard.                                               *)
THEOREM PlayoutRefined == ASSUME ~FarShifts PROVE Spec => ImplementsPlayout
<1>1. Init => SoundInv
  BY SoundInit
<1>2. SoundInv /\ [Next]_vars => SoundInv'
  BY SoundStep
<1>3. Init => Timeline!Init
  BY TimelineInit
<1>4. SoundInv /\ [Next]_vars => [Timeline!Next]_(Timeline!vars)
  BY TimelineStep
<1> QED
  BY <1>1, <1>2, <1>3, <1>4, PTL DEF Spec, ImplementsPlayout, Timeline!Spec
=============================================================================
