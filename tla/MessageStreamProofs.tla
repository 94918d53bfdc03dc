------------------------ MODULE MessageStreamProofs ------------------------
(***************************************************************************)
(* How messages get out of the stream, for any messages that the program   *)
(* knows, traces with any bytes in them, reads, flushes and overruns of    *)
(* any length: no byte is used twice, an undamaged stream is read as it    *)
(* was sent, and a damaged one is found again.                             *)
(***************************************************************************)
EXTENDS MessageStream, WellFoundedInduction, TLAPS

----------------------------------------------------------------------------
(* Sequences.                                                              *)

LEMMA LeastNatural ==
  ASSUME NEW S \in SUBSET Nat, S # {}
  PROVE  \E m \in S : \A n \in S : m <= n
<1>1. PICK m \in S : \A n \in S : ~(<<n, m>> \in OpToRel(<, Nat))
  BY NatLessThanWellFounded, WFMin
<1>2. \A n \in S : ~(n < m)
  BY <1>1 DEF OpToRel
<1> QED
  BY <1>2

LEMMA DropAt ==
  ASSUME NEW S, NEW s \in Seq(S), NEW k \in 0..Len(s)
  PROVE  /\ SubSeq(s, k + 1, Len(s)) \in Seq(S)
         /\ Len(SubSeq(s, k + 1, Len(s))) = Len(s) - k
         /\ \A i \in 1..(Len(s) - k) : SubSeq(s, k + 1, Len(s))[i] = s[i + k]
  OBVIOUS

LEMMA TakeAt ==
  ASSUME NEW S, NEW s \in Seq(S), NEW k \in 0..Len(s)
  PROVE  /\ SubSeq(s, 1, k) \in Seq(S) /\ Len(SubSeq(s, 1, k)) = k
         /\ \A i \in 1..k : SubSeq(s, 1, k)[i] = s[i]
  OBVIOUS

LEMMA ConcatAt ==
  ASSUME NEW S, NEW s \in Seq(S), NEW t \in Seq(S)
  PROVE  /\ s \o t \in Seq(S) /\ Len(s \o t) = Len(s) + Len(t)
         /\ \A i \in 1..Len(s) : (s \o t)[i] = s[i]
         /\ \A i \in 1..Len(t) : (s \o t)[Len(s) + i] = t[i]
  OBVIOUS

LEMMA SameSeq ==
  ASSUME NEW S, NEW s \in Seq(S), NEW t \in Seq(S), Len(s) = Len(t),
         \A i \in 1..Len(s) : s[i] = t[i]
  PROVE  s = t
  OBVIOUS

LEMMA Moved ==
  ASSUME NEW S, NEW b \in Seq(S), NEW w \in Seq(S), NEW n \in 0..Len(w)
  PROVE  (b \o SubSeq(w, 1, n)) \o SubSeq(w, n + 1, Len(w)) = b \o w
<1>0. Len(b) \in Nat /\ Len(w) \in Nat
  OBVIOUS
<1> DEFINE v == SubSeq(w, 1, n)
           u == SubSeq(w, n + 1, Len(w))
<1>1. /\ v \in Seq(S) /\ Len(v) = n /\ \A i \in 1..n : v[i] = w[i]
      /\ u \in Seq(S) /\ Len(u) = Len(w) - n /\ \A i \in 1..(Len(w) - n) : u[i] = w[i + n]
  OBVIOUS
<1> HIDE DEF u, v
<1>2. v \o u \in Seq(S) /\ Len(v \o u) = Len(w)
  BY <1>1
<1>3. ASSUME NEW i \in 1..Len(w) PROVE (v \o u)[i] = w[i]
  <2>0. i \in Nat /\ n \in Nat
    OBVIOUS
  <2>1. CASE i <= n
    BY <1>1, <2>1
  <2>2. CASE i > n
    <3>1. i - n \in 1..(Len(w) - n) /\ (i - n) + n = i
      BY <2>2
    <3>2. (v \o u)[i] = u[i - n]
      BY <1>1, <2>2
    <3> QED
      BY <1>1, <3>1, <3>2
  <2>3. i <= n \/ i > n
    BY <2>0
  <2> QED
    BY <2>1, <2>2, <2>3
<1>4. v \o u = w
  BY <1>2, <1>3, SameSeq
<1>5. (b \o v) \o u = b \o (v \o u)
  BY <1>1
<1> QED
  BY <1>4, <1>5 DEF u, v

\* s is r without the elements from p + 1 to q.
IsCut(r, s, p, q) ==
  /\ p \in Nat /\ q \in Nat /\ p <= q /\ q <= Len(r)
  /\ Len(s) = Len(r) - (q - p)
  /\ \A i \in 1..Len(s) : s[i] = IF i <= p THEN r[i] ELSE r[i + (q - p)]

LEMMA CutFront ==
  ASSUME NEW S, NEW b \in Seq(S), NEW w \in Seq(S), NEW k \in 0..Len(b)
  PROVE  IsCut(b \o w, SubSeq(b, k + 1, Len(b)) \o w, 0, k)
  BY DEF IsCut

LEMMA CutMore ==
  ASSUME NEW S, NEW b \in Seq(S), NEW w \in Seq(S), NEW n \in 0..Len(w)
  PROVE  IsCut(b \o w, << >> \o SubSeq(w, n + 1, Len(w)), 0, Len(b) + n)
  BY DEF IsCut

LEMMA CutMiddle ==
  ASSUME NEW S, NEW b \in Seq(S), NEW w \in Seq(S), NEW p \in 0..Len(w), NEW q \in 0..Len(w), p <= q
  PROVE  IsCut(b \o w, b \o (SubSeq(w, 1, p) \o SubSeq(w, q + 1, Len(w))), Len(b) + p, Len(b) + q)
<1>0. Len(b) \in Nat /\ Len(w) \in Nat
  OBVIOUS
<1> DEFINE x == SubSeq(w, 1, p)
           y == SubSeq(w, q + 1, Len(w))
<1>1. /\ x \in Seq(S) /\ Len(x) = p /\ \A i \in 1..p : x[i] = w[i]
      /\ y \in Seq(S) /\ Len(y) = Len(w) - q /\ \A i \in 1..(Len(w) - q) : y[i] = w[i + q]
  OBVIOUS
<1> HIDE DEF x, y
<1>2. /\ (b \o x) \o y = b \o (x \o y)
      /\ b \o x \in Seq(S) /\ Len(b \o x) = Len(b) + p
  BY <1>1
<1>3. ASSUME NEW i \in 1..(Len(b) + p) PROVE (b \o x)[i] = (b \o w)[i]
  BY <1>1
<1> DEFINE c == b \o x
<1>4. c \in Seq(S) /\ Len(c) = Len(b) + p /\ \A i \in 1..(Len(b) + p) : c[i] = (b \o w)[i]
  BY <1>2, <1>3
<1> HIDE DEF c
<1> DEFINE s == c \o y
<1>5. s \in Seq(S) /\ Len(s) = Len(b) + p + (Len(w) - q)
  <2>1. y \in Seq(S) /\ c \in Seq(S)
    BY <1>1, <1>4
  <2>2. s \in Seq(S) /\ Len(s) = Len(c) + Len(y)
    BY <2>1
  <2> QED
    BY <1>0, <1>1, <1>4, <2>2
<1>6. ASSUME NEW i \in 1..Len(s)
      PROVE s[i] = IF i <= Len(b) + p THEN (b \o w)[i] ELSE (b \o w)[i + (q - p)]
  <2>1. CASE i <= Len(b) + p
    BY <1>1, <1>4, <1>5, <2>1
  <2>2. CASE i > Len(b) + p
    <3> DEFINE j == i - (Len(b) + p)
    <3>1. j \in 1..(Len(w) - q) /\ j + q \in 1..Len(w) /\ i + (q - p) = Len(b) + (j + q) /\ i = Len(c) + j
      BY <1>0, <1>4, <1>5, <2>2
    <3> HIDE DEF j
    <3>2. s[Len(c) + j] = y[j]
      BY <1>1, <1>4, <3>1
    <3>3. \A k \in 1..Len(w) : (b \o w)[Len(b) + k] = w[k]
      OBVIOUS
    <3> QED
      BY <1>1, <1>4, <2>2, <3>1, <3>2, <3>3
  <2> QED
    BY <2>1, <2>2, <1>5
<1> HIDE DEF s
<1>7. (Len(b) + q) - (Len(b) + p) = q - p /\ Len(b \o w) = Len(b) + Len(w)
  OBVIOUS
<1>8. IsCut(b \o w, s, Len(b) + p, Len(b) + q)
  BY <1>5, <1>6, <1>7 DEF IsCut
<1> QED
  BY <1>2, <1>8 DEF s, c, x, y

----------------------------------------------------------------------------
(* The stream as one sequence.                                             *)

Numbering == [byte : Bytes, msg : Nat, at : Nat]

\* What has been sent and neither returned nor dropped.
Rest == buffer \o wire

TypeInv ==
  /\ wire \in Seq(Numbering) /\ buffer \in Seq(Numbering)
  /\ pc \in {"idle", "parse", "dead"}
  /\ result \in Kinds \cup {"none", "initialize"}
  /\ sent \in Seq(Messages)
  /\ returned \in Seq(Seq(Numbering))
  /\ overruns \in 0..MaxOverruns

LEMMA RestAt ==
  ASSUME TypeInv
  PROVE  /\ Rest \in Seq(Numbering) /\ Len(Rest) = Len(buffer) + Len(wire)
         /\ \A i \in 1..Len(buffer) : Rest[i] = buffer[i]
         /\ \A i \in 1..Len(wire) : Rest[Len(buffer) + i] = wire[i]
         /\ Len(buffer) \in Nat /\ Len(wire) \in Nat
  BY ConcatAt DEF TypeInv, Rest

\* What the factory strips starts where it looks, and goes on to a start codon
\* or to the end of the buffer.
LEMMA FromStartAt ==
  ASSUME NEW s \in Seq(Numbering)
  PROVE  \E k \in 0..Len(s) :
           /\ FromStart(s) = SubSeq(s, k + 1, Len(s))
           /\ \A i \in 1..k : s[i].byte # "start"
<1> DEFINE starts == {i \in DOMAIN s : s[i].byte = "start"}
<1>1. DOMAIN s = 1..Len(s) /\ Len(s) \in Nat
  OBVIOUS
<1>2. CASE starts = {}
  <2>1. FromStart(s) = << >>
    BY <1>2 DEF FromStart
  <2>2. SubSeq(s, Len(s) + 1, Len(s)) = << >>
    OBVIOUS
  <2>3. \A i \in 1..Len(s) : s[i].byte # "start"
    BY <1>1, <1>2
  <2> QED
    BY <1>1, <2>1, <2>2, <2>3
<1>3. CASE starts # {}
  <2>1. starts \in SUBSET Nat
    BY <1>1
  <2> DEFINE m == CHOOSE i \in starts : \A j \in starts : i <= j
  <2>2. FromStart(s) = SubSeq(s, m, Len(s))
    BY <1>3 DEF FromStart
  <2> HIDE DEF starts
  <2>3. \E i \in starts : \A j \in starts : i <= j
    BY <1>3, <2>1, LeastNatural
  <2>4. m \in starts /\ \A j \in starts : m <= j
    BY <2>3
  <2> HIDE DEF m
  <2>5. m \in 1..Len(s)
    BY <1>1, <2>4 DEF starts
  <2>6. m - 1 \in 0..Len(s) /\ (m - 1) + 1 = m
    BY <1>1, <2>5
  <2>7. ASSUME NEW i \in 1..(m - 1) PROVE s[i].byte # "start"
    <3>1. i \in 1..Len(s) /\ ~(m <= i)
      BY <1>1, <2>5
    <3> QED
      BY <1>1, <2>4, <3>1 DEF starts
  <2> QED
    BY <2>2, <2>6, <2>7
<1> QED
  BY <1>2, <1>3

LEMMA StripPartialAt ==
  ASSUME NEW s \in Seq(Numbering), s # << >>
  PROVE  \E k \in 1..Len(s) :
           /\ FromStart(Tail(s)) = SubSeq(s, k + 1, Len(s))
           /\ \A i \in 2..k : s[i].byte # "start"
<1> DEFINE t == Tail(s)
<1>1. /\ t \in Seq(Numbering) /\ Len(t) = Len(s) - 1 /\ Len(s) \in Nat \ {0}
      /\ \A i \in 1..Len(t) : t[i] = s[i + 1]
  OBVIOUS
<1> HIDE DEF t
<1>2. PICK k \in 0..Len(t) : /\ FromStart(t) = SubSeq(t, k + 1, Len(t))
                             /\ \A i \in 1..k : t[i].byte # "start"
  BY <1>1, FromStartAt
<1>3. k + 1 \in 1..Len(s)
  BY <1>1
<1> DEFINE u == SubSeq(t, k + 1, Len(t))
           v == SubSeq(s, (k + 1) + 1, Len(s))
<1>4. /\ u \in Seq(Numbering) /\ Len(u) = Len(t) - k
      /\ \A i \in 1..(Len(t) - k) : u[i] = t[i + k]
  BY <1>1, DropAt
<1>5. /\ v \in Seq(Numbering) /\ Len(v) = Len(s) - (k + 1)
      /\ \A i \in 1..(Len(s) - (k + 1)) : v[i] = s[i + (k + 1)]
  <2>1. k + 1 \in 0..Len(s)
    BY <1>3
  <2> QED
    BY <1>1, <2>1, DropAt
<1> HIDE DEF u, v
<1>6. Len(u) = Len(v)
  BY <1>1, <1>4, <1>5
<1>7. ASSUME NEW i \in 1..Len(u) PROVE u[i] = v[i]
  <2>1. /\ i \in 1..(Len(t) - k) /\ i + k \in 1..Len(t) /\ (i + k) + 1 = i + (k + 1)
        /\ i \in 1..(Len(s) - (k + 1))
    BY <1>1, <1>4
  <2> QED
    BY <1>1, <1>4, <1>5, <2>1
<1>8. u = v
  BY <1>4, <1>5, <1>6, <1>7, SameSeq
<1>9. ASSUME NEW i \in 2..(k + 1) PROVE s[i].byte # "start"
  <2>1. i - 1 \in 1..k /\ i - 1 \in 1..Len(t) /\ (i - 1) + 1 = i
    BY <1>1
  <2> QED
    BY <1>1, <1>2, <2>1
<1> QED
  BY <1>2, <1>3, <1>8, <1>9 DEF t, u, v

----------------------------------------------------------------------------
(* What a step does to the stream.                                         *)

Cut(p, q) == IsCut(Rest, Rest', p, q)

\* The buffer starts with a message, as far as the factory can tell.
Fits(kind) ==
  /\ Framed /\ Len(buffer) > 1 /\ buffer[2].byte = kind
  /\ Complete(kind) /\ Valid(kind)

\* The buffer starts with something that the factory strips.
Misfit ==
  /\ buffer # << >>
  /\ Framed => /\ Len(buffer) > 1
               /\ \A kind \in Kinds :
                    buffer[2].byte = kind => Complete(kind) /\ ~Valid(kind)

Quiet == Rest' = Rest /\ UNCHANGED <<sent, returned, damaged>>

Grows(s) ==
  /\ Rest' = Rest \o Numbered(s, Len(sent) + 1)
  /\ sent' = Append(sent, s)
  /\ UNCHANGED <<returned, damaged>>

Loses(p, q) ==
  /\ Cut(p, q)
  /\ damaged' = damaged \cup {Rest[i].msg : i \in p + 1..q}
  /\ UNCHANGED <<sent, returned>>

Strips(k) ==
  /\ Misfit /\ Cut(0, k) /\ k \in 1..Len(buffer)
  /\ \A i \in 2..k : Rest[i].byte # "start"
  /\ UNCHANGED <<sent, returned, damaged>>

Takes(kind, f) ==
  /\ Fits(kind) /\ f = FrameLength(kind) /\ f \in 1..Len(buffer) /\ Cut(0, f)
  /\ returned' = Append(returned, SubSeq(buffer, 1, f))
  /\ UNCHANGED <<sent, damaged>>

LEMMA SendableMessages ==
  ASSUME NEW s \in Messages
  PROVE  /\ s \in Seq(Bytes) /\ Len(s) \in Nat /\ Len(s) >= 4
         /\ \A i \in 1..Len(s) : s[i] \in Bytes
         /\ \E kind \in Kinds : Sendable(s, kind)
<1>1. s \in Seq(Bytes)
  BY MessagesAssumption
<1>2. PICK kind \in Kinds : Sendable(s, kind)
  BY MessagesAssumption
<1>3. Len(s) \in Nat /\ \A i \in 1..Len(s) : s[i] \in Bytes
  BY <1>1
<1>4. Len(s) > HeaderLength(kind)
  BY <1>2 DEF Sendable
<1>5. HeaderLength(kind) \in {3, 4}
  BY DEF HeaderLength
<1> QED
  BY <1>1, <1>2, <1>3, <1>4, <1>5

LEMMA FrameLengthIsNat ==
  ASSUME TypeInv, NEW kind \in Kinds, Complete(kind)
  PROVE  /\ FrameLength(kind) \in Nat /\ FrameLength(kind) >= 4
         /\ FrameLength(kind) \in 1..Len(buffer) /\ Len(buffer) >= 3
<1>1. buffer \in Seq(Numbering) /\ Len(buffer) \in Nat
  BY DEF TypeInv
<1>2. HeaderLength(kind) \in {3, 4} /\ (kind = "measured_data" => HeaderLength(kind) = 4)
  BY DEF HeaderLength
<1>3. Len(buffer) >= 3
  BY <1>1, <1>2 DEF Complete
<1>4. buffer[3].byte \in Bytes
  <2>1. buffer[3] \in Numbering
    BY <1>1, <1>3
  <2> QED
    BY <2>1 DEF Numbering
<1>5. TraceLength[buffer[3].byte] \in Nat
  BY <1>4, MessagesAssumption
<1>6. FrameLength(kind) \in Nat /\ FrameLength(kind) >= 4
  BY <1>2, <1>5 DEF FrameLength, Length
<1> QED
  BY <1>1, <1>3, <1>6 DEF Complete

LEMMA NumberedAt ==
  ASSUME NEW s \in Messages, NEW n \in Nat
  PROVE  /\ Numbered(s, n) \in Seq(Numbering) /\ Len(Numbered(s, n)) = Len(s)
         /\ \A i \in 1..Len(s) :
              Numbered(s, n)[i] = [byte |-> s[i], msg |-> n, at |-> i]
<1>1. /\ s \in Seq(Bytes) /\ Len(s) \in Nat /\ DOMAIN s = 1..Len(s)
      /\ \A i \in 1..Len(s) : s[i] \in Bytes
  BY SendableMessages
<1>2. \A i \in 1..Len(s) : [byte |-> s[i], msg |-> n, at |-> i] \in Numbering
  BY <1>1 DEF Numbering
<1> DEFINE b(i) == [byte |-> s[i], msg |-> n, at |-> i]
<1> HIDE DEF b
<1>3. \A i \in 1..Len(s) : b(i) \in Numbering
  BY <1>2 DEF b
<1>4. [i \in 1..Len(s) |-> b(i)] \in Seq(Numbering)
  BY <1>1, <1>3
<1>5. Numbered(s, n) = [i \in 1..Len(s) |-> b(i)]
  BY <1>1 DEF Numbered, b
<1>6. Len([i \in 1..Len(s) |-> b(i)]) = Len(s)
  BY <1>1
<1> QED
  BY <1>4, <1>5, <1>6 DEF b

LEMMA SendType ==
  ASSUME TypeInv, NEW s \in Messages, Send(s)
  PROVE  TypeInv' /\ Grows(s)
<1>1. Len(sent) \in Nat /\ Len(sent) + 1 \in Nat
  BY DEF TypeInv
<1>2. Numbered(s, Len(sent) + 1) \in Seq(Numbering)
  BY <1>1, NumberedAt
<1> DEFINE t == Numbered(s, Len(sent) + 1)
<1> HIDE DEF t
<1>3. /\ wire' = wire \o t /\ buffer' = buffer /\ sent' = Append(sent, s)
      /\ UNCHANGED <<pc, result, returned, damaged, overruns>>
  BY DEF Send, t
<1>4. wire \in Seq(Numbering) /\ buffer \in Seq(Numbering) /\ t \in Seq(Numbering)
  BY <1>2 DEF TypeInv, t
<1>5. wire' \in Seq(Numbering) /\ sent' \in Seq(Messages)
  BY <1>3, <1>4 DEF TypeInv
<1>6. (buffer \o wire) \o t = buffer \o (wire \o t)
  BY <1>4
<1>7. Rest' = Rest \o t
  BY <1>3, <1>6 DEF Rest
<1>8. TypeInv'
  BY <1>3, <1>5 DEF TypeInv
<1> QED
  BY <1>3, <1>7, <1>8 DEF Grows, t

LEMMA OverrunType ==
  ASSUME TypeInv, NEW from \in DOMAIN wire, NEW to \in DOMAIN wire, from <= to,
         Overrun(from, to)
  PROVE  TypeInv' /\ \E p, q \in Nat : Loses(p, q)
<1>1. /\ wire \in Seq(Numbering) /\ buffer \in Seq(Numbering)
      /\ Len(wire) \in Nat /\ Len(buffer) \in Nat /\ DOMAIN wire = 1..Len(wire)
  BY DEF TypeInv
<1> DEFINE p == from - 1
           front == SubSeq(wire, 1, p)
           back == SubSeq(wire, to + 1, Len(wire))
           lost == SubSeq(wire, from, to)
<1>2. p \in 0..Len(wire) /\ to \in 0..Len(wire) /\ p <= to /\ from = p + 1
  BY <1>1
<1>3. front \in Seq(Numbering) /\ back \in Seq(Numbering)
  BY <1>1, <1>2, TakeAt, DropAt
<1>4. /\ wire' = front \o back /\ buffer' = buffer
      /\ damaged' = damaged \cup NumbersIn(lost)
      /\ overruns' = overruns + 1 /\ overruns < MaxOverruns
      /\ UNCHANGED <<pc, result, sent, returned>>
  BY DEF Overrun
<1>5. /\ DOMAIN lost = 1..(to - p)
      /\ \A i \in 1..(to - p) : lost[i] = wire[p + i]
  BY <1>1, <1>2
<1> HIDE DEF p, front, back, lost
<1>6. wire' \in Seq(Numbering)
  BY <1>3, <1>4
<1>7. TypeInv'
  BY <1>4, <1>6, StreamBoundsAssumption DEF TypeInv
<1>8. Cut(Len(buffer) + p, Len(buffer) + to)
  <2>1. IsCut(buffer \o wire, buffer \o (front \o back), Len(buffer) + p, Len(buffer) + to)
    BY <1>1, <1>2, CutMiddle DEF front, back
  <2> QED
    BY <1>4, <2>1 DEF Cut, Rest
<1>9. NumbersIn(lost) = {Rest[i].msg : i \in (Len(buffer) + p) + 1..Len(buffer) + to}
  <2>1. ASSUME NEW i \in 1..(to - p)
        PROVE  /\ Len(buffer) + p + i \in (Len(buffer) + p) + 1..Len(buffer) + to
               /\ Rest[Len(buffer) + p + i] = lost[i]
    <3>1. p + i \in 1..Len(wire) /\ Len(buffer) + (p + i) = Len(buffer) + p + i
      BY <1>1, <1>2
    <3>2. Len(buffer) + p + i \in (Len(buffer) + p) + 1..Len(buffer) + to
      BY <1>1, <1>2
    <3> QED
      BY <1>5, <3>1, <3>2, RestAt
  <2>2. ASSUME NEW j \in (Len(buffer) + p) + 1..Len(buffer) + to
        PROVE  \E i \in 1..(to - p) : Rest[j] = lost[i]
    <3>1. j - (Len(buffer) + p) \in 1..(to - p) /\ Len(buffer) + p + (j - (Len(buffer) + p)) = j
      BY <1>1, <1>2
    <3> QED
      BY <2>1, <3>1
  <2> QED
    BY <1>5, <2>1, <2>2 DEF NumbersIn
<1>10. Len(buffer) + p \in Nat /\ Len(buffer) + to \in Nat
  BY <1>1, <1>2
<1>11. Loses(Len(buffer) + p, Len(buffer) + to)
  BY <1>4, <1>8, <1>9 DEF Loses
<1> QED
  BY <1>7, <1>10, <1>11

\* Flush and Restart.
LEMMA FlushType ==
  ASSUME TypeInv, NEW n \in 0..Len(wire),
         buffer' = << >>, wire' = SubSeq(wire, n + 1, Len(wire))
  PROVE  /\ buffer' \in Seq(Numbering) /\ wire' \in Seq(Numbering)
         /\ Len(buffer) + n \in Nat /\ Cut(0, Len(buffer) + n)
         /\ NumbersIn(buffer \o SubSeq(wire, 1, n)) =
              {Rest[i].msg : i \in 0 + 1..Len(buffer) + n}
<1>1. /\ wire \in Seq(Numbering) /\ buffer \in Seq(Numbering)
      /\ Len(wire) \in Nat /\ Len(buffer) \in Nat
  BY DEF TypeInv
<1>2. buffer' \in Seq(Numbering) /\ wire' \in Seq(Numbering)
  BY <1>1, DropAt
<1>3. Cut(0, Len(buffer) + n)
  BY <1>1, CutMore DEF Cut, Rest
<1> DEFINE t == SubSeq(wire, 1, n)
           u == SubSeq(wire, n + 1, Len(wire))
           gone == buffer \o t
<1>4. t \in Seq(Numbering) /\ Len(t) = n /\ u \in Seq(Numbering)
  BY <1>1, TakeAt, DropAt
<1>5. Rest = gone \o u
  BY <1>1, Moved DEF Rest
<1> HIDE DEF t, u
<1>6. gone \in Seq(Numbering) /\ Len(gone) = Len(buffer) + n
  <2>1. buffer \in Seq(Numbering) /\ t \in Seq(Numbering)
    BY <1>1, <1>4
  <2>2. gone \in Seq(Numbering) /\ Len(gone) = Len(buffer) + Len(t)
    BY <2>1
  <2> QED
    BY <1>4, <2>2
<1> HIDE DEF gone
<1>7. \A i \in 1..(Len(buffer) + n) : Rest[i] = gone[i]
  BY <1>4, <1>5, <1>6
<1>8. DOMAIN gone = 1..(Len(buffer) + n) /\ 0 + 1 = 1
  BY <1>6
<1>9. NumbersIn(gone) = {Rest[i].msg : i \in 0 + 1..Len(buffer) + n}
  BY <1>7, <1>8 DEF NumbersIn
<1>10. Len(buffer) + n \in Nat
  BY <1>1
<1> QED
  BY <1>2, <1>3, <1>9, <1>10 DEF gone, t

LEMMA ReadType ==
  ASSUME TypeInv, NEW n \in 0..Len(wire), Read(n)
  PROVE  TypeInv' /\ Quiet
<1>1. wire \in Seq(Numbering) /\ buffer \in Seq(Numbering)
  BY DEF TypeInv
<1> DEFINE t == SubSeq(wire, 1, n)
           u == SubSeq(wire, n + 1, Len(wire))
<1>2. t \in Seq(Numbering) /\ u \in Seq(Numbering)
  BY <1>1, TakeAt, DropAt
<1>3. (buffer \o t) \o u = buffer \o wire
  BY <1>1, Moved
<1>4. /\ buffer' = buffer \o t /\ wire' = u /\ pc' = "parse"
      /\ UNCHANGED <<result, sent, returned, damaged, overruns>>
  BY DEF Read
<1> HIDE DEF t, u
<1>5. buffer' \in Seq(Numbering)
  BY <1>1, <1>2, <1>4
<1> QED
  BY <1>1, <1>2, <1>3, <1>4, <1>5 DEF TypeInv, Quiet, Rest

\* FindStart, Corrupt and Unknown take at least one byte off the front.
LEMMA CutsOff ==
  ASSUME TypeInv, Misfit,
         \/ ~Framed /\ buffer' = FromStart(buffer)
         \/ buffer' = FromStart(Tail(buffer))
  PROVE  \E k \in 1..Len(buffer) :
           /\ buffer' = SubSeq(buffer, k + 1, Len(buffer))
           /\ \A i \in 2..k : buffer[i].byte # "start"
<1>0. /\ buffer \in Seq(Numbering) /\ buffer # << >>
      /\ Len(buffer) \in Nat /\ Len(buffer) >= 1
  BY DEF TypeInv, Misfit
<1>1. CASE ~Framed /\ buffer' = FromStart(buffer)
  <2>1. PICK k \in 0..Len(buffer) :
          /\ FromStart(buffer) = SubSeq(buffer, k + 1, Len(buffer))
          /\ \A i \in 1..k : buffer[i].byte # "start"
    BY <1>0, FromStartAt
  <2>2. CASE k >= 1
    <3>1. k \in 1..Len(buffer) /\ \A i \in 2..k : i \in 1..k
      BY <1>0, <2>2
    <3> QED
      BY <1>1, <2>1, <3>1
  <2>3. CASE k = 0
    <3>1. buffer[1].byte # "start"
      BY <1>0, <1>1 DEF Framed
    <3>2. FromStart(buffer) = SubSeq(buffer, 1, Len(buffer))
      BY <2>1, <2>3
    <3>3. SubSeq(buffer, 1, Len(buffer)) = buffer
      BY <1>0, TakeAt, SameSeq
    <3> DEFINE starts == {i \in DOMAIN buffer : buffer[i].byte = "start"}
    <3>4. CASE starts = {}
      <4>1. FromStart(buffer) = << >>
        BY <3>4 DEF FromStart
      <4> QED
        BY <1>0, <3>2, <3>3, <4>1
    <3>5. CASE starts # {}
      <4> DEFINE m == CHOOSE i \in starts : \A j \in starts : i <= j
      <4>1. FromStart(buffer) = SubSeq(buffer, m, Len(buffer))
        BY <3>5 DEF FromStart
      <4>2. starts \in SUBSET Nat /\ starts \subseteq 1..Len(buffer)
        BY <1>0
      <4> HIDE DEF starts
      <4>3. \E i \in starts : \A j \in starts : i <= j
        BY <3>5, <4>2, LeastNatural
      <4>4. m \in starts
        BY <4>3
      <4> HIDE DEF m
      <4>5. m \in 1..Len(buffer) /\ m # 1
        BY <3>1, <4>2, <4>4 DEF starts
      <4>6. Len(SubSeq(buffer, m, Len(buffer))) = Len(buffer) - (m - 1)
        BY <1>0, <4>5
      <4> QED
        BY <1>0, <3>2, <3>3, <4>1, <4>5, <4>6
    <3> QED
      BY <3>4, <3>5
  <2> QED
    BY <2>2, <2>3
<1>2. CASE buffer' = FromStart(Tail(buffer))
  BY <1>0, <1>2, StripPartialAt
<1> QED
  BY <1>1, <1>2

LEMMA StripsType ==
  ASSUME TypeInv, Misfit,
         \/ ~Framed /\ buffer' = FromStart(buffer)
         \/ buffer' = FromStart(Tail(buffer)),
         UNCHANGED <<wire, pc, result, sent, returned, damaged, overruns>>
  PROVE  TypeInv' /\ \E k \in Nat : Strips(k)
<1>1. /\ wire \in Seq(Numbering) /\ buffer \in Seq(Numbering) /\ buffer # << >>
      /\ Len(buffer) \in Nat /\ Len(buffer) >= 1
  BY DEF TypeInv, Misfit
<1>2. PICK k \in 1..Len(buffer) :
        /\ buffer' = SubSeq(buffer, k + 1, Len(buffer))
        /\ \A i \in 2..k : buffer[i].byte # "start"
  BY CutsOff
<1>3. k \in 0..Len(buffer) /\ k \in Nat
  BY <1>1
<1>4. Cut(0, k) /\ buffer' \in Seq(Numbering)
  BY <1>1, <1>2, <1>3, CutFront, DropAt DEF Cut, Rest
<1>5. ASSUME NEW i \in 2..k PROVE Rest[i].byte # "start"
  <2>1. i \in 1..Len(buffer)
    BY <1>1
  <2> QED
    BY <1>2, <2>1, RestAt
<1>6. Strips(k)
  BY <1>2, <1>4, <1>5 DEF Strips
<1> QED
  BY <1>3, <1>4, <1>6 DEF TypeInv

LEMMA ExtractType ==
  ASSUME TypeInv, NEW kind \in Kinds, Extract(kind)
  PROVE  TypeInv' /\ \E f \in Nat : Takes(kind, f)
<1>1. /\ wire \in Seq(Numbering) /\ buffer \in Seq(Numbering)
      /\ Len(buffer) \in Nat /\ returned \in Seq(Seq(Numbering))
  BY DEF TypeInv
<1> DEFINE f == FrameLength(kind)
<1>2. f \in Nat /\ f \in 1..Len(buffer)
  BY FrameLengthIsNat DEF Extract
<1>3. Fits(kind)
  BY DEF Extract, Identified, Fits
<1>4. /\ returned' = Append(returned, SubSeq(buffer, 1, f))
      /\ buffer' = SubSeq(buffer, f + 1, Len(buffer))
      /\ pc' = "idle" /\ result' = kind
      /\ UNCHANGED <<wire, sent, damaged, overruns>>
  BY DEF Extract, Return
<1> HIDE DEF f
<1>5. f \in 0..Len(buffer)
  BY <1>1, <1>2
<1>6. Cut(0, f) /\ buffer' \in Seq(Numbering)
  BY <1>1, <1>4, <1>5, CutFront, DropAt DEF Cut, Rest
<1>7. SubSeq(buffer, 1, f) \in Seq(Numbering)
  BY <1>1, <1>5, TakeAt
<1>8. returned' \in Seq(Seq(Numbering))
  BY <1>1, <1>4, <1>7
<1>9. Takes(kind, f)
  BY <1>2, <1>3, <1>4, <1>6 DEF Takes, f
<1>10. TypeInv'
  BY <1>4, <1>6, <1>8 DEF TypeInv
<1> QED
  BY <1>2, <1>9, <1>10

\* What a step does to the stream is one of five things.
StepKinds ==
  \/ Quiet
  \/ \E s \in Messages : Grows(s)
  \/ \E p, q \in Nat : Loses(p, q)
  \/ \E k \in Nat : Strips(k)
  \/ \E kind \in Kinds : \E f \in Nat : Takes(kind, f)

LEMMA StepCases == TypeInv /\ [Next]_vars => TypeInv' /\ StepKinds
<1> SUFFICES ASSUME TypeInv, [Next]_vars PROVE TypeInv' /\ StepKinds
  OBVIOUS
<1>1. CASE UNCHANGED vars
  BY <1>1 DEF vars, TypeInv, StepKinds, Quiet, Rest
<1>2. ASSUME NEW s \in Messages, Send(s) PROVE TypeInv' /\ StepKinds
  BY <1>2, SendType DEF StepKinds
<1>3. ASSUME NEW from \in DOMAIN wire, NEW to \in DOMAIN wire, from <= to,
             Overrun(from, to)
      PROVE  TypeInv' /\ StepKinds
  BY <1>3, OverrunType DEF StepKinds
<1>4. ASSUME NEW n \in 0..Len(wire), Flush(n) \/ Restart(n)
      PROVE  TypeInv' /\ StepKinds
  <2>1. /\ buffer' = << >> /\ wire' = SubSeq(wire, n + 1, Len(wire))
        /\ damaged' = damaged \cup NumbersIn(buffer \o SubSeq(wire, 1, n))
        /\ pc' \in {"idle", "parse", "dead"}
        /\ result' \in Kinds \cup {"none", "initialize"}
        /\ UNCHANGED <<sent, returned, overruns>>
    BY <1>4 DEF Flush, Restart, TypeInv
  <2>2. /\ buffer' \in Seq(Numbering) /\ wire' \in Seq(Numbering)
        /\ Len(buffer) + n \in Nat /\ Cut(0, Len(buffer) + n)
        /\ NumbersIn(buffer \o SubSeq(wire, 1, n)) =
             {Rest[i].msg : i \in 0 + 1..Len(buffer) + n}
    BY <2>1, FlushType
  <2>3. Loses(0, Len(buffer) + n)
    BY <2>1, <2>2 DEF Loses
  <2>4. TypeInv'
    BY <2>1, <2>2 DEF TypeInv
  <2> QED
    BY <2>2, <2>3, <2>4 DEF StepKinds
<1>5. ASSUME NEW n \in 0..Len(wire), Read(n) PROVE TypeInv' /\ StepKinds
  BY <1>5, ReadType DEF StepKinds
<1>6. CASE FindNothing \/ OnlyStart \/ Initialize \/ Reset \/ \E kind \in Kinds : Wait(kind)
  <2>1. UNCHANGED <<wire, buffer, sent, returned, damaged, overruns>>
    BY <1>6 DEF FindNothing, OnlyStart, Initialize, Reset, Wait, Return
  <2>2. /\ pc' \in {"idle", "parse", "dead"}
        /\ result' \in Kinds \cup {"none", "initialize"}
    BY <1>6 DEF FindNothing, OnlyStart, Initialize, Reset, Wait, Return, TypeInv
  <2> QED
    BY <2>1, <2>2 DEF TypeInv, StepKinds, Quiet, Rest
<1>7. CASE FindStart
  <2>1. Misfit
    BY <1>7 DEF FindStart, Misfit
  <2> QED
    BY <1>7, <2>1, StripsType DEF FindStart, StepKinds
<1>8. ASSUME NEW kind \in Kinds, Extract(kind) PROVE TypeInv' /\ StepKinds
  BY <1>8, ExtractType DEF StepKinds
<1>9. ASSUME NEW kind \in Kinds, Corrupt(kind) PROVE TypeInv' /\ StepKinds
  <2>1. Misfit
    BY <1>9 DEF Corrupt, Identified, Framed, Misfit
  <2> QED
    BY <1>9, <2>1, StripsType DEF Corrupt, StripPartial, StepKinds
<1>10. ASSUME NEW id \in Bytes \ (Kinds \cup {"spare_bytes", "reset"}), Unknown(id)
       PROVE  TypeInv' /\ StepKinds
  <2>1. Misfit
    BY <1>10 DEF Unknown, Identified, Framed, Misfit
  <2> QED
    BY <1>10, <2>1, StripsType DEF Unknown, StripPartial, StepKinds
<1> QED
  BY <1>1, <1>2, <1>3, <1>4, <1>5, <1>6, <1>7, <1>8, <1>9, <1>10 DEF Next, Factory

LEMMA TypeInit == Init => TypeInv
<1> SUFFICES ASSUME Init PROVE TypeInv
  OBVIOUS
<1>1. << >> \in Seq(Numbering) /\ << >> \in Seq(Messages) /\ << >> \in Seq(Seq(Numbering))
  OBVIOUS
<1>2. 0 \in 0..MaxOverruns
  BY StreamBoundsAssumption
<1> QED
  BY <1>1, <1>2 DEF Init, TypeInv

----------------------------------------------------------------------------
(* Positions before and after a step.                                      *)

\* Where the byte was that is now at i.
Was(p, q, i) == IF i <= p THEN i ELSE i + (q - p)

LEMMA CutAt ==
  ASSUME TypeInv, TypeInv', NEW p \in Nat, NEW q \in Nat, Cut(p, q)
  PROVE  /\ p <= q /\ q <= Len(Rest)
         /\ Len(Rest) \in Nat /\ Len(Rest') \in Nat /\ Len(Rest') = Len(Rest) - (q - p)
         /\ \A i \in 1..Len(Rest') : /\ Was(p, q, i) \in 1..Len(Rest)
                                     /\ Was(p, q, i) \notin p + 1..q
                                     /\ Rest'[i] = Rest[Was(p, q, i)]
         /\ \A i, j \in 1..Len(Rest') : i < j => Was(p, q, i) < Was(p, q, j)
         /\ \A j \in 1..Len(Rest) :
              j \notin p + 1..q => \E i \in 1..Len(Rest') : Was(p, q, i) = j
<1>1. Rest \in Seq(Numbering) /\ Rest' \in Seq(Numbering)
  BY RestAt DEF TypeInv, Rest
<1>2. Len(Rest) \in Nat /\ Len(Rest') \in Nat
  BY <1>1
<1>3. /\ p <= q /\ q <= Len(Rest) /\ Len(Rest') = Len(Rest) - (q - p)
      /\ \A i \in 1..Len(Rest') : Rest'[i] = Rest[Was(p, q, i)]
  BY DEF Cut, IsCut, Was
<1>4. \A i \in 1..Len(Rest') : Was(p, q, i) \in 1..Len(Rest) /\ Was(p, q, i) \notin p + 1..q
  BY <1>2, <1>3 DEF Was
<1>5. \A i, j \in 1..Len(Rest') : i < j => Was(p, q, i) < Was(p, q, j)
  BY <1>2, <1>3 DEF Was
<1>6. ASSUME NEW j \in 1..Len(Rest), j \notin p + 1..q
      PROVE  \E i \in 1..Len(Rest') : Was(p, q, i) = j
  <2>1. CASE j <= p
    <3>1. j \in 1..Len(Rest') /\ Was(p, q, j) = j
      BY <1>2, <1>3, <2>1 DEF Was
    <3> QED
      BY <3>1
  <2>2. CASE j > q
    <3>1. j - (q - p) \in 1..Len(Rest') /\ Was(p, q, j - (q - p)) = j
      BY <1>2, <1>3, <2>2 DEF Was
    <3> QED
      BY <3>1
  <2> QED
    BY <1>2, <1>6, <2>1, <2>2
<1> QED
  BY <1>2, <1>3, <1>4, <1>5, <1>6

LEMMA GrowsAt ==
  ASSUME TypeInv, NEW s \in Messages, Grows(s)
  PROVE  /\ Len(Rest') = Len(Rest) + Len(s) /\ Len(Rest) \in Nat /\ Len(s) \in Nat
         /\ \A i \in 1..Len(Rest) : Rest'[i] = Rest[i]
         /\ \A i \in 1..Len(s) :
              Rest'[Len(Rest) + i] = [byte |-> s[i], msg |-> Len(sent) + 1, at |-> i]
         /\ Len(sent) \in Nat /\ Len(sent') = Len(sent) + 1
         /\ \A n \in 1..Len(sent) : sent'[n] = sent[n]
         /\ sent'[Len(sent) + 1] = s
<1> DEFINE t == Numbered(s, Len(sent) + 1)
<1>1. Len(sent) \in Nat /\ Len(sent) + 1 \in Nat
  BY DEF TypeInv
<1>2. /\ t \in Seq(Numbering) /\ Len(t) = Len(s) /\ Len(s) \in Nat
      /\ \A i \in 1..Len(s) : t[i] = [byte |-> s[i], msg |-> Len(sent) + 1, at |-> i]
  BY <1>1, NumberedAt, SendableMessages
<1>3. Rest \in Seq(Numbering) /\ Len(Rest) \in Nat
  BY RestAt
<1> HIDE DEF t
<1>4. /\ Len(Rest \o t) = Len(Rest) + Len(t)
      /\ \A i \in 1..Len(Rest) : (Rest \o t)[i] = Rest[i]
      /\ \A i \in 1..Len(t) : (Rest \o t)[Len(Rest) + i] = t[i]
  <2>1. Rest \in Seq(Numbering) /\ t \in Seq(Numbering)
    BY <1>2, <1>3
  <2> QED
    BY <2>1, ConcatAt
<1>5. Rest' = Rest \o t
  BY DEF Grows, t
<1>6. /\ Len(sent') = Len(sent) + 1 /\ sent'[Len(sent) + 1] = s
      /\ \A n \in 1..Len(sent) : sent'[n] = sent[n]
  BY DEF Grows, TypeInv
<1> QED
  BY <1>1, <1>2, <1>3, <1>4, <1>5, <1>6

LEMMA TakesAt ==
  ASSUME TypeInv, TypeInv', NEW kind \in Kinds, NEW f \in Nat, Takes(kind, f)
  PROVE  /\ Len(returned) \in Nat /\ Len(returned') = Len(returned) + 1
         /\ \A r \in 1..Len(returned) : returned'[r] = returned[r]
         /\ Len(returned'[Len(returned) + 1]) = f
         /\ \A i \in 1..f : returned'[Len(returned) + 1][i] = Rest[i]
         /\ f \in 1..Len(Rest) /\ f \in 1..Len(buffer)
         /\ Len(Rest') = Len(Rest) - f /\ Len(Rest) \in Nat
         /\ \A i \in 1..(Len(Rest) - f) : Rest'[i] = Rest[i + f]
<1>1. buffer \in Seq(Numbering) /\ returned \in Seq(Seq(Numbering))
  BY DEF TypeInv
<1>2. f \in 1..Len(buffer) /\ f \in 0..Len(buffer)
  BY <1>1 DEF Takes
<1> DEFINE t == SubSeq(buffer, 1, f)
<1>3. t \in Seq(Numbering) /\ Len(t) = f /\ \A i \in 1..f : t[i] = buffer[i]
  BY <1>1, <1>2, TakeAt
<1>4. returned' = Append(returned, t)
  BY DEF Takes
<1> HIDE DEF t
<1>5. /\ Len(returned) \in Nat /\ Len(returned') = Len(returned) + 1
      /\ \A r \in 1..Len(returned) : returned'[r] = returned[r]
      /\ returned'[Len(returned) + 1] = t
  BY <1>1, <1>3, <1>4
<1>6. \A i \in 1..f : t[i] = Rest[i]
  <2>1. \A i \in 1..f : i \in 1..Len(buffer)
    BY <1>1, <1>2
  <2> QED
    BY <1>3, <2>1, RestAt
<1>7. f \in 1..Len(Rest) /\ Len(Rest) \in Nat
  BY <1>1, <1>2, RestAt
<1>8. /\ Len(Rest') = Len(Rest) - (f - 0)
      /\ \A i \in 1..Len(Rest') : Rest'[i] = IF i <= 0 THEN Rest[i] ELSE Rest[i + (f - 0)]
  BY DEF Takes, Cut, IsCut
<1>9. \A i \in 1..(Len(Rest) - f) : Rest'[i] = Rest[i + f]
  BY <1>7, <1>8
<1> QED
  BY <1>2, <1>3, <1>5, <1>6, <1>7, <1>8, <1>9

----------------------------------------------------------------------------
(* Every byte is one that was sent, and in its place.                      *)

Own(b, m) ==
  /\ b.msg \in 1..Len(m) /\ b.at \in 1..Len(m[b.msg])
  /\ b.byte = m[b.msg][b.at]

OwnInv ==
  /\ \A i \in 1..Len(Rest) : Own(Rest[i], sent)
  /\ \A r \in 1..Len(returned) :
       \A i \in 1..Len(returned[r]) : Own(returned[r][i], sent)

LEMMA OwnStep == TypeInv /\ TypeInv' /\ StepKinds /\ OwnInv => OwnInv'
<1> SUFFICES ASSUME TypeInv, TypeInv', StepKinds, OwnInv PROVE OwnInv'
  OBVIOUS
<1>1. CASE Quiet
  BY <1>1 DEF Quiet, OwnInv
<1>2. ASSUME NEW s \in Messages, Grows(s) PROVE OwnInv'
  <2>1. ASSUME NEW b, Own(b, sent) PROVE Own(b, sent')
    <3>1. b.msg \in 1..Len(sent') /\ sent'[b.msg] = sent[b.msg]
      BY <1>2, <2>1, GrowsAt DEF Own
    <3> QED
      BY <2>1, <3>1 DEF Own
  <2>2. ASSUME NEW i \in 1..Len(Rest') PROVE Own(Rest'[i], sent')
    <3>1. CASE i <= Len(Rest)
      <4>1. i \in 1..Len(Rest) /\ Rest'[i] = Rest[i]
        BY <1>2, <3>1, GrowsAt
      <4> QED
        BY <2>1, <4>1 DEF OwnInv
    <3>2. CASE i > Len(Rest)
      <4> DEFINE k == i - Len(Rest)
                 b == [byte |-> s[k], msg |-> Len(sent) + 1, at |-> k]
      <4>1. k \in 1..Len(s) /\ Len(Rest) + k = i
        BY <1>2, <3>2, GrowsAt
      <4>2. Rest'[i] = b /\ b.byte = s[k] /\ b.msg = Len(sent) + 1 /\ b.at = k
        BY <1>2, <4>1, GrowsAt
      <4> HIDE DEF b, k
      <4>3. b.msg \in 1..Len(sent') /\ sent'[b.msg] = s
        BY <1>2, <4>2, GrowsAt
      <4> QED
        BY <4>1, <4>2, <4>3 DEF Own
    <3>3. i \in Nat /\ Len(Rest) \in Nat
      BY <1>2, GrowsAt
    <3> QED
      BY <3>1, <3>2, <3>3
  <2>3. returned' = returned
    BY <1>2 DEF Grows
  <2>4. ASSUME NEW r \in 1..Len(returned), NEW i \in 1..Len(returned[r])
        PROVE  Own(returned[r][i], sent')
    BY <2>1 DEF OwnInv
  <2> QED
    BY <2>2, <2>3, <2>4 DEF OwnInv
<1>3. ASSUME NEW p \in Nat, NEW q \in Nat, Cut(p, q), UNCHANGED <<sent, returned>>
      PROVE  OwnInv'
  <2>1. \A i \in 1..Len(Rest') : Own(Rest'[i], sent)
    BY <1>3, CutAt DEF OwnInv
  <2> QED
    BY <1>3, <2>1 DEF OwnInv
<1>4. ASSUME NEW kind \in Kinds, NEW f \in Nat, Takes(kind, f) PROVE OwnInv'
  <2>1. ASSUME NEW i \in 1..Len(Rest') PROVE Own(Rest'[i], sent)
    <3>1. Cut(0, f) /\ 0 \in Nat
      BY <1>4 DEF Takes
    <3> QED
      BY <3>1, CutAt DEF OwnInv
  <2>2. ASSUME NEW r \in 1..Len(returned'), NEW i \in 1..Len(returned'[r])
        PROVE  Own(returned'[r][i], sent)
    <3>1. CASE r \in 1..Len(returned)
      <4>1. returned'[r] = returned[r]
        BY <1>4, <3>1, TakesAt
      <4> QED
        BY <3>1, <4>1 DEF OwnInv
    <3>2. CASE r = Len(returned) + 1
      <4>1. i \in 1..f /\ returned'[r][i] = Rest[i]
        BY <1>4, <3>2, TakesAt
      <4>2. i \in 1..Len(Rest)
        BY <1>4, <4>1, TakesAt
      <4> QED
        BY <4>1, <4>2 DEF OwnInv
    <3>3. r \in 1..Len(returned) \/ r = Len(returned) + 1
      BY <1>4, TakesAt
    <3> QED
      BY <3>1, <3>2, <3>3
  <2>3. sent' = sent
    BY <1>4 DEF Takes
  <2> QED
    BY <2>1, <2>2, <2>3 DEF OwnInv
<1>5. ASSUME NEW p \in Nat, NEW q \in Nat, Loses(p, q) PROVE OwnInv'
  BY <1>3, <1>5 DEF Loses
<1>6. ASSUME NEW k \in Nat, Strips(k) PROVE OwnInv'
  <2>1. Cut(0, k) /\ 0 \in Nat /\ UNCHANGED <<sent, returned>>
    BY <1>6 DEF Strips
  <2> QED
    BY <1>3, <2>1
<1> QED
  BY <1>1, <1>2, <1>4, <1>5, <1>6 DEF StepKinds

----------------------------------------------------------------------------
(* The bytes are in the order in which they were sent.                     *)

OrderInv ==
  /\ \A i, j \in 1..Len(Rest) : i < j => Before(Rest[i], Rest[j])
  /\ \A r \in 1..Len(returned) :
       /\ \A i, j \in 1..Len(returned[r]) : i < j => Before(returned[r][i], returned[r][j])
       /\ \A i \in 1..Len(returned[r]) : \A j \in 1..Len(Rest) :
            Before(returned[r][i], Rest[j])
  /\ \A q, r \in 1..Len(returned) : q < r =>
       \A i \in 1..Len(returned[q]) : \A j \in 1..Len(returned[r]) :
         Before(returned[q][i], returned[r][j])

LEMMA OrderStep ==
  TypeInv /\ TypeInv' /\ StepKinds /\ OwnInv /\ OrderInv => OrderInv'
<1> SUFFICES ASSUME TypeInv, TypeInv', StepKinds, OwnInv, OrderInv PROVE OrderInv'
  OBVIOUS
<1>1. CASE Quiet
  BY <1>1 DEF Quiet, OrderInv
<1>2. ASSUME NEW s \in Messages, Grows(s) PROVE OrderInv'
  <2>1. ASSUME NEW i \in 1..Len(s)
        PROVE  /\ Rest'[Len(Rest) + i].msg = Len(sent) + 1
               /\ Rest'[Len(Rest) + i].at = i
    <3>1. Rest'[Len(Rest) + i] = [byte |-> s[i], msg |-> Len(sent) + 1, at |-> i]
      BY <1>2, GrowsAt
    <3> QED
      BY <3>1
  <2>2. ASSUME NEW b, Own(b, sent), NEW i \in 1..Len(s)
        PROVE  Before(b, Rest'[Len(Rest) + i])
    <3>1. b.msg < Len(sent) + 1
      BY <1>2, <2>2, GrowsAt DEF Own
    <3> QED
      BY <2>1, <3>1 DEF Before
  <2>3. ASSUME NEW i \in 1..Len(Rest')
        PROVE  \/ i \in 1..Len(Rest) /\ Rest'[i] = Rest[i]
               \/ \E k \in 1..Len(s) : i = Len(Rest) + k
    <3>1. CASE i <= Len(Rest)
      BY <1>2, <3>1, GrowsAt
    <3>2. CASE i > Len(Rest)
      <4>1. i - Len(Rest) \in 1..Len(s) /\ i = Len(Rest) + (i - Len(Rest))
        BY <1>2, <3>2, GrowsAt
      <4> QED
        BY <4>1
    <3>3. i \in Nat /\ Len(Rest) \in Nat
      BY <1>2, GrowsAt
    <3> QED
      BY <3>1, <3>2, <3>3
  <2>4. ASSUME NEW i \in 1..Len(Rest'), NEW j \in 1..Len(Rest'), i < j
        PROVE  Before(Rest'[i], Rest'[j])
    <3>1. CASE j \in 1..Len(Rest)
      <4>1. i \in 1..Len(Rest)
        BY <1>2, <2>4, <3>1, GrowsAt
      <4> QED
        BY <1>2, <2>4, <3>1, <4>1, GrowsAt DEF OrderInv
    <3>2. CASE j \notin 1..Len(Rest)
      <4>1. PICK k \in 1..Len(s) : j = Len(Rest) + k
        BY <2>3, <3>2
      <4>2. CASE i \in 1..Len(Rest) /\ Rest'[i] = Rest[i]
        BY <2>2, <4>1, <4>2 DEF OwnInv
      <4>3. ASSUME NEW l \in 1..Len(s), i = Len(Rest) + l PROVE Before(Rest'[i], Rest'[j])
        <5>1. l < k
          BY <1>2, <2>4, <4>1, <4>3, GrowsAt
        <5> QED
          BY <2>1, <4>1, <4>3, <5>1 DEF Before
      <4> QED
        BY <2>3, <4>2, <4>3
    <3> QED
      BY <3>1, <3>2
  <2>5. returned' = returned
    BY <1>2 DEF Grows
  <2>6. ASSUME NEW r \in 1..Len(returned), NEW i \in 1..Len(returned[r]),
               NEW j \in 1..Len(Rest')
        PROVE  Before(returned[r][i], Rest'[j])
    <3>1. CASE j \in 1..Len(Rest) /\ Rest'[j] = Rest[j]
      BY <3>1 DEF OrderInv
    <3>2. ASSUME NEW k \in 1..Len(s), j = Len(Rest) + k
          PROVE  Before(returned[r][i], Rest'[j])
      BY <2>2, <3>2 DEF OwnInv
    <3> QED
      BY <2>3, <3>1, <3>2
  <2> QED
    BY <2>4, <2>5, <2>6 DEF OrderInv
<1>3. ASSUME NEW p \in Nat, NEW q \in Nat, Cut(p, q)
      PROVE  /\ \A i, j \in 1..Len(Rest') : i < j => Before(Rest'[i], Rest'[j])
             /\ \A r \in 1..Len(returned) : \A i \in 1..Len(returned[r]) :
                  \A j \in 1..Len(Rest') : Before(returned[r][i], Rest'[j])
  <2>1. ASSUME NEW i \in 1..Len(Rest')
        PROVE  Was(p, q, i) \in 1..Len(Rest) /\ Rest'[i] = Rest[Was(p, q, i)]
    BY <1>3, CutAt
  <2>2. ASSUME NEW i \in 1..Len(Rest'), NEW j \in 1..Len(Rest'), i < j
        PROVE  Before(Rest'[i], Rest'[j])
    <3>1. Was(p, q, i) < Was(p, q, j)
      BY <1>3, <2>2, CutAt
    <3> QED
      BY <2>1, <3>1 DEF OrderInv
  <2>3. ASSUME NEW r \in 1..Len(returned), NEW i \in 1..Len(returned[r]),
               NEW j \in 1..Len(Rest')
        PROVE  Before(returned[r][i], Rest'[j])
    BY <2>1 DEF OrderInv
  <2> QED
    BY <2>2, <2>3
<1>4. ASSUME NEW kind \in Kinds, NEW f \in Nat, Takes(kind, f) PROVE OrderInv'
  <2> DEFINE new == Len(returned) + 1
  <2>1. /\ Len(returned) \in Nat /\ Len(returned') = Len(returned) + 1
        /\ \A r \in 1..Len(returned) : returned'[r] = returned[r]
        /\ Len(returned'[new]) = f /\ f \in 1..Len(Rest) /\ Len(Rest) \in Nat
        /\ Len(Rest') = Len(Rest) - f
    BY <1>4, TakesAt
  <2>2. \A i \in 1..f : returned'[new][i] = Rest[i] /\ i \in 1..Len(Rest)
    BY <1>4, <2>1, TakesAt
  <2>3. \A i \in 1..Len(Rest') :
          Rest'[i] = Rest[i + f] /\ i + f \in 1..Len(Rest) /\ i + f > f
    BY <1>4, <2>1, TakesAt
  <2>4. new \notin 1..Len(returned) /\ \A r \in 1..Len(returned') :
          r \in 1..Len(returned) \/ r = new
    BY <2>1
  <2> HIDE DEF new
  <2>5. Cut(0, f) /\ 0 \in Nat
    BY <1>4 DEF Takes
  <2>6. ASSUME NEW i \in 1..Len(Rest'), NEW j \in 1..Len(Rest'), i < j
        PROVE  Before(Rest'[i], Rest'[j])
    BY <1>3, <2>5, <2>6
  <2>7. ASSUME NEW r \in 1..Len(returned'), NEW i \in 1..Len(returned'[r]),
               NEW j \in 1..Len(returned'[r]), i < j
        PROVE  Before(returned'[r][i], returned'[r][j])
    <3>1. CASE r \in 1..Len(returned)
      BY <2>1, <2>7, <3>1 DEF OrderInv
    <3>2. CASE r = new
      BY <2>1, <2>2, <2>7, <3>2 DEF OrderInv
    <3> QED
      BY <2>4, <3>1, <3>2
  <2>8. ASSUME NEW r \in 1..Len(returned'), NEW i \in 1..Len(returned'[r]),
               NEW j \in 1..Len(Rest')
        PROVE  Before(returned'[r][i], Rest'[j])
    <3>1. CASE r \in 1..Len(returned)
      BY <1>3, <2>1, <2>5, <3>1
    <3>2. CASE r = new
      <4>1. i \in 1..f /\ i \in 1..Len(Rest) /\ returned'[r][i] = Rest[i]
        BY <2>1, <2>2, <3>2
      <4>2. i < j + f
        BY <2>1, <2>3, <4>1
      <4> QED
        BY <2>3, <4>1, <4>2 DEF OrderInv
    <3> QED
      BY <2>4, <3>1, <3>2
  <2>9. ASSUME NEW q \in 1..Len(returned'), NEW r \in 1..Len(returned'), q < r,
               NEW i \in 1..Len(returned'[q]), NEW j \in 1..Len(returned'[r])
        PROVE  Before(returned'[q][i], returned'[r][j])
    <3>1. q \in 1..Len(returned)
      BY <2>1, <2>9
    <3>2. CASE r \in 1..Len(returned)
      BY <2>1, <2>9, <3>1, <3>2 DEF OrderInv
    <3>3. CASE r = new
      BY <2>1, <2>2, <3>1, <3>3 DEF OrderInv
    <3> QED
      BY <2>4, <3>2, <3>3
  <2> QED
    BY <2>6, <2>7, <2>8, <2>9 DEF OrderInv
<1>5. ASSUME NEW p \in Nat, NEW q \in Nat, Cut(p, q), returned' = returned PROVE OrderInv'
  BY <1>3, <1>5 DEF OrderInv
<1>6. ASSUME NEW p \in Nat, NEW q \in Nat, Loses(p, q) PROVE OrderInv'
  BY <1>5, <1>6 DEF Loses
<1>7. ASSUME NEW k \in Nat, Strips(k) PROVE OrderInv'
  <2>1. Cut(0, k) /\ 0 \in Nat /\ returned' = returned
    BY <1>7 DEF Strips
  <2> QED
    BY <1>5, <2>1
<1> QED
  BY <1>1, <1>2, <1>4, <1>6, <1>7 DEF StepKinds

LEMMA OrderInit == Init => OwnInv /\ OrderInv
<1> SUFFICES ASSUME Init PROVE OwnInv /\ OrderInv
  OBVIOUS
<1>1. Len(Rest) = 0 /\ Len(returned) = 0
  BY DEF Init, Rest
<1> QED
  BY <1>1 DEF OwnInv, OrderInv

OrderedInv == TypeInv /\ OwnInv /\ OrderInv

LEMMA OrderedAlways == Spec => []OrderedInv
<1>1. Init => OrderedInv
  BY TypeInit, OrderInit DEF OrderedInv
<1>2. OrderedInv /\ [Next]_vars => OrderedInv'
  BY StepCases, OwnStep, OrderStep DEF OrderedInv
<1> QED
  BY <1>1, <1>2, PTL DEF Spec

LEMMA InOrderConcat ==
  ASSUME NEW s \in Seq(Numbering), NEW t \in Seq(Numbering), InOrder(s), InOrder(t),
         \A i \in 1..Len(s) : \A j \in 1..Len(t) : Before(s[i], t[j])
  PROVE  InOrder(s \o t)
<1>1. /\ DOMAIN s = 1..Len(s) /\ DOMAIN t = 1..Len(t)
      /\ Len(s) \in Nat /\ Len(t) \in Nat
  OBVIOUS
<1>2. /\ DOMAIN (s \o t) = 1..(Len(s) + Len(t))
      /\ \A i \in 1..Len(s) : (s \o t)[i] = s[i]
      /\ \A i \in 1..Len(t) : (s \o t)[Len(s) + i] = t[i]
  OBVIOUS
<1> DEFINE u == s \o t
<1> HIDE DEF u
<1>3. ASSUME NEW i \in 1..(Len(s) + Len(t)), i \notin 1..Len(s)
      PROVE  \E k \in 1..Len(t) : i = Len(s) + k
  <2>1. i - Len(s) \in 1..Len(t) /\ i = Len(s) + (i - Len(s))
    BY <1>1, <1>3
  <2> QED
    BY <2>1
<1>4. ASSUME NEW i \in DOMAIN u, NEW j \in DOMAIN u, i < j PROVE Before(u[i], u[j])
  <2>1. i \in 1..(Len(s) + Len(t)) /\ j \in 1..(Len(s) + Len(t))
    BY <1>2 DEF u
  <2>2. CASE j \in 1..Len(s)
    <3>1. i \in 1..Len(s)
      BY <1>1, <1>4, <2>1, <2>2
    <3> QED
      BY <1>1, <1>2, <1>4, <2>2, <3>1 DEF InOrder, u
  <2>3. CASE j \notin 1..Len(s)
    <3>1. PICK k \in 1..Len(t) : j = Len(s) + k
      BY <1>3, <2>1, <2>3
    <3>2. CASE i \in 1..Len(s)
      BY <1>2, <3>1, <3>2 DEF u
    <3>3. CASE i \notin 1..Len(s)
      <4>1. PICK l \in 1..Len(t) : i = Len(s) + l
        BY <1>3, <2>1, <3>3
      <4>2. l < k
        BY <1>1, <1>4, <3>1, <4>1
      <4>3. Before(t[l], t[k])
        BY <1>1, <4>2 DEF InOrder
      <4> QED
        BY <1>2, <3>1, <4>1, <4>3 DEF u
    <3> QED
      BY <3>2, <3>3
  <2> QED
    BY <2>2, <2>3
<1> QED
  BY <1>4 DEF InOrder, u

\* No byte is used twice and none overtakes another, for any number of
\* messages, overruns and flushes (read_into_buffer, flush_device and every
\* branch of the factory).
THEOREM BytesUsedOnce == Spec => []EachByteOnce
<1>1. OrderedInv => EachByteOnce
  <2> SUFFICES ASSUME OrderedInv PROVE EachByteOnce
    OBVIOUS
  <2>1. /\ Rest \in Seq(Numbering) /\ DOMAIN Rest = 1..Len(Rest)
        /\ returned \in Seq(Seq(Numbering)) /\ DOMAIN returned = 1..Len(returned)
    BY RestAt DEF OrderedInv, TypeInv
  <2>2. InOrder(Rest)
    BY <2>1 DEF OrderedInv, OrderInv, InOrder
  <2>3. ASSUME NEW r \in 1..Len(returned)
        PROVE  returned[r] \in Seq(Numbering) /\ InOrder(returned[r])
    <3>1. returned[r] \in Seq(Numbering)
      BY <2>1
    <3>2. DOMAIN returned[r] = 1..Len(returned[r])
      BY <3>1
    <3> QED
      BY <3>1, <3>2 DEF OrderedInv, OrderInv, InOrder
  <2>4. ASSUME NEW r \in 1..Len(returned) PROVE InOrder(returned[r] \o Rest)
    BY <2>1, <2>2, <2>3, InOrderConcat DEF OrderedInv, OrderInv
  <2>5. ASSUME NEW q \in 1..Len(returned), NEW r \in 1..Len(returned), q < r
        PROVE  InOrder(returned[q] \o returned[r])
    BY <2>3, <2>5, InOrderConcat DEF OrderedInv, OrderInv
  <2> QED
    BY <2>1, <2>2, <2>4, <2>5 DEF EachByteOnce, Rest
<1> QED
  BY <1>1, OrderedAlways, PTL

----------------------------------------------------------------------------
(* A message of which every byte is there, and its first byte at the front,*)
(* is at the front as a whole, and the factory takes it as such.           *)

Item(n, k) == [byte |-> sent[n][k], msg |-> n, at |-> k]

AllThere(n) ==
  \A k \in 1..Len(sent[n]) : \E i \in 1..Len(Rest) : Rest[i] = Item(n, k)

Begins(n) ==
  /\ Len(sent[n]) <= Len(Rest)
  /\ \A k \in 1..Len(sent[n]) : Rest[k] = Item(n, k)

LEMMA SentAt ==
  ASSUME TypeInv, NEW n \in 1..Len(sent)
  PROVE  /\ sent[n] \in Messages /\ Len(sent[n]) \in Nat /\ Len(sent[n]) >= 4
         /\ Whole(n) \in Seq(Numbering) /\ Len(Whole(n)) = Len(sent[n])
         /\ \A k \in 1..Len(sent[n]) : Whole(n)[k] = Item(n, k)
<1>1. sent[n] \in Messages /\ n \in Nat
  BY DEF TypeInv
<1> QED
  BY <1>1, SendableMessages, NumberedAt DEF Whole, Item

LEMMA ItemIs == \A n, k : Item(n, k).byte = sent[n][k] /\ Item(n, k).msg = n /\ Item(n, k).at = k
  BY DEF Item

LEMMA HeadIsWhole ==
  ASSUME OrderedInv, NEW n \in 1..Len(sent), AllThere(n), Rest[1] = Item(n, 1)
  PROVE  Begins(n)
<1>1. /\ Len(sent[n]) \in Nat /\ Len(sent[n]) >= 4 /\ n \in Nat
      /\ Len(Rest) \in Nat /\ Rest \in Seq(Numbering)
  BY SentAt, RestAt DEF OrderedInv
<1> DEFINE Good(k) == k <= Len(Rest) /\ Rest[k] = Item(n, k)
           bad == {k \in 1..Len(sent[n]) : ~Good(k)}
<1>2. bad = {}
  <2> SUFFICES ASSUME bad # {} PROVE FALSE
    OBVIOUS
  <2>1. bad \in SUBSET Nat
    BY <1>1
  <2> HIDE DEF bad
  <2>2. PICK k \in bad : \A l \in bad : k <= l
    BY <2>1, LeastNatural
  <2>3. k \in 1..Len(sent[n]) /\ ~Good(k)
    BY <2>2 DEF bad
  <2>4. \A l \in 1..Len(sent[n]) : l < k => Good(l)
    BY <1>1, <2>2, <2>3 DEF bad
  <2>5. PICK i \in 1..Len(Rest) : Rest[i] = Item(n, k)
    BY <2>3 DEF AllThere
  <2>6. k > 1
    <3>1. 1 <= Len(Rest)
      BY <1>1, <2>5
    <3>2. Good(1)
      BY <3>1
    <3> QED
      BY <1>1, <2>3, <3>2
  <2>7. i # k
    BY <1>1, <2>3, <2>5
  <2>8. CASE i < k
    <3>1. i \in 1..Len(sent[n])
      BY <1>1, <2>3, <2>8
    <3>2. Rest[i] = Item(n, i)
      BY <2>4, <2>8, <3>1
    <3> QED
      <4>1. Item(n, i).at = i /\ Item(n, k).at = k
        BY ItemIs
      <4> QED
        BY <2>5, <2>7, <3>2, <4>1
  <2>9. CASE k < i
    <3>1. k \in 1..Len(Rest) /\ k - 1 \in 1..Len(Rest) /\ k - 1 \in 1..Len(sent[n]) /\ k - 1 < k
      BY <1>1, <2>3, <2>6, <2>9
    <3>2. Rest[k - 1] = Item(n, k - 1)
      BY <2>4, <3>1
    <3>3. Before(Rest[k - 1], Rest[k]) /\ Before(Rest[k], Rest[i])
      BY <2>9, <3>1 DEF OrderedInv, OrderInv
    <3>4. Own(Rest[k], sent) /\ Rest[k] \in Numbering
      BY <1>1, <3>1 DEF OrderedInv, OwnInv
    <3>5. Rest[k].msg \in Nat /\ Rest[k].at \in Nat
      BY <3>4 DEF Numbering
    <3>6. /\ n < Rest[k].msg \/ (n = Rest[k].msg /\ k - 1 < Rest[k].at)
          /\ Rest[k].msg < n \/ (Rest[k].msg = n /\ Rest[k].at < k)
      BY <2>5, <3>2, <3>3, ItemIs DEF Before
    <3> QED
      BY <1>1, <2>3, <3>5, <3>6
  <2> QED
    BY <1>1, <2>3, <2>5, <2>7, <2>8, <2>9
<1>3. Good(Len(sent[n]))
  BY <1>1, <1>2
<1> QED
  BY <1>2, <1>3 DEF Begins

\* The first byte of such a message that is at the front is its start codon.
LEMMA FirstComesFirst ==
  ASSUME OrderedInv, NEW n \in 1..Len(sent), AllThere(n),
         NEW i \in 1..Len(Rest), Rest[i].msg = n
  PROVE  \E j \in 1..i : Rest[j] = Item(n, 1)
<1>1. /\ Len(sent[n]) \in Nat /\ Len(sent[n]) >= 4 /\ n \in Nat
      /\ Len(Rest) \in Nat /\ Rest \in Seq(Numbering)
  BY SentAt, RestAt DEF OrderedInv
<1>2. 1 \in 1..Len(sent[n])
  BY <1>1
<1>3. PICK j \in 1..Len(Rest) : Rest[j] = Item(n, 1)
  BY <1>2 DEF AllThere
<1>4. ~(i < j)
  <2> SUFFICES ASSUME i < j PROVE FALSE
    OBVIOUS
  <2>1. Before(Rest[i], Rest[j])
    BY DEF OrderedInv, OrderInv
  <2>2. Own(Rest[i], sent)
    BY DEF OrderedInv, OwnInv
  <2>3. Rest[i].at \in Nat /\ Rest[i].at >= 1
    BY <1>1, <2>2 DEF Own
  <2>4. n < n \/ Rest[i].at < 1
    BY <1>3, <2>1, ItemIs DEF Before
  <2> QED
    BY <1>1, <2>3, <2>4
<1>5. j \in 1..i
  BY <1>1, <1>4
<1> QED
  BY <1>3, <1>5

LEMMA HeadFits ==
  ASSUME OrderedInv, NEW n \in 1..Len(sent), Begins(n), buffer # << >>
  PROVE  /\ ~Misfit
         /\ \A kind \in Kinds : Fits(kind) => FrameLength(kind) = Len(sent[n])
<1>1. /\ Len(sent[n]) \in Nat /\ Len(sent[n]) >= 4 /\ sent[n] \in Messages
      /\ buffer \in Seq(Numbering) /\ Len(buffer) \in Nat /\ Len(buffer) >= 1 /\ TypeInv
  BY SentAt DEF OrderedInv, TypeInv
<1>2. PICK good \in Kinds : Sendable(sent[n], good)
  BY <1>1, SendableMessages
<1>3. ASSUME NEW i \in 1..Len(sent[n]), i <= Len(buffer)
      PROVE  buffer[i].byte = sent[n][i]
  <2>1. i \in 1..Len(buffer)
    BY <1>1, <1>3
  <2>2. Rest[i] = Item(n, i) /\ Rest[i] = buffer[i]
    BY <1>1, <2>1, RestAt DEF Begins
  <2> QED
    BY <2>2, ItemIs
<1>4. Framed
  BY <1>1, <1>2, <1>3 DEF Framed, Sendable
<1>5. Len(buffer) > 1 => buffer[2].byte = good
  BY <1>1, <1>2, <1>3 DEF Sendable
<1>6. Len(buffer) >= 3 => FrameLength(good) = Len(sent[n])
  BY <1>1, <1>2, <1>3 DEF Sendable, FrameLength
<1>7. ASSUME Complete(good) PROVE Valid(good) /\ FrameLength(good) = Len(sent[n])
  <2>1. Len(buffer) >= 3
    BY <1>1, <1>7, FrameLengthIsNat
  <2>2. Len(sent[n]) <= Len(buffer) /\ FrameLength(good) = Len(sent[n])
    BY <1>6, <1>7, <2>1 DEF Complete
  <2>3. buffer[FrameLength(good)].byte = "stop"
    BY <1>1, <1>2, <1>3, <2>2 DEF Sendable
  <2>4. HeaderLength(good) \in 1..Len(sent[n]) /\ HeaderLength(good) <= Len(buffer)
    BY <1>1, <2>2 DEF HeaderLength
  <2>5. good # "all_controls" => buffer[HeaderLength(good)].byte # "bad"
    BY <1>2, <1>3, <2>4 DEF Sendable
  <2> QED
    BY <2>2, <2>3, <2>5 DEF Valid
<1>8. ~Misfit
  BY <1>4, <1>5, <1>7 DEF Misfit
<1>9. ASSUME NEW kind \in Kinds, Fits(kind) PROVE FrameLength(kind) = Len(sent[n])
  <2>1. kind = good
    BY <1>5, <1>9 DEF Fits
  <2> QED
    BY <1>7, <1>9, <2>1 DEF Fits
<1> QED
  BY <1>8, <1>9

----------------------------------------------------------------------------
(* Stripping finds the messages that arrived whole.                        *)

Got(n) ==
  \E r \in 1..Len(returned) :
    \/ returned[r] = Whole(n)
    \/ NumbersIn(returned[r]) # {n} /\ n \in NumbersIn(returned[r])

FoundInv ==
  \A n \in 1..Len(sent) : n \in damaged \/ Got(n) \/ AllThere(n)

\* A message of which no byte is cut stays.
LEMMA StaysThere ==
  ASSUME TypeInv, TypeInv', NEW p \in Nat, NEW q \in Nat, Cut(p, q), sent' = sent,
         NEW n \in 1..Len(sent), AllThere(n),
         \A i \in p + 1..q : Rest[i].msg # n
  PROVE  AllThere(n)'
<1>1. ASSUME NEW k \in 1..Len(sent[n])
      PROVE  \E i \in 1..Len(Rest') : Rest'[i] = Item(n, k)
  <2>1. PICK j \in 1..Len(Rest) : Rest[j] = Item(n, k)
    BY DEF AllThere
  <2>2. j \notin p + 1..q
    BY <2>1, ItemIs
  <2>3. PICK i \in 1..Len(Rest') : Was(p, q, i) = j
    BY <2>2, CutAt
  <2>4. Rest'[i] = Rest[j]
    BY <2>3, CutAt
  <2> QED
    BY <2>1, <2>4
<1> QED
  BY <1>1 DEF AllThere, Item

LEMMA GotStays ==
  ASSUME TypeInv, TypeInv', StepKinds, NEW n \in 1..Len(sent), Got(n)
  PROVE  Got(n)'
<1>1. PICK r \in 1..Len(returned) :
        \/ returned[r] = Whole(n)
        \/ NumbersIn(returned[r]) # {n} /\ n \in NumbersIn(returned[r])
  BY DEF Got
<1>2. sent'[n] = sent[n]
  BY GrowsAt DEF StepKinds, Quiet, Loses, Strips, Takes
<1>3. r \in 1..Len(returned') /\ returned'[r] = returned[r]
  <2>1. CASE returned' = returned
    BY <2>1
  <2>2. ASSUME NEW kind \in Kinds, NEW f \in Nat, Takes(kind, f)
        PROVE  r \in 1..Len(returned') /\ returned'[r] = returned[r]
    BY <2>2, TakesAt
  <2> QED
    BY <2>1, <2>2 DEF StepKinds, Quiet, Grows, Loses, Strips
<1>4. Whole(n)' = Whole(n)
  BY <1>2 DEF Whole
<1> QED
  BY <1>1, <1>3, <1>4 DEF Got

LEMMA FoundStep ==
  OrderedInv /\ OrderedInv' /\ StepKinds /\ FoundInv => FoundInv'
<1> SUFFICES ASSUME OrderedInv, OrderedInv', StepKinds, FoundInv PROVE FoundInv'
  OBVIOUS
<1>0. TypeInv /\ TypeInv'
  BY DEF OrderedInv
<1>1. CASE Quiet
  <2>1. Rest' = Rest /\ sent' = sent /\ returned' = returned /\ damaged' = damaged
    BY <1>1 DEF Quiet
  <2>2. ASSUME NEW n \in 1..Len(sent) PROVE (Got(n) => Got(n)') /\ (AllThere(n) => AllThere(n)')
    BY <2>1 DEF Got, AllThere, Whole, Item
  <2> QED
    BY <2>1, <2>2 DEF FoundInv
<1>2. ASSUME NEW s \in Messages, Grows(s) PROVE FoundInv'
  <2>1. ASSUME NEW n \in 1..Len(sent'), ~(n \in damaged'), ~Got(n)' PROVE AllThere(n)'
    <3>1. CASE n \in 1..Len(sent)
      <4>1. sent'[n] = sent[n]
        BY <1>0, <1>2, <3>1, GrowsAt
      <4>2. n \notin damaged /\ ~Got(n)
        BY <1>0, <2>1, <3>1, GotStays, <1>2 DEF Grows
      <4>3. AllThere(n)
        BY <3>1, <4>2 DEF FoundInv
      <4>4. ASSUME NEW k \in 1..Len(sent[n])
            PROVE  \E i \in 1..Len(Rest') : Rest'[i] = [byte |-> sent[n][k], msg |-> n, at |-> k]
        <5>1. PICK i \in 1..Len(Rest) : Rest[i] = Item(n, k)
          BY <4>3 DEF AllThere
        <5>2. i \in 1..Len(Rest') /\ Rest'[i] = Rest[i]
          BY <1>0, <1>2, GrowsAt
        <5> QED
          BY <5>1, <5>2 DEF Item
      <4> QED
        BY <4>1, <4>4 DEF AllThere, Item
    <3>2. CASE n = Len(sent) + 1
      <4>1. sent'[n] = s
        BY <1>0, <1>2, <3>2, GrowsAt
      <4>2. ASSUME NEW k \in 1..Len(s)
            PROVE  \E i \in 1..Len(Rest') : Rest'[i] = [byte |-> s[k], msg |-> n, at |-> k]
        <5>1. Len(Rest) + k \in 1..Len(Rest')
          BY <1>0, <1>2, GrowsAt
        <5> QED
          BY <1>0, <1>2, <3>2, <5>1, GrowsAt
      <4> QED
        BY <4>1, <4>2 DEF AllThere, Item
    <3>3. n \in 1..Len(sent) \/ n = Len(sent) + 1
      BY <1>0, <1>2, GrowsAt
    <3> QED
      BY <3>1, <3>2, <3>3
  <2> QED
    BY <2>1 DEF FoundInv
<1>3. ASSUME NEW p \in Nat, NEW q \in Nat, Loses(p, q) PROVE FoundInv'
  <2>1. sent' = sent /\ Cut(p, q)
    BY <1>3 DEF Loses
  <2>2. ASSUME NEW n \in 1..Len(sent), ~(n \in damaged'), ~Got(n)' PROVE AllThere(n)'
    <3>1. n \notin damaged /\ \A i \in p + 1..q : Rest[i].msg # n
      BY <1>3, <2>2 DEF Loses
    <3>2. ~Got(n)
      BY <1>0, <2>2, GotStays
    <3>3. AllThere(n)
      BY <3>1, <3>2 DEF FoundInv
    <3> QED
      BY <1>0, <2>1, <3>1, <3>3, StaysThere
  <2> QED
    BY <2>1, <2>2 DEF FoundInv
<1>4. ASSUME NEW k \in Nat, Strips(k) PROVE FoundInv'
  <2>1. /\ sent' = sent /\ damaged' = damaged /\ Cut(0, k) /\ 0 \in Nat
        /\ Misfit /\ k \in 1..Len(buffer) /\ \A i \in 2..k : Rest[i].byte # "start"
    BY <1>4 DEF Strips
  <2>2. ASSUME NEW n \in 1..Len(sent), ~(n \in damaged'), ~Got(n)' PROVE AllThere(n)'
    <3>1. ~Got(n)
      BY <1>0, <2>2, GotStays
    <3>2. AllThere(n)
      BY <2>1, <2>2, <3>1 DEF FoundInv
    <3>3. ASSUME NEW i \in 0 + 1..k, Rest[i].msg = n PROVE FALSE
      <4>1. i \in 1..Len(Rest) /\ i \in Nat
        BY <1>0, <2>1, CutAt
      <4>2. PICK j \in 1..i : Rest[j] = Item(n, 1)
        BY <3>2, <3>3, <4>1, FirstComesFirst
      <4>3. Rest[j].byte = "start"
        BY <1>0, <4>2, ItemIs, SentAt, SendableMessages DEF Sendable
      <4>4. j \in 1..k
        BY <4>1
      <4>5. j = 1
        BY <2>1, <4>3, <4>4
      <4>6. Begins(n)
        BY <3>2, <4>2, <4>5, HeadIsWhole
      <4> QED
        BY <2>1, <4>6, HeadFits DEF Misfit
    <3> QED
      BY <1>0, <2>1, <3>2, <3>3, StaysThere
  <2> QED
    BY <2>1, <2>2 DEF FoundInv
<1>5. ASSUME NEW kind \in Kinds, NEW f \in Nat, Takes(kind, f) PROVE FoundInv'
  <2>1. sent' = sent /\ damaged' = damaged /\ Cut(0, f) /\ 0 \in Nat /\ Fits(kind) /\ f = FrameLength(kind)
    BY <1>5 DEF Takes
  <2>2. ASSUME NEW n \in 1..Len(sent), ~(n \in damaged'), ~Got(n)' PROVE AllThere(n)'
    <3>1. ~Got(n)
      BY <1>0, <2>2, GotStays
    <3>2. AllThere(n)
      BY <2>1, <2>2, <3>1 DEF FoundInv
    <3> DEFINE new == Len(returned) + 1
               frame == returned'[new]
    <3>3. /\ new \in 1..Len(returned') /\ Len(frame) = f /\ f \in 1..Len(Rest)
          /\ \A i \in 1..f : frame[i] = Rest[i]
      BY <1>0, <1>5, TakesAt
    <3>4. frame \in Seq(Numbering)
      BY <1>0, <3>3 DEF TypeInv
    <3> HIDE DEF new, frame
    <3>5. DOMAIN frame = 1..f
      BY <3>3, <3>4
    <3>6. NumbersIn(frame) = {Rest[i].msg : i \in 1..f}
      BY <3>3, <3>5 DEF NumbersIn
    <3>7. Whole(n)' = Whole(n)
      BY <2>1 DEF Whole
    <3>8. ~(frame = Whole(n)) /\ (n \in NumbersIn(frame) => NumbersIn(frame) = {n})
      BY <2>2, <3>3, <3>7 DEF Got, frame
    <3>9. ASSUME NEW i \in 0 + 1..f, Rest[i].msg = n PROVE FALSE
      <4>1. i \in 1..f /\ i \in 1..Len(Rest) /\ 1 \in 1..f /\ 1 \in 1..Len(Rest)
        BY <1>0, <3>3, RestAt
      <4>2. \A l \in 1..f : Rest[l].msg = n
        BY <3>6, <3>8, <3>9, <4>1
      <4>3. PICK j \in 1..1 : Rest[j] = Item(n, 1)
        BY <3>2, <4>1, <4>2, FirstComesFirst
      <4>4. Begins(n)
        BY <3>2, <4>3, HeadIsWhole
      <4>5. f = Len(sent[n])
        BY <2>1, <4>4, HeadFits DEF Fits, Framed
      <4>6. /\ Whole(n) \in Seq(Numbering) /\ Len(Whole(n)) = f
            /\ \A l \in 1..f : Whole(n)[l] = Rest[l]
        BY <1>0, <4>4, <4>5, SentAt DEF Begins
      <4>7. frame = Whole(n)
        BY <3>3, <3>4, <4>6, SameSeq
      <4> QED
        BY <3>8, <4>7
    <3> QED
      BY <1>0, <2>1, <3>2, <3>9, StaysThere
  <2> QED
    BY <2>1, <2>2 DEF FoundInv
<1> QED
  BY <1>1, <1>2, <1>3, <1>4, <1>5 DEF StepKinds

LEMMA FoundAlways == Spec => []FoundInv
<1>1. Init => FoundInv
  BY DEF Init, FoundInv
<1>2. OrderedInv /\ OrderedInv' /\ FoundInv /\ [Next]_vars => FoundInv'
  BY FoundStep, StepCases DEF OrderedInv
<1> QED
  BY <1>1, <1>2, OrderedAlways, PTL DEF Spec

\* A message that arrives whole is returned, or swallowed by another one, or
\* still in the buffer, whatever is lost around it (strip_partial_message).
THEOREM IntactSurvives == Spec => []IntactIsFound
<1>1. OrderedInv /\ FoundInv => IntactIsFound
  <2> SUFFICES ASSUME OrderedInv, FoundInv PROVE IntactIsFound
    OBVIOUS
  <2>1. TypeInv
    BY DEF OrderedInv
  <2>2. DOMAIN sent = 1..Len(sent) /\ DOMAIN returned = 1..Len(returned)
    BY <2>1 DEF TypeInv
  <2>3. ASSUME NEW n \in 1..Len(sent), AllThere(n)
        PROVE  ToSet(Whole(n)) \subseteq ToSet(buffer \o wire)
    <3>1. DOMAIN Whole(n) = 1..Len(sent[n]) /\ DOMAIN Rest = 1..Len(Rest)
      BY <2>1, SentAt, RestAt
    <3>2. \A k \in 1..Len(sent[n]) : \E i \in DOMAIN Rest : Rest[i] = Whole(n)[k]
      BY <2>1, <2>3, <3>1, SentAt DEF AllThere
    <3> QED
      BY <3>1, <3>2 DEF ToSet, Rest
  <2> QED
    BY <2>2, <2>3 DEF IntactIsFound, FoundInv, Got
<1> QED
  BY <1>1, OrderedAlways, FoundAlways, PTL

----------------------------------------------------------------------------
(* An undamaged stream is read as it was sent.                             *)

CleanInv ==
  damaged = {} =>
    /\ Len(returned) <= Len(sent)
    /\ \A r \in 1..Len(returned) : returned[r] = Whole(r)
    /\ \A i \in 1..Len(Rest) : Rest[i].msg > Len(returned)
    /\ \A n \in 1..Len(sent) : n > Len(returned) => AllThere(n)

\* What is left of an undamaged stream starts with the next message.
LEMMA CleanHead ==
  ASSUME OrderedInv, CleanInv, damaged = {}, buffer # << >>
  PROVE  Len(returned) + 1 \in 1..Len(sent) /\ Begins(Len(returned) + 1)
<1> DEFINE c == Len(returned) + 1
<1>1. /\ TypeInv /\ Len(Rest) \in Nat /\ Len(returned) \in Nat /\ Len(sent) \in Nat
      /\ 1 \in 1..Len(Rest) /\ Rest[1] \in Numbering
  <2>1. TypeInv /\ Rest \in Seq(Numbering) /\ Len(Rest) = Len(buffer) + Len(wire)
    BY RestAt DEF OrderedInv
  <2>2. Len(buffer) \in Nat /\ Len(buffer) >= 1 /\ Len(wire) \in Nat
    BY <2>1 DEF TypeInv
  <2>3. Len(returned) \in Nat /\ Len(sent) \in Nat
    BY <2>1 DEF TypeInv
  <2>4. 1 \in 1..Len(Rest)
    BY <2>1, <2>2
  <2> QED
    BY <2>1, <2>3, <2>4
<1>2. Own(Rest[1], sent) /\ Rest[1].msg > Len(returned) /\ Rest[1].msg \in Nat
  BY <1>1 DEF OrderedInv, OwnInv, CleanInv, Numbering
<1>3. c \in 1..Len(sent) /\ c > Len(returned) /\ c <= Rest[1].msg
  BY <1>1, <1>2 DEF Own
<1> HIDE DEF c
<1>4. AllThere(c)
  BY <1>3 DEF CleanInv
<1>5. 1 \in 1..Len(sent[c])
  BY <1>1, <1>3, SentAt
<1>6. PICK i \in 1..Len(Rest) : Rest[i] = Item(c, 1)
  BY <1>4, <1>5 DEF AllThere
<1>7. i = 1
  <2> SUFFICES ASSUME i # 1 PROVE FALSE
    OBVIOUS
  <2>1. 1 < i
    BY <1>1
  <2>2. Before(Rest[1], Rest[i])
    BY <1>1, <2>1 DEF OrderedInv, OrderInv
  <2>3. Rest[1].at >= 1 /\ Rest[1].at \in Nat
    BY <1>1, <1>2, SentAt DEF Own
  <2>4. Rest[1].msg < c \/ (Rest[1].msg = c /\ Rest[1].at < 1)
    BY <1>6, <2>2, ItemIs DEF Before
  <2> QED
    BY <1>2, <1>3, <2>3, <2>4
<1>8. Begins(c)
  BY <1>3, <1>4, <1>6, <1>7, HeadIsWhole
<1> QED
  BY <1>3, <1>8 DEF c

LEMMA CleanStep ==
  OrderedInv /\ OrderedInv' /\ StepKinds /\ CleanInv => CleanInv'
<1> SUFFICES ASSUME OrderedInv, OrderedInv', StepKinds, CleanInv, damaged' = {}
             PROVE  /\ Len(returned') <= Len(sent')
                    /\ \A r \in 1..Len(returned') : returned'[r] = Whole(r)'
                    /\ \A i \in 1..Len(Rest') : Rest'[i].msg > Len(returned')
                    /\ \A n \in 1..Len(sent') : n > Len(returned') => AllThere(n)'
  BY DEF CleanInv
<1> DEFINE Goal == /\ Len(returned') <= Len(sent')
                   /\ \A r \in 1..Len(returned') : returned'[r] = Whole(r)'
                   /\ \A i \in 1..Len(Rest') : Rest'[i].msg > Len(returned')
                   /\ \A n \in 1..Len(sent') : n > Len(returned') => AllThere(n)'
<1>0. TypeInv /\ TypeInv' /\ Len(returned) \in Nat /\ Len(sent) \in Nat
  BY DEF OrderedInv, TypeInv
<1>1. damaged = {}
  BY DEF StepKinds, Quiet, Grows, Loses, Strips, Takes
<1>2. /\ Len(returned) <= Len(sent)
      /\ \A r \in 1..Len(returned) : returned[r] = Whole(r)
      /\ \A i \in 1..Len(Rest) : Rest[i].msg > Len(returned)
      /\ \A n \in 1..Len(sent) : n > Len(returned) => AllThere(n)
  BY <1>1 DEF CleanInv
<1>3. ASSUME Rest' = Rest, sent' = sent, returned' = returned PROVE Goal
  <2>1. \A r \in 1..Len(sent) : Whole(r)' = Whole(r) /\ (AllThere(r) => AllThere(r)')
    BY <1>3 DEF Whole, AllThere, Item
  <2>2. \A r \in 1..Len(returned) : r \in 1..Len(sent)
    BY <1>0, <1>2
  <2> QED
    BY <1>2, <1>3, <2>1, <2>2
<1>4. ASSUME NEW s \in Messages, Grows(s) PROVE Goal
  <2>1. returned' = returned /\ Len(sent') = Len(sent) + 1
    BY <1>0, <1>4, GrowsAt DEF Grows
  <2>2. ASSUME NEW r \in 1..Len(returned) PROVE returned'[r] = Whole(r)'
    <3>1. r \in 1..Len(sent)
      BY <1>0, <1>2
    <3>2. Whole(r)' = Whole(r)
      BY <1>0, <1>4, <3>1, GrowsAt DEF Whole
    <3> QED
      BY <1>2, <2>1, <3>2
  <2>3. ASSUME NEW i \in 1..Len(Rest') PROVE Rest'[i].msg > Len(returned)
    <3>1. CASE i <= Len(Rest)
      <4>1. i \in 1..Len(Rest) /\ Rest'[i] = Rest[i]
        BY <1>0, <1>4, <3>1, GrowsAt
      <4> QED
        BY <1>2, <4>1
    <3>2. CASE i > Len(Rest)
      <4> DEFINE k == i - Len(Rest)
      <4>1. k \in 1..Len(s) /\ Len(Rest) + k = i
        BY <1>0, <1>4, <3>2, GrowsAt
      <4>2. Rest'[i] = [byte |-> s[k], msg |-> Len(sent) + 1, at |-> k]
        BY <1>0, <1>4, <4>1, GrowsAt
      <4>3. Rest'[i].msg = Len(sent) + 1
        BY <4>2
      <4> QED
        BY <1>0, <1>2, <4>3
    <3>3. i \in Nat /\ Len(Rest) \in Nat
      BY <1>0, <1>4, GrowsAt
    <3> QED
      BY <3>1, <3>2, <3>3
  <2>4. ASSUME NEW n \in 1..Len(sent'), n > Len(returned) PROVE AllThere(n)'
    <3>1. CASE n \in 1..Len(sent)
      <4>1. sent'[n] = sent[n] /\ AllThere(n)
        BY <1>0, <1>2, <1>4, <2>4, <3>1, GrowsAt
      <4>2. ASSUME NEW k \in 1..Len(sent[n])
            PROVE  \E i \in 1..Len(Rest') : Rest'[i] = Item(n, k)
        <5>1. PICK i \in 1..Len(Rest) : Rest[i] = Item(n, k)
          BY <4>1 DEF AllThere
        <5>2. i \in 1..Len(Rest') /\ Rest'[i] = Rest[i]
          BY <1>0, <1>4, GrowsAt
        <5> QED
          BY <5>1, <5>2
      <4> QED
        BY <4>1, <4>2 DEF AllThere, Item
    <3>2. CASE n = Len(sent) + 1
      <4>1. sent'[n] = s
        BY <1>0, <1>4, <3>2, GrowsAt
      <4>2. ASSUME NEW k \in 1..Len(s)
            PROVE  \E i \in 1..Len(Rest') : Rest'[i] = [byte |-> s[k], msg |-> n, at |-> k]
        <5>1. Len(Rest) + k \in 1..Len(Rest')
          BY <1>0, <1>4, GrowsAt
        <5> QED
          BY <1>0, <1>4, <3>2, <5>1, GrowsAt
      <4> QED
        BY <4>1, <4>2 DEF AllThere, Item
    <3> QED
      BY <1>0, <2>1, <3>1, <3>2
  <2> QED
    BY <1>0, <1>2, <2>1, <2>2, <2>3, <2>4
<1>5. ASSUME NEW p \in Nat, NEW q \in Nat, Loses(p, q) PROVE Goal
  <2>1. Cut(p, q) /\ UNCHANGED <<sent, returned>>
    BY <1>5 DEF Loses
  <2>2. p = q
    <3> SUFFICES ASSUME p < q PROVE FALSE
      BY <1>0, <2>1, CutAt
    <3>1. p + 1 \in p + 1..q
      OBVIOUS
    <3>2. Rest[p + 1].msg \in damaged'
      BY <1>5, <3>1 DEF Loses
    <3> QED
      BY <3>2
  <2>3. /\ Rest \in Seq(Numbering) /\ Rest' \in Seq(Numbering) /\ Len(Rest') = Len(Rest)
        /\ \A i \in 1..Len(Rest') : Rest'[i] = Rest[i]
    <3>1. Rest \in Seq(Numbering) /\ Rest' \in Seq(Numbering)
      BY <1>0, RestAt DEF TypeInv, Rest
    <3>2. /\ Len(Rest) \in Nat /\ Len(Rest') \in Nat /\ Len(Rest') = Len(Rest) - (q - p)
          /\ \A i \in 1..Len(Rest') : Rest'[i] = Rest[Was(p, q, i)]
      BY <1>0, <2>1, CutAt
    <3>3. Len(Rest') = Len(Rest) /\ \A i \in 1..Len(Rest') : Was(p, q, i) = i
      BY <2>2, <3>2 DEF Was
    <3> QED
      BY <3>1, <3>2, <3>3
  <2>4. Rest' = Rest
    BY <2>3, SameSeq
  <2> QED
    BY <1>3, <2>1, <2>4
<1>6. ASSUME NEW k \in Nat, Strips(k) PROVE FALSE
  <2>1. Misfit /\ buffer # << >>
    BY <1>6 DEF Strips, Misfit
  <2> QED
    BY <1>1, <2>1, CleanHead, HeadFits
<1>7. ASSUME NEW kind \in Kinds, NEW f \in Nat, Takes(kind, f) PROVE Goal
  <2> DEFINE c == Len(returned) + 1
  <2>1. buffer # << >> /\ Fits(kind) /\ f = FrameLength(kind) /\ sent' = sent /\ Cut(0, f)
    BY <1>7 DEF Takes, Fits, Framed
  <2>2. c \in 1..Len(sent) /\ Begins(c)
    BY <1>1, <2>1, CleanHead
  <2>3. f = Len(sent[c])
    BY <2>1, <2>2, HeadFits
  <2>4. /\ Len(returned') = c /\ \A r \in 1..Len(returned) : returned'[r] = returned[r]
        /\ Len(returned'[c]) = f /\ \A i \in 1..f : returned'[c][i] = Rest[i]
        /\ f \in 1..Len(Rest) /\ Len(Rest) \in Nat /\ Len(Rest') = Len(Rest) - f
        /\ \A i \in 1..(Len(Rest) - f) : Rest'[i] = Rest[i + f]
    BY <1>0, <1>7, TakesAt
  <2>5. c \in 1..c /\ c \in Nat /\ c > Len(returned)
    BY <1>0
  <2>6. \A r \in 1..c : r \in 1..Len(returned) \/ r = c
    BY <1>0
  <2> HIDE DEF c
  <2>7. \A r \in 1..Len(sent) : Whole(r)' = Whole(r)
    BY <2>1 DEF Whole
  <2>8. returned'[c] = Whole(c)
    <3>1. returned'[c] \in Seq(Numbering)
      BY <1>0, <2>4, <2>5 DEF TypeInv
    <3>2. /\ Whole(c) \in Seq(Numbering) /\ Len(Whole(c)) = f
          /\ \A i \in 1..f : Whole(c)[i] = Rest[i]
      BY <1>0, <2>2, <2>3, SentAt DEF Begins
    <3>3. /\ Len(returned'[c]) = Len(Whole(c))
          /\ \A i \in 1..Len(returned'[c]) : returned'[c][i] = Whole(c)[i]
      BY <2>4, <3>2
    <3> QED
      BY <3>1, <3>2, <3>3, SameSeq
  <2>9. ASSUME NEW r \in 1..Len(returned') PROVE returned'[r] = Whole(r)'
    <3>1. CASE r \in 1..Len(returned)
      BY <1>0, <1>2, <2>4, <2>7, <3>1
    <3>2. CASE r = c
      BY <2>2, <2>7, <2>8, <3>2
    <3> QED
      BY <2>4, <2>6, <3>1, <3>2
  <2>10. ASSUME NEW i \in 1..Len(Rest') PROVE Rest'[i].msg > c
    <3>1. /\ i + f \in 1..Len(Rest) /\ f < i + f /\ Rest'[i] = Rest[i + f]
      BY <2>4
    <3>2. Before(Rest[f], Rest[i + f])
      BY <2>4, <3>1 DEF OrderedInv, OrderInv
    <3>3. Rest[f] = Item(c, f)
      BY <2>2, <2>3, <2>4 DEF Begins
    <3>4. Own(Rest[i + f], sent) /\ Rest[i + f].msg \in Nat
      BY <3>1 DEF OrderedInv, OwnInv, Own
    <3>5. c < Rest[i + f].msg \/ (c = Rest[i + f].msg /\ f < Rest[i + f].at)
      BY <3>2, <3>3, ItemIs DEF Before
    <3>6. c = Rest[i + f].msg => Rest[i + f].at \in 1..f
      BY <2>3, <3>4 DEF Own
    <3> QED
      BY <2>4, <2>5, <3>1, <3>4, <3>5, <3>6
  <2>11. ASSUME NEW n \in 1..Len(sent), n > c PROVE AllThere(n)'
    <3>1. AllThere(n)
      BY <1>0, <1>2, <2>5, <2>11 DEF c
    <3>2. ASSUME NEW i \in 0 + 1..f PROVE Rest[i].msg # n
      <4>1. Rest[i].msg = c
        BY <2>2, <2>3, ItemIs DEF Begins
      <4> QED
        BY <2>5, <2>11, <4>1
    <3> QED
      BY <1>0, <2>1, <3>1, <3>2, StaysThere
  <2> QED
    BY <2>1, <2>2, <2>4, <2>9, <2>10, <2>11
<1> QED
  BY <1>3, <1>4, <1>5, <1>6, <1>7 DEF StepKinds, Quiet

LEMMA CleanAlways == Spec => []CleanInv
<1>1. Init => CleanInv
  BY DEF Init, CleanInv, Rest
<1>2. OrderedInv /\ OrderedInv' /\ CleanInv /\ [Next]_vars => CleanInv'
  BY CleanStep, StepCases DEF OrderedInv
<1> QED
  BY <1>1, <1>2, OrderedAlways, PTL DEF Spec

\* Wherever the reads cut an undamaged stream, every message comes out whole,
\* in order and once (HisparcMessageFactory waits for the rest of a message).
THEOREM CleanIsRead == Spec => []CleanStreamIsRead
<1>1. OrderedInv /\ CleanInv => CleanStreamIsRead
  <2> SUFFICES ASSUME OrderedInv, CleanInv, damaged = {}
               PROVE  /\ \A i \in DOMAIN returned : i <= Len(sent) /\ returned[i] = Whole(i)
                      /\ ToSet(Rest) =
                           UNION {ToSet(Whole(n)) : n \in Len(returned) + 1..Len(sent)}
    BY DEF CleanStreamIsRead, Rest
  <2>1. /\ TypeInv /\ Len(returned) \in Nat /\ Len(sent) \in Nat
        /\ DOMAIN returned = 1..Len(returned)
    BY DEF OrderedInv, TypeInv
  <2>2. ASSUME NEW i \in DOMAIN returned PROVE i <= Len(sent) /\ returned[i] = Whole(i)
    BY <2>1 DEF CleanInv
  <2>3. DOMAIN Rest = 1..Len(Rest) /\ Rest \in Seq(Numbering)
    BY <2>1, RestAt
  <2>4. ASSUME NEW n \in Len(returned) + 1..Len(sent)
        PROVE  ToSet(Whole(n)) \subseteq ToSet(Rest)
    <3>1. n \in 1..Len(sent) /\ AllThere(n)
      BY <2>1 DEF CleanInv
    <3>2. DOMAIN Whole(n) = 1..Len(sent[n])
      BY <2>1, <3>1, SentAt
    <3>3. \A k \in 1..Len(sent[n]) : \E i \in DOMAIN Rest : Rest[i] = Whole(n)[k]
      BY <2>1, <2>3, <3>1, SentAt DEF AllThere
    <3> QED
      BY <3>2, <3>3 DEF ToSet
  <2>5. ASSUME NEW i \in DOMAIN Rest
        PROVE  \E n \in Len(returned) + 1..Len(sent) : Rest[i] \in ToSet(Whole(n))
    <3> DEFINE n == Rest[i].msg
               k == Rest[i].at
    <3>1. Own(Rest[i], sent) /\ n > Len(returned) /\ Rest[i] \in Numbering
      BY <2>3 DEF OrderedInv, OwnInv, CleanInv
    <3>2. n \in 1..Len(sent) /\ k \in 1..Len(sent[n]) /\ Rest[i].byte = sent[n][k]
      BY <3>1 DEF Own
    <3>3. Rest[i] = Item(n, k)
      BY <3>1, <3>2 DEF Item, Numbering
    <3> HIDE DEF n, k
    <3>4. k \in DOMAIN Whole(n) /\ Whole(n)[k] = Item(n, k)
      BY <2>1, <3>2, SentAt
    <3>5. n \in Len(returned) + 1..Len(sent)
      BY <2>1, <3>1, <3>2
    <3> QED
      BY <3>3, <3>4, <3>5 DEF ToSet
  <2>6. ToSet(Rest) \subseteq UNION {ToSet(Whole(n)) : n \in Len(returned) + 1..Len(sent)}
    BY <2>5 DEF ToSet
  <2> QED
    BY <2>2, <2>4, <2>6
<1> QED
  BY <1>1, OrderedAlways, CleanAlways, PTL

----------------------------------------------------------------------------

DamagedInv == damaged \subseteq 1..Len(sent)

\* Type correctness: the buffers hold bytes of messages that were sent, and the
\* histories speak of such messages only.
THEOREM TypesKept == Spec => []TypeOK
<1>1. Init => DamagedInv
  BY DEF Init, DamagedInv
<1>2. OrderedInv /\ DamagedInv /\ [Next]_vars => DamagedInv'
  <2> SUFFICES ASSUME OrderedInv, DamagedInv, [Next]_vars PROVE DamagedInv'
    OBVIOUS
  <2>1. StepKinds /\ TypeInv
    BY StepCases DEF OrderedInv
  <2>2. ASSUME NEW s \in Messages, Grows(s) PROVE DamagedInv'
    <3>1. Len(sent') = Len(sent) + 1 /\ Len(sent) \in Nat /\ damaged' = damaged
      BY <2>1, <2>2, GrowsAt DEF Grows
    <3> QED
      BY <3>1 DEF DamagedInv
  <2>3. ASSUME NEW p \in Nat, NEW q \in Nat, Loses(p, q) PROVE DamagedInv'
    <3>1. q <= Len(Rest) /\ Len(Rest) \in Nat /\ sent' = sent
      BY <2>1, <2>3, RestAt DEF Loses, Cut, IsCut
    <3>2. ASSUME NEW i \in p + 1..q PROVE Rest[i].msg \in 1..Len(sent)
      <4>1. i \in 1..Len(Rest)
        BY <3>1
      <4> QED
        BY <4>1 DEF OrderedInv, OwnInv, Own
    <3> QED
      BY <2>3, <3>1, <3>2 DEF Loses, DamagedInv
  <2> QED
    BY <2>1, <2>2, <2>3 DEF StepKinds, Quiet, Strips, Takes, DamagedInv
<1>3. OrderedInv /\ DamagedInv => TypeOK
  <2> SUFFICES ASSUME OrderedInv, DamagedInv PROVE TypeOK
    OBVIOUS
  <2>1. TypeInv
    BY DEF OrderedInv
  <2>2. ASSUME NEW b \in Numbering, Own(b, sent) PROVE b \in NumberedBytes
    BY <2>2 DEF Own, Numbering, NumberedBytes
  <2>3. ASSUME NEW s \in Seq(Numbering), \A i \in 1..Len(s) : Own(s[i], sent)
        PROVE  s \in Seq(NumberedBytes)
    <3>1. \A i \in 1..Len(s) : s[i] \in NumberedBytes
      BY <2>2, <2>3
    <3> QED
      BY <3>1
  <2>4. \A i \in 1..Len(buffer) : Own(buffer[i], sent)
    <3>1. \A i \in 1..Len(buffer) : i \in 1..Len(Rest) /\ Rest[i] = buffer[i]
      BY <2>1, RestAt
    <3> QED
      BY <3>1 DEF OrderedInv, OwnInv
  <2>5. \A i \in 1..Len(wire) : Own(wire[i], sent)
    <3>1. \A i \in 1..Len(wire) : /\ Len(buffer) + i \in 1..Len(Rest)
                                  /\ Rest[Len(buffer) + i] = wire[i]
      BY <2>1, RestAt
    <3> QED
      BY <3>1 DEF OrderedInv, OwnInv
  <2>6. buffer \in Seq(NumberedBytes) /\ wire \in Seq(NumberedBytes)
    BY <2>1, <2>3, <2>4, <2>5 DEF TypeInv
  <2>7. ASSUME NEW r \in DOMAIN returned PROVE returned[r] \in Seq(NumberedBytes)
    <3>1. r \in 1..Len(returned) /\ returned[r] \in Seq(Numbering)
      BY <2>1 DEF TypeInv
    <3> QED
      BY <2>3, <3>1 DEF OrderedInv, OwnInv
  <2> QED
    BY <2>1, <2>6, <2>7 DEF TypeInv, TypeOK, DamagedInv
<1> QED
  BY <1>1, <1>2, <1>3, OrderedAlways, PTL DEF Spec

----------------------------------------------------------------------------
(* A call of the factory.                                                  *)

\* What remains to be looked at becomes less with each turn of the factory,
\* unless the turn is the last of its call.
TurnsShorten == [][Factory => pc' # "parse" \/ Len(buffer') < Len(buffer)]_vars

LEMMA FactoryShortens ==
  ASSUME TypeInv, Factory
  PROVE  pc' # "parse" \/ Len(buffer') < Len(buffer)
<1>1. buffer \in Seq(Numbering) /\ Len(buffer) \in Nat
  BY DEF TypeInv
<1>2. ASSUME NEW k \in 1..Len(buffer), buffer' = SubSeq(buffer, k + 1, Len(buffer))
      PROVE  Len(buffer') < Len(buffer)
  <2>1. k \in 0..Len(buffer)
    BY <1>1
  <2>2. Len(buffer') = Len(buffer) - k
    BY <1>1, <1>2, <2>1, DropAt
  <2> QED
    BY <1>1, <2>2
<1>3. CASE FindNothing \/ OnlyStart \/ Initialize \/ Reset
  BY <1>3 DEF FindNothing, OnlyStart, Initialize, Reset, Return
<1>4. CASE \E kind \in Kinds : Wait(kind) \/ Extract(kind)
  BY <1>4 DEF Wait, Extract, Return
<1>5. CASE FindStart
  <2>1. Misfit /\ ~Framed /\ buffer' = FromStart(buffer)
    BY <1>5 DEF FindStart, Misfit
  <2> QED
    BY <1>2, <2>1, CutsOff
<1>6. CASE \/ \E kind \in Kinds : Corrupt(kind)
           \/ \E id \in Bytes \ (Kinds \cup {"spare_bytes", "reset"}) : Unknown(id)
  <2>1. Misfit /\ buffer' = FromStart(Tail(buffer))
    BY <1>6 DEF Corrupt, Unknown, StripPartial, Identified, Framed, Misfit
  <2> QED
    BY <1>2, <2>1, CutsOff
<1> QED
  BY <1>3, <1>4, <1>5, <1>6 DEF Factory

\* A call goes through the factory at most once for each byte of the buffer,
\* and once more: each turn that is followed by another has taken a byte off
\* the front (messages.py:456-505).
THEOREM CallsGetShorter == Spec => TurnsShorten
<1>1. TypeInv /\ [Next]_vars => [Factory => pc' # "parse" \/ Len(buffer') < Len(buffer)]_vars
  BY FactoryShortens
<1>2. Spec => []TypeInv
  BY TypeInit, StepCases, PTL DEF Spec
<1> QED
  BY <1>1, <1>2, PTL DEF Spec, TurnsShorten

=============================================================================
