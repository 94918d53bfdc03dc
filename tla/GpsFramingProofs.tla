-------------------------- MODULE GpsFramingProofs --------------------------
(***************************************************************************)
(* How reports get out of the stream, for any reports with any bytes in    *)
(* them, reads, flushes and overruns of any length: an undamaged stream is *)
(* read as it was sent, and a damaged one is back in step at the next but  *)
(* one report.                                                             *)
(***************************************************************************)
EXTENDS GpsFraming, WellFoundedInduction, TLAPS

----------------------------------------------------------------------------
(* Numbers and sequences.                                                  *)

LEMMA LeastNatural ==
  ASSUME NEW S \in SUBSET Nat, S # {}
  PROVE  \E m \in S : \A n \in S : m <= n
<1>1. PICK m \in S : \A n \in S : ~(<<n, m>> \in OpToRel(<, Nat))
  BY NatLessThanWellFounded, WFMin
<1>2. \A n \in S : ~(n < m)
  BY <1>1 DEF OpToRel
<1> QED
  BY <1>2

LEMMA DropAt ==
  ASSUME NEW S, NEW s \in Seq(S), NEW k \in 0..Len(s)
  PROVE  /\ SubSeq(s, k + 1, Len(s)) \in Seq(S)
         /\ Len(SubSeq(s, k + 1, Len(s))) = Len(s) - k
         /\ \A i \in 1..(Len(s) - k) : SubSeq(s, k + 1, Len(s))[i] = s[i + k]
  OBVIOUS

LEMMA TakeAt ==
  ASSUME NEW S, NEW s \in Seq(S), NEW k \in 0..Len(s)
  PROVE  /\ SubSeq(s, 1, k) \in Seq(S) /\ Len(SubSeq(s, 1, k)) = k
         /\ \A i \in 1..k : SubSeq(s, 1, k)[i] = s[i]
  OBVIOUS

LEMMA ConcatAt ==
  ASSUME NEW S, NEW s \in Seq(S), NEW t \in Seq(S)
  PROVE  /\ s \o t \in Seq(S) /\ Len(s \o t) = Len(s) + Len(t)
         /\ \A i \in 1..Len(s) : (s \o t)[i] = s[i]
         /\ \A i \in 1..Len(t) : (s \o t)[Len(s) + i] = t[i]
  OBVIOUS

LEMMA SameSeq ==
  ASSUME NEW S, NEW s \in Seq(S), NEW t \in Seq(S), Len(s) = Len(t),
         \A i \in 1..Len(s) : s[i] = t[i]
  PROVE  s = t
  OBVIOUS

LEMMA Moved ==
  ASSUME NEW S, NEW b \in Seq(S), NEW w \in Seq(S), NEW n \in 0..Len(w)
  PROVE  (b \o SubSeq(w, 1, n)) \o SubSeq(w, n + 1, Len(w)) = b \o w
<1>0. Len(b) \in Nat /\ Len(w) \in Nat
  OBVIOUS
<1> DEFINE v == SubSeq(w, 1, n)
           u == SubSeq(w, n + 1, Len(w))
<1>1. /\ v \in Seq(S) /\ Len(v) = n /\ \A i \in 1..n : v[i] = w[i]
      /\ u \in Seq(S) /\ Len(u) = Len(w) - n /\ \A i \in 1..(Len(w) - n) : u[i] = w[i + n]
  OBVIOUS
<1> HIDE DEF u, v
<1>2. v \o u \in Seq(S) /\ Len(v \o u) = Len(w)
  BY <1>1
<1>3. ASSUME NEW i \in 1..Len(w) PROVE (v \o u)[i] = w[i]
  <2>0. i \in Nat /\ n \in Nat
    OBVIOUS
  <2>1. CASE i <= n
    BY <1>1, <2>1
  <2>2. CASE i > n
    <3>1. i - n \in 1..(Len(w) - n) /\ (i - n) + n = i
      BY <2>2
    <3>2. (v \o u)[i] = u[i - n]
      BY <1>1, <2>2
    <3> QED
      BY <1>1, <3>1, <3>2
  <2>3. i <= n \/ i > n
    BY <2>0
  <2> QED
    BY <2>1, <2>2, <2>3
<1>4. v \o u = w
  BY <1>2, <1>3, SameSeq
<1>5. (b \o v) \o u = b \o (v \o u)
  BY <1>1
<1> QED
  BY <1>4, <1>5 DEF u, v

\* s is r without the elements from p + 1 to q.
IsCut(r, s, p, q) ==
  /\ p \in Nat /\ q \in Nat /\ p <= q /\ q <= Len(r)
  /\ Len(s) = Len(r) - (q - p)
  /\ \A i \in 1..Len(s) : s[i] = IF i <= p THEN r[i] ELSE r[i + (q - p)]

LEMMA CutFront ==
  ASSUME NEW S, NEW b \in Seq(S), NEW w \in Seq(S), NEW k \in 0..Len(b)
  PROVE  IsCut(b \o w, SubSeq(b, k + 1, Len(b)) \o w, 0, k)
  BY DEF IsCut

LEMMA CutMore ==
  ASSUME NEW S, NEW b \in Seq(S), NEW w \in Seq(S), NEW n \in 0..Len(w)
  PROVE  IsCut(b \o w, << >> \o SubSeq(w, n + 1, Len(w)), 0, Len(b) + n)
  BY DEF IsCut

LEMMA CutMiddle ==
  ASSUME NEW S, NEW b \in Seq(S), NEW w \in Seq(S), NEW p \in 0..Len(w), NEW q \in 0..Len(w), p <= q
  PROVE  IsCut(b \o w, b \o (SubSeq(w, 1, p) \o SubSeq(w, q + 1, Len(w))), Len(b) + p, Len(b) + q)
<1>0. Len(b) \in Nat /\ Len(w) \in Nat
  OBVIOUS
<1> DEFINE x == SubSeq(w, 1, p)
           y == SubSeq(w, q + 1, Len(w))
<1>1. /\ x \in Seq(S) /\ Len(x) = p /\ \A i \in 1..p : x[i] = w[i]
      /\ y \in Seq(S) /\ Len(y) = Len(w) - q /\ \A i \in 1..(Len(w) - q) : y[i] = w[i + q]
  OBVIOUS
<1> HIDE DEF x, y
<1>2. /\ (b \o x) \o y = b \o (x \o y)
      /\ b \o x \in Seq(S) /\ Len(b \o x) = Len(b) + p
  BY <1>1
<1>3. ASSUME NEW i \in 1..(Len(b) + p) PROVE (b \o x)[i] = (b \o w)[i]
  BY <1>1
<1> DEFINE c == b \o x
<1>4. c \in Seq(S) /\ Len(c) = Len(b) + p /\ \A i \in 1..(Len(b) + p) : c[i] = (b \o w)[i]
  BY <1>2, <1>3
<1> HIDE DEF c
<1> DEFINE s == c \o y
<1>5. s \in Seq(S) /\ Len(s) = Len(b) + p + (Len(w) - q)
  <2>1. y \in Seq(S) /\ c \in Seq(S)
    BY <1>1, <1>4
  <2>2. s \in Seq(S) /\ Len(s) = Len(c) + Len(y)
    BY <2>1
  <2> QED
    BY <1>0, <1>1, <1>4, <2>2
<1>6. ASSUME NEW i \in 1..Len(s)
      PROVE s[i] = IF i <= Len(b) + p THEN (b \o w)[i] ELSE (b \o w)[i + (q - p)]
  <2>1. CASE i <= Len(b) + p
    BY <1>1, <1>4, <1>5, <2>1
  <2>2. CASE i > Len(b) + p
    <3> DEFINE j == i - (Len(b) + p)
    <3>1. j \in 1..(Len(w) - q) /\ j + q \in 1..Len(w) /\ i + (q - p) = Len(b) + (j + q) /\ i = Len(c) + j
      BY <1>0, <1>4, <1>5, <2>2
    <3> HIDE DEF j
    <3>2. s[Len(c) + j] = y[j]
      BY <1>1, <1>4, <3>1
    <3>3. \A k \in 1..Len(w) : (b \o w)[Len(b) + k] = w[k]
      OBVIOUS
    <3> QED
      BY <1>1, <1>4, <2>2, <3>1, <3>2, <3>3
  <2> QED
    BY <2>1, <2>2, <1>5
<1> HIDE DEF s
<1>7. (Len(b) + q) - (Len(b) + p) = q - p /\ Len(b \o w) = Len(b) + Len(w)
  OBVIOUS
<1>8. IsCut(b \o w, s, Len(b) + p, Len(b) + q)
  BY <1>5, <1>6, <1>7 DEF IsCut
<1> QED
  BY <1>2, <1>8 DEF s, c, x, y

----------------------------------------------------------------------------
(* Runs of DLEs.                                                           *)

Numbering == [byte : Bytes, msg : Nat]

LEMMA MinIs ==
  ASSUME NEW S \in SUBSET Nat, S # {}
  PROVE  Min(S) \in S /\ \A x \in S : Min(S) <= x
<1>1. \E m \in S : \A n \in S : m <= n
  BY LeastNatural
<1> QED
  BY <1>1 DEF Min

LEMMA MaxIs ==
  ASSUME NEW u \in Nat, NEW S \in SUBSET (0..u), S # {}
  PROVE  Max(S) \in S /\ \A x \in S : x <= Max(S)
<1> DEFINE T == {n \in Nat : n <= u /\ u - n \in S}
<1>1. T \in SUBSET Nat
  OBVIOUS
<1>2. T # {}
  <2>1. PICK x \in S : TRUE
    OBVIOUS
  <2>2. x \in 0..u /\ u - x \in Nat /\ u - (u - x) = x /\ u - x <= u
    BY <2>1
  <2>3. u - x \in T
    BY <2>1, <2>2
  <2> QED
    BY <2>3
<1>3. PICK m \in T : \A n \in T : m <= n
  BY <1>1, <1>2, LeastNatural
<1>4. m \in Nat /\ m <= u /\ u - m \in S
  BY <1>3
<1>5. ASSUME NEW x \in S PROVE u - m >= x
  <2>1. x \in 0..u /\ u - x \in Nat /\ u - (u - x) = x /\ u - x <= u
    OBVIOUS
  <2>2. u - x \in T
    BY <2>1
  <2>3. m <= u - x
    BY <1>3, <2>2
  <2> QED
    BY <1>4, <2>1, <2>3
<1>6. \E x \in S : \A y \in S : x >= y
  BY <1>4, <1>5
<1>7. Max(S) \in S /\ \A y \in S : Max(S) >= y
  BY <1>6 DEF Max
<1>8. \A y \in S : y \in Nat
  OBVIOUS
<1> QED
  BY <1>7, <1>8

\* The run of DLEs directly before i starts after m.
Run(b, i, m) ==
  /\ m \in 0..i - 1
  /\ \A j \in m + 1..i - 1 : b[j].byte = "DLE"
  /\ m = 0 \/ b[m].byte # "DLE"

LEMMA RunIs ==
  ASSUME NEW b \in Seq(Numbering), NEW i \in 1..Len(b) + 1
  PROVE  \E m \in 0..i - 1 : Run(b, i, m) /\ DLEsBefore(b, i) = i - 1 - m
<1> DEFINE S == {0} \cup (1..i - 1 \ DLEs(b))
           m == Max(S)
<1>1. Len(b) \in Nat /\ DOMAIN b = 1..Len(b) /\ i \in Nat /\ i - 1 \in Nat
  OBVIOUS
<1>2. S \in SUBSET (0..i - 1) /\ S # {}
  BY <1>1
<1>3. m \in S /\ \A x \in S : x <= m
  BY <1>1, <1>2, MaxIs
<1>4. DLEsBefore(b, i) = i - 1 - m
  BY DEF DLEsBefore
<1> HIDE DEF m
<1>5. m \in 0..i - 1
  BY <1>2, <1>3
<1>6. ASSUME NEW j \in m + 1..i - 1 PROVE b[j].byte = "DLE"
  <2>1. j \in 1..i - 1 /\ j \in 1..Len(b) /\ ~(j <= m)
    BY <1>1, <1>5
  <2>2. j \notin S
    BY <1>3, <2>1
  <2> QED
    BY <1>1, <2>1, <2>2 DEF DLEs
<1>7. m = 0 \/ b[m].byte # "DLE"
  <2>1. SUFFICES ASSUME m # 0 PROVE b[m].byte # "DLE"
    OBVIOUS
  <2>2. m \in 1..Len(b) /\ m \notin DLEs(b)
    BY <1>1, <1>3, <1>5, <2>1
  <2> QED
    BY <1>1, <2>2 DEF DLEs
<1> QED
  BY <1>4, <1>5, <1>6, <1>7 DEF Run

LEMMA RunIsUnique ==
  ASSUME NEW b \in Seq(Numbering), NEW i \in 1..Len(b) + 1,
         NEW m \in 0..i - 1, NEW n \in 0..i - 1, Run(b, i, m), Run(b, i, n)
  PROVE  m = n
<1>1. i \in Nat /\ m \in Nat /\ n \in Nat
  OBVIOUS
<1>2. CASE m < n
  BY <1>1, <1>2 DEF Run
<1>3. CASE n < m
  BY <1>1, <1>3 DEF Run
<1> QED
  BY <1>1, <1>2, <1>3

\* A DLE at i would be the second of a pair, an ETX end the frame.
Odd(b, i) == DLEsBefore(b, i) % 2 = 1

LEMMA OddFirst ==
  ASSUME NEW b \in Seq(Numbering)
  PROVE  ~Odd(b, 1)
<1>1. 1 \in 1..Len(b) + 1 /\ 1 - 1 = 0
  OBVIOUS
<1>2. PICK m \in 0..1 - 1 : DLEsBefore(b, 1) = 1 - 1 - m
  BY <1>1, RunIs
<1>3. DLEsBefore(b, 1) = 0
  BY <1>2
<1> QED
  BY <1>3 DEF Odd

LEMMA OddNext ==
  ASSUME NEW b \in Seq(Numbering), NEW i \in 1..Len(b)
  PROVE  Odd(b, i + 1) <=> b[i].byte = "DLE" /\ ~Odd(b, i)
<1>1. i \in Nat /\ i \in 1..Len(b) + 1 /\ i + 1 \in 1..Len(b) + 1 /\ (i + 1) - 1 = i
  OBVIOUS
<1>2. PICK m \in 0..i - 1 : Run(b, i, m) /\ DLEsBefore(b, i) = i - 1 - m
  BY <1>1, RunIs
<1>3. PICK n \in 0..(i + 1) - 1 : Run(b, i + 1, n) /\ DLEsBefore(b, i + 1) = (i + 1) - 1 - n
  BY <1>1, RunIs
<1>4. m \in Nat /\ n \in Nat /\ m <= i - 1 /\ n <= i
  BY <1>1
<1>5. CASE b[i].byte = "DLE"
  <2>1. m \in 0..(i + 1) - 1
    BY <1>1, <1>4
  <2>2. Run(b, i + 1, m)
    BY <1>1, <1>2, <1>4, <1>5 DEF Run
  <2>3. m = n
    BY <1>1, <1>3, <2>1, <2>2, RunIsUnique
  <2> DEFINE d == i - 1 - m
  <2>4. d \in Nat /\ DLEsBefore(b, i) = d /\ DLEsBefore(b, i + 1) = d + 1
    BY <1>1, <1>2, <1>3, <1>4, <2>3
  <2> HIDE DEF d
  <2>5. (d + 1) % 2 = 1 <=> ~(d % 2 = 1)
    BY <2>4
  <2> QED
    BY <1>5, <2>4, <2>5 DEF Odd
<1>6. CASE b[i].byte # "DLE"
  <2>1. Run(b, i + 1, i)
    BY <1>1, <1>6 DEF Run
  <2>2. i \in 0..(i + 1) - 1
    BY <1>1
  <2>3. n = i
    BY <1>1, <1>3, <2>1, <2>2, RunIsUnique
  <2>4. DLEsBefore(b, i + 1) = 0
    BY <1>1, <1>3, <2>3
  <2> QED
    BY <1>6, <2>4 DEF Odd
<1> QED
  BY <1>5, <1>6

----------------------------------------------------------------------------
(* Escaping.                                                               *)

LEMMA Climb ==
  ASSUME NEW k \in Nat, NEW S, 0 \in S, \A n \in 0..k - 1 : n \in S => n + 1 \in S
  PROVE  \A n \in 0..k : n \in S
<1> DEFINE T == {n \in 0..k : n \notin S}
<1>1. SUFFICES ASSUME T # {} PROVE FALSE
  OBVIOUS
<1>2. T \in SUBSET Nat
  OBVIOUS
<1>3. PICK m \in T : \A n \in T : m <= n
  BY <1>1, <1>2, LeastNatural
<1>4. m \in 0..k /\ m \notin S /\ m # 0
  BY <1>3
<1>5. m - 1 \in 0..k - 1 /\ m - 1 \in 0..k /\ ~(m <= m - 1) /\ (m - 1) + 1 = m
  BY <1>4
<1>6. m - 1 \notin T
  BY <1>3, <1>5
<1>7. m - 1 \in S
  BY <1>5, <1>6
<1> QED
  BY <1>4, <1>5, <1>7

\* What a byte of a report becomes.
Piece(x) == IF x = "DLE" THEN <<"DLE", "DLE">> ELSE <<x>>

LEMMA PieceIs ==
  ASSUME NEW x \in Bytes
  PROVE  /\ Piece(x) \in Seq(Bytes) /\ Piece(x)[1] = x
         /\ x = "DLE" => Len(Piece(x)) = 2 /\ Piece(x)[2] = "DLE"
         /\ x # "DLE" => Len(Piece(x)) = 1
<1>1. "DLE" \in Bytes
  BY DEF Bytes
<1> QED
  BY <1>1 DEF Piece

\* d[i] is the first i bytes of r, escaped.
Doubles(r, d) ==
  /\ d \in [0..Len(r) -> Seq(Bytes)] /\ d[0] = << >>
  /\ \A i \in 1..Len(r) : d[i] = d[i - 1] \o Piece(r[i])

LEMMA DoublesExist ==
  ASSUME NEW r \in Seq(Bytes)
  PROVE  \E d : Doubles(r, d)
<1> DEFINE P(n, d) == /\ d \in [0..n -> Seq(Bytes)] /\ d[0] = << >>
                      /\ \A i \in 1..n : d[i] = d[i - 1] \o Piece(r[i])
           S == {n \in 0..Len(r) : \E d \in [0..n -> Seq(Bytes)] : P(n, d)}
<1>0. Len(r) \in Nat /\ \A i \in 1..Len(r) : r[i] \in Bytes
  OBVIOUS
<1>1. 0 \in S
  <2> DEFINE d == [i \in 0..0 |-> << >>]
  <2>1. d \in [0..0 -> Seq(Bytes)] /\ d[0] = << >>
    OBVIOUS
  <2>2. P(0, d)
    BY <2>1
  <2> HIDE DEF d
  <2>3. 0 \in 0..Len(r) /\ \E c \in [0..0 -> Seq(Bytes)] : P(0, c)
    BY <1>0, <2>1, <2>2
  <2> QED
    BY <2>3
<1>2. ASSUME NEW n \in 0..Len(r) - 1, n \in S PROVE n + 1 \in S
  <2>0. n \in Nat /\ n + 1 \in 1..Len(r) /\ n + 1 \in 0..Len(r)
    BY <1>0
  <2>1. PICK d \in [0..n -> Seq(Bytes)] : P(n, d)
    BY <1>2
  <2> DEFINE x == d[n] \o Piece(r[n + 1])
             c == [i \in 0..n + 1 |-> IF i = n + 1 THEN x ELSE d[i]]
  <2>2. x \in Seq(Bytes)
    <3>1. d[n] \in Seq(Bytes)
      BY <2>0
    <3>2. Piece(r[n + 1]) \in Seq(Bytes)
      BY <1>0, <2>0, PieceIs
    <3> QED
      BY <3>1, <3>2
  <2>3. c \in [0..n + 1 -> Seq(Bytes)]
    <3>1. ASSUME NEW i \in 0..n + 1 PROVE (IF i = n + 1 THEN x ELSE d[i]) \in Seq(Bytes)
      <4>1. i = n + 1 \/ i \in 0..n
        BY <2>0
      <4> HIDE DEF x
      <4> QED
        BY <2>2, <4>1
    <3> HIDE DEF x
    <3> QED
      BY <3>1
  <2>4. c[0] = << >>
    BY <2>0, <2>1
  <2>5. ASSUME NEW i \in 1..n + 1 PROVE c[i] = c[i - 1] \o Piece(r[i])
    <3>1. i \in 0..n + 1 /\ i - 1 \in 0..n + 1 /\ i - 1 # n + 1
      BY <2>0
    <3>2. c[i - 1] = d[i - 1]
      BY <3>1
    <3>3. CASE i = n + 1
      <4>1. c[i] = d[n] \o Piece(r[n + 1])
        BY <3>1, <3>3
      <4>2. i - 1 = n
        BY <2>0, <3>3
      <4> QED
        BY <3>2, <3>3, <4>1, <4>2
    <3>4. CASE i # n + 1
      <4>1. i \in 1..n
        BY <2>0, <3>4
      <4>2. c[i] = d[i]
        BY <3>1, <3>4
      <4> QED
        BY <2>1, <3>2, <4>1, <4>2
    <3> QED
      BY <3>3, <3>4
  <2> HIDE DEF c
  <2> QED
    BY <2>0, <2>3, <2>4, <2>5
<1> HIDE DEF S
<1>3. \A n \in 0..Len(r) : n \in S
  BY <1>0, <1>1, <1>2, Climb
<1>4. Len(r) \in S
  BY <1>0, <1>3
<1> QED
  BY <1>4 DEF S, Doubles

LEMMA EscapedIs ==
  ASSUME NEW r \in Seq(Bytes)
  PROVE  \E d : Doubles(r, d) /\ Escaped(r) = d[Len(r)]
<1> DEFINE D(d) == [i \in 0..Len(r) |->
                      IF i = 0 THEN << >>
                      ELSE d[i - 1] \o (IF r[i] = "DLE" THEN <<"DLE", "DLE">> ELSE <<r[i]>>)]
           e == CHOOSE d : d = D(d)
<1>1. Escaped(r) = e[Len(r)]
  BY DEF Escaped
<1>2. PICK d : Doubles(r, d)
  BY DoublesExist
<1>3. d = D(d)
  <2>1. /\ d = [i \in 0..Len(r) |-> d[i]] /\ d[0] = << >>
        /\ \A i \in 1..Len(r) : d[i] = d[i - 1] \o Piece(r[i])
    BY <1>2 DEF Doubles
  <2>2. ASSUME NEW i \in 0..Len(r)
        PROVE d[i] = IF i = 0 THEN << >>
                     ELSE d[i - 1] \o (IF r[i] = "DLE" THEN <<"DLE", "DLE">> ELSE <<r[i]>>)
    <3>1. i = 0 \/ i \in 1..Len(r)
      OBVIOUS
    <3> QED
      BY <2>1, <3>1 DEF Piece
  <2> QED
    BY <2>1, <2>2
<1>4. e = D(e)
  BY <1>3
<1> HIDE DEF e
<1>5. Doubles(r, e)
  <2>0. Len(r) \in Nat /\ \A i \in 1..Len(r) : r[i] \in Bytes
    OBVIOUS
  <2>1. DOMAIN e = 0..Len(r) /\ e[0] = << >> /\ e = [i \in 0..Len(r) |-> e[i]]
    BY <1>4, <2>0
  <2>2. ASSUME NEW i \in 1..Len(r) PROVE e[i] = e[i - 1] \o Piece(r[i])
    <3>1. i \in 0..Len(r) /\ i # 0
      OBVIOUS
    <3>2. D(e)[i] = e[i - 1] \o Piece(r[i])
      BY <3>1 DEF Piece
    <3> QED
      BY <1>4, <3>2
  <2> DEFINE S == {n \in 0..Len(r) : e[n] \in Seq(Bytes)}
  <2>3. 0 \in S
    <3>1. e[0] \in Seq(Bytes) /\ 0 \in 0..Len(r)
      BY <2>0, <2>1
    <3> QED
      BY <3>1
  <2>4. ASSUME NEW n \in 0..Len(r) - 1, n \in S PROVE n + 1 \in S
    <3>1. n + 1 \in 1..Len(r) /\ n + 1 \in 0..Len(r) /\ (n + 1) - 1 = n
      BY <2>0
    <3>2. e[n + 1] = e[n] \o Piece(r[n + 1])
      BY <2>2, <3>1
    <3>3. Piece(r[n + 1]) \in Seq(Bytes) /\ e[n] \in Seq(Bytes)
      BY <2>0, <2>4, <3>1, PieceIs
    <3>4. e[n] \o Piece(r[n + 1]) \in Seq(Bytes)
      BY <3>3
    <3> QED
      BY <3>1, <3>2, <3>4
  <2> HIDE DEF S
  <2>5. \A n \in 0..Len(r) : n \in S
    BY <2>0, <2>3, <2>4, Climb
  <2>6. \A n \in 0..Len(r) : e[n] \in Seq(Bytes)
    BY <2>5 DEF S
  <2>7. e \in [0..Len(r) -> Seq(Bytes)]
    BY <2>1, <2>6
  <2> QED
    BY <2>1, <2>2, <2>7 DEF Doubles
<1> QED
  BY <1>1, <1>5

\* at[i] is how much of e the first i bytes of r have become.
Layout(r, e, at) ==
  /\ e \in Seq(Bytes) /\ at \in [0..Len(r) -> Nat]
  /\ at[0] = 0 /\ at[Len(r)] = Len(e)
  /\ \A i \in 1..Len(r) :
       /\ at[i] = at[i - 1] + IF r[i] = "DLE" THEN 2 ELSE 1
       /\ at[i] <= Len(e)
       /\ e[at[i - 1] + 1] = r[i]
       /\ r[i] = "DLE" => e[at[i - 1] + 2] = "DLE"
  /\ \A j \in 1..Len(e) :
       \E i \in 1..Len(r) : \/ j = at[i - 1] + 1
                            \/ r[i] = "DLE" /\ j = at[i - 1] + 2

LEMMA EscapedLayout ==
  ASSUME NEW r \in Seq(Bytes)
  PROVE  \E at \in [0..Len(r) -> Nat] : Layout(r, Escaped(r), at)
<1>0. Len(r) \in Nat /\ \A i \in 1..Len(r) : r[i] \in Bytes
  OBVIOUS
<1>1. PICK d : Doubles(r, d) /\ Escaped(r) = d[Len(r)]
  BY EscapedIs
<1>2. /\ \A i \in 0..Len(r) : d[i] \in Seq(Bytes) /\ Len(d[i]) \in Nat
      /\ d[0] = << >> /\ Len(d[0]) = 0
  BY <1>0, <1>1 DEF Doubles
<1>3. ASSUME NEW i \in 1..Len(r)
      PROVE  /\ i - 1 \in 0..Len(r) /\ i \in 0..Len(r)
             /\ Len(d[i]) = Len(d[i - 1]) + IF r[i] = "DLE" THEN 2 ELSE 1
             /\ \A j \in 1..Len(d[i - 1]) : d[i][j] = d[i - 1][j]
             /\ d[i][Len(d[i - 1]) + 1] = r[i]
             /\ r[i] = "DLE" => d[i][Len(d[i - 1]) + 2] = "DLE"
  <2>0. i - 1 \in 0..Len(r) /\ i \in 0..Len(r) /\ r[i] \in Bytes
    BY <1>0
  <2> DEFINE s == d[i - 1]
             t == Piece(r[i])
  <2>1. d[i] = s \o t
    BY <1>1 DEF Doubles
  <2>2. s \in Seq(Bytes) /\ t \in Seq(Bytes) /\ Len(s) \in Nat
    BY <1>2, <2>0, PieceIs
  <2>3. /\ t[1] = r[i]
        /\ r[i] = "DLE" => Len(t) = 2 /\ t[2] = "DLE"
        /\ r[i] # "DLE" => Len(t) = 1
    BY <2>0, PieceIs
  <2> HIDE DEF s, t
  <2>4. /\ Len(s \o t) = Len(s) + Len(t)
        /\ \A j \in 1..Len(s) : (s \o t)[j] = s[j]
        /\ \A j \in 1..Len(t) : (s \o t)[Len(s) + j] = t[j]
    BY <2>2, ConcatAt
  <2>5. /\ Len(d[i]) = Len(s) + IF r[i] = "DLE" THEN 2 ELSE 1
        /\ \A j \in 1..Len(s) : d[i][j] = s[j]
        /\ d[i][Len(s) + 1] = r[i]
        /\ r[i] = "DLE" => d[i][Len(s) + 2] = "DLE"
    <3>1. CASE r[i] = "DLE"
      <4>1. 1 \in 1..Len(t) /\ 2 \in 1..Len(t)
        BY <2>3, <3>1
      <4> QED
        BY <2>1, <2>3, <2>4, <3>1, <4>1
    <3>2. CASE r[i] # "DLE"
      <4>1. 1 \in 1..Len(t)
        BY <2>3, <3>2
      <4> QED
        BY <2>1, <2>3, <2>4, <3>2, <4>1
    <3> QED
      BY <3>1, <3>2
  <2> QED
    BY <2>0, <2>5 DEF s
<1> DEFINE a(i) == Len(d[i])
           In(n) == \A i \in 1..n :
                      /\ a(i) <= a(n)
                      /\ d[n][a(i - 1) + 1] = r[i]
                      /\ r[i] = "DLE" => d[n][a(i - 1) + 2] = "DLE"
           All(n) == \A j \in 1..a(n) :
                       \E i \in 1..n : \/ j = a(i - 1) + 1
                                       \/ r[i] = "DLE" /\ j = a(i - 1) + 2
           S == {n \in 0..Len(r) : In(n) /\ All(n)}
<1>a. /\ \A i \in 0..Len(r) : a(i) \in Nat
      /\ a(0) = 0
      /\ \A i \in 1..Len(r) :
           /\ i - 1 \in 0..Len(r) /\ i \in 0..Len(r)
           /\ a(i) = a(i - 1) + IF r[i] = "DLE" THEN 2 ELSE 1
           /\ \A j \in 1..a(i - 1) : d[i][j] = d[i - 1][j]
           /\ d[i][a(i - 1) + 1] = r[i]
           /\ r[i] = "DLE" => d[i][a(i - 1) + 2] = "DLE"
  BY <1>2, <1>3
<1> HIDE DEF a
<1>4. 0 \in S
  <2>1. In(0) /\ All(0)
    BY <1>a
  <2> QED
    BY <1>0, <2>1
<1>5. ASSUME NEW n \in 0..Len(r) - 1, n \in S PROVE n + 1 \in S
  <2>0. n \in Nat /\ n \in 0..Len(r) /\ n + 1 \in 1..Len(r) /\ n + 1 \in 0..Len(r) /\ (n + 1) - 1 = n
    BY <1>0
  <2>1. In(n) /\ All(n)
    BY <1>5
  <2>2. /\ a(n) \in Nat /\ a(n + 1) \in Nat
        /\ a(n + 1) = a(n) + IF r[n + 1] = "DLE" THEN 2 ELSE 1
        /\ \A j \in 1..a(n) : d[n + 1][j] = d[n][j]
        /\ d[n + 1][a(n) + 1] = r[n + 1]
        /\ r[n + 1] = "DLE" => d[n + 1][a(n) + 2] = "DLE"
    BY <1>a, <2>0
  <2>3. ASSUME NEW i \in 1..n + 1
        PROVE  /\ a(i) <= a(n + 1)
               /\ d[n + 1][a(i - 1) + 1] = r[i]
               /\ r[i] = "DLE" => d[n + 1][a(i - 1) + 2] = "DLE"
    <3>1. CASE i = n + 1
      <4>1. i - 1 = n
        BY <2>0, <3>1
      <4> QED
        BY <2>2, <3>1, <4>1
    <3>2. CASE i # n + 1
      <4>1. i \in 1..n /\ i \in 1..Len(r)
        BY <2>0, <3>2
      <4>2. /\ a(i) <= a(n) /\ d[n][a(i - 1) + 1] = r[i]
            /\ r[i] = "DLE" => d[n][a(i - 1) + 2] = "DLE"
        BY <2>1, <4>1
      <4>3. /\ a(i) = a(i - 1) + IF r[i] = "DLE" THEN 2 ELSE 1
            /\ a(i) \in Nat /\ a(i - 1) \in Nat
        BY <1>a, <4>1
      <4>4. a(i - 1) + 1 \in 1..a(n) /\ (r[i] = "DLE" => a(i - 1) + 2 \in 1..a(n))
        BY <2>2, <4>2, <4>3
      <4> QED
        BY <2>2, <4>2, <4>3, <4>4
    <3> QED
      BY <3>1, <3>2
  <2>4. ASSUME NEW j \in 1..a(n + 1)
        PROVE  \E i \in 1..n + 1 : \/ j = a(i - 1) + 1
                                   \/ r[i] = "DLE" /\ j = a(i - 1) + 2
    <3>1. CASE j <= a(n)
      <4>1. j \in 1..a(n)
        BY <2>2, <3>1
      <4>2. PICK i \in 1..n : j = a(i - 1) + 1 \/ (r[i] = "DLE" /\ j = a(i - 1) + 2)
        BY <2>1, <4>1
      <4>3. i \in 1..n + 1
        BY <2>0
      <4> QED
        BY <4>2, <4>3
    <3>2. CASE ~(j <= a(n))
      <4>1. j = a(n) + 1 \/ (r[n + 1] = "DLE" /\ j = a(n) + 2)
        BY <2>2, <3>2
      <4>2. n + 1 \in 1..n + 1
        BY <2>0
      <4> QED
        BY <2>0, <4>1, <4>2
    <3> QED
      BY <3>1, <3>2
  <2>5. In(n + 1)
    BY <2>3
  <2>6. All(n + 1)
    BY <2>4
  <2> HIDE DEF In, All
  <2> QED
    BY <2>0, <2>5, <2>6
<1> HIDE DEF S
<1>6. \A n \in 0..Len(r) : n \in S
  BY <1>0, <1>4, <1>5, Climb
<1>7. In(Len(r)) /\ All(Len(r))
  <2>1. Len(r) \in S
    BY <1>0, <1>6
  <2> QED
    BY <2>1 DEF S
<1> DEFINE at == [i \in 0..Len(r) |-> a(i)]
           e == d[Len(r)]
<1>8. at \in [0..Len(r) -> Nat] /\ \A i \in 0..Len(r) : at[i] = a(i)
  BY <1>a
<1>9. e \in Seq(Bytes) /\ Len(e) = a(Len(r)) /\ Len(r) \in 0..Len(r) /\ 0 \in 0..Len(r)
  BY <1>0, <1>2 DEF a
<1> HIDE DEF at
<1>10. \A i \in 1..Len(r) : at[i] = a(i) /\ at[i - 1] = a(i - 1)
  BY <1>0, <1>8
<1>11. at[0] = 0 /\ at[Len(r)] = Len(e)
  BY <1>a, <1>8, <1>9
<1>12. ASSUME NEW i \in 1..Len(r)
       PROVE  /\ at[i] = at[i - 1] + IF r[i] = "DLE" THEN 2 ELSE 1
              /\ at[i] <= Len(e)
              /\ e[at[i - 1] + 1] = r[i]
              /\ r[i] = "DLE" => e[at[i - 1] + 2] = "DLE"
  BY <1>a, <1>7, <1>9, <1>10
<1>13. ASSUME NEW j \in 1..Len(e)
       PROVE  \E i \in 1..Len(r) : \/ j = at[i - 1] + 1
                                   \/ r[i] = "DLE" /\ j = at[i - 1] + 2
  <2>1. PICK i \in 1..Len(r) : j = a(i - 1) + 1 \/ (r[i] = "DLE" /\ j = a(i - 1) + 2)
    BY <1>7, <1>9
  <2> QED
    BY <1>10, <2>1
<1>14. Layout(r, e, at)
  BY <1>8, <1>9, <1>11, <1>12, <1>13 DEF Layout
<1> QED
  BY <1>1, <1>8, <1>14

----------------------------------------------------------------------------
(* The frame of a report.                                                  *)

LEMMA ReportIs ==
  ASSUME NEW r \in Reports
  PROVE  /\ r \in Seq(Bytes) /\ Len(r) \in Nat /\ Len(r) >= 1
         /\ r[1] \notin {"DLE", "ETX", "command"}
  BY ReportsAssumption

LEMMA FrameIs ==
  ASSUME NEW r \in Reports
  PROVE  LET e == Escaped(r)
             f == Frame(r)
         IN  /\ e \in Seq(Bytes) /\ Len(e) \in Nat /\ Len(e) >= 1
             /\ f \in Seq(Bytes) /\ Len(f) = Len(e) + 3
             /\ f[1] = "DLE" /\ f[Len(e) + 2] = "DLE" /\ f[Len(e) + 3] = "ETX"
             /\ \A j \in 1..Len(e) : f[j + 1] = e[j]
<1>1. r \in Seq(Bytes) /\ Len(r) \in Nat /\ Len(r) >= 1
  BY ReportIs
<1> DEFINE e == Escaped(r)
<1>2. PICK at \in [0..Len(r) -> Nat] : Layout(r, e, at)
  BY <1>1, EscapedLayout
<1>3. 1 \in 1..Len(r) /\ 1 - 1 = 0
  BY <1>1
<1>4. e \in Seq(Bytes) /\ at[1] \in Nat /\ at[1] >= 1 /\ at[1] <= Len(e)
  <2>1. e \in Seq(Bytes) /\ at[0] = 0
    BY <1>2 DEF Layout
  <2>2. at[1] = at[1 - 1] + (IF r[1] = "DLE" THEN 2 ELSE 1) /\ at[1] <= Len(e)
    BY <1>2, <1>3 DEF Layout
  <2>3. 1 \in 0..Len(r)
    BY <1>1
  <2> QED
    BY <1>3, <2>1, <2>2, <2>3
<1>5. Len(e) \in Nat /\ Len(e) >= 1
  <2>1. Len(e) \in Nat
    BY <1>4
  <2> QED
    BY <1>4, <2>1
<1> HIDE DEF e
<1> DEFINE a == <<"DLE">>
           z == <<"DLE", "ETX">>
<1>6. a \in Seq(Bytes) /\ z \in Seq(Bytes) /\ Len(a) = 1 /\ Len(z) = 2
  BY DEF Bytes
<1>7. /\ a \o e \in Seq(Bytes) /\ Len(a \o e) = 1 + Len(e)
      /\ (a \o e)[1] = "DLE" /\ \A j \in 1..Len(e) : (a \o e)[1 + j] = e[j]
  BY <1>4, <1>6, ConcatAt
<1> DEFINE c == a \o e
           f == c \o z
<1> HIDE DEF c
<1>8. c \in Seq(Bytes) /\ Len(c) = 1 + Len(e) /\ c[1] = "DLE" /\ \A j \in 1..Len(e) : c[1 + j] = e[j]
  BY <1>7 DEF c
<1>9. /\ f \in Seq(Bytes) /\ Len(f) = Len(c) + 2
      /\ \A j \in 1..Len(c) : f[j] = c[j]
      /\ f[Len(c) + 1] = "DLE" /\ f[Len(c) + 2] = "ETX"
  BY <1>6, <1>8, ConcatAt
<1>10. Frame(r) = f
  BY DEF Frame, e, c
<1> HIDE DEF f
<1>11. ASSUME NEW j \in 1..Len(e) PROVE f[j + 1] = e[j]
  <2>1. 1 + j \in 1..Len(c) /\ 1 + j = j + 1
    BY <1>5, <1>8
  <2> QED
    BY <1>8, <1>9, <2>1
<1>12. Len(f) = Len(e) + 3 /\ f[1] = "DLE" /\ f[Len(e) + 2] = "DLE" /\ f[Len(e) + 3] = "ETX"
  <2>1. Len(c) + 1 = Len(e) + 2 /\ Len(c) + 2 = Len(e) + 3 /\ 1 \in 1..Len(c)
    BY <1>5, <1>8
  <2> QED
    BY <1>8, <1>9, <2>1
<1> QED
  BY <1>4, <1>5, <1>9, <1>10, <1>11, <1>12 DEF e

LEMMA NextPiece ==
  ASSUME NEW p \in Nat, NEW x \in Nat, NEW y \in Nat, NEW l \in Nat, NEW w \in {1, 2},
         y = x + w, p + 2 + y <= l + 1
  PROVE  /\ p + 2 + x \in 1..l /\ p + 2 + y = (p + 2 + x) + w
         /\ p + 2 + x = p + (x + 2)
         /\ w = 2 => /\ (p + 2 + x) + 1 \in 1..l
                     /\ (p + 2 + x) + 1 = p + (x + 3)
  OBVIOUS

\* f is in b from p + 1 on, as far as b goes.
Lies(f, b, p) == \A i \in 1..Len(f) : p + i <= Len(b) => b[p + i].byte = f[i]

\* From the first byte of the report on, no byte of it is the second of a pair,
\* wherever the stream before it was cut.
LEMMA FrameStops ==
  ASSUME NEW r \in Reports, NEW b \in Seq(Numbering), NEW p \in Nat,
         Lies(Frame(r), b, p), NEW k \in 1..Len(Frame(r)), p + k <= Len(b)
  PROVE  b[p + k].byte = "ETX" /\ Odd(b, p + k) <=> k = Len(Frame(r))
<1> DEFINE e == Escaped(r)
           f == Frame(r)
<1>1. /\ r \in Seq(Bytes) /\ Len(r) \in Nat /\ Len(r) >= 1
      /\ r[1] # "DLE" /\ r[1] # "ETX"
  BY ReportIs
<1>2. /\ e \in Seq(Bytes) /\ Len(e) \in Nat /\ Len(e) >= 1
      /\ f \in Seq(Bytes) /\ Len(f) = Len(e) + 3
      /\ f[1] = "DLE" /\ f[Len(e) + 2] = "DLE" /\ f[Len(e) + 3] = "ETX"
      /\ \A j \in 1..Len(e) : f[j + 1] = e[j]
  BY FrameIs
<1>3. PICK at \in [0..Len(r) -> Nat] : Layout(r, e, at)
  BY <1>1, EscapedLayout
<1>4. \A i \in 1..Len(f) : p + i <= Len(b) => b[p + i].byte = f[i]
  BY DEF Lies
<1> HIDE DEF e, f
<1>5. /\ \A i \in 0..Len(r) : at[i] \in Nat
      /\ at[0] = 0 /\ at[Len(r)] = Len(e)
      /\ \A i \in 1..Len(r) :
           /\ at[i] = at[i - 1] + IF r[i] = "DLE" THEN 2 ELSE 1
           /\ at[i] <= Len(e)
           /\ e[at[i - 1] + 1] = r[i]
           /\ r[i] = "DLE" => e[at[i - 1] + 2] = "DLE"
      /\ \A j \in 1..Len(e) :
           \E i \in 1..Len(r) : \/ j = at[i - 1] + 1
                                \/ r[i] = "DLE" /\ j = at[i - 1] + 2
  BY <1>3 DEF Layout
<1> DEFINE after(n) == p + 2 + at[n]
           S == {n \in 0..Len(r) : n >= 1 /\ after(n) <= Len(b) + 1 => ~Odd(b, after(n))}
<1>6. 0 \in S
  BY <1>1
<1>b. Len(b) \in Nat /\ p \in Nat
  OBVIOUS
<1>c. \A n \in 0..Len(r) : after(n) = p + 2 + at[n] /\ after(n) \in Nat
  BY <1>5
<1> HIDE DEF after
<1>7. ASSUME NEW n \in 0..Len(r) - 1, n \in S PROVE n + 1 \in S
  <2>0. n \in Nat /\ n \in 0..Len(r) /\ n + 1 \in 1..Len(r) /\ n + 1 \in 0..Len(r) /\ (n + 1) - 1 = n
    BY <1>1
  <2>1. SUFFICES ASSUME after(n + 1) <= Len(b) + 1 PROVE ~Odd(b, after(n + 1))
    BY <2>0
  <2> DEFINE q == after(n)
  <2>2. /\ at[n] \in Nat /\ at[n + 1] \in Nat
        /\ at[n + 1] = at[n] + IF r[n + 1] = "DLE" THEN 2 ELSE 1
        /\ at[n + 1] <= Len(e) /\ e[at[n] + 1] = r[n + 1]
        /\ r[n + 1] = "DLE" => e[at[n] + 2] = "DLE"
    BY <1>5, <2>0
  <2>a. /\ q = p + 2 + at[n] /\ q \in Nat
        /\ after(n + 1) = p + 2 + at[n + 1] /\ after(n + 1) \in Nat
    BY <1>c, <2>0
  <2>3. /\ q = p + (at[n] + 2) /\ q \in Nat /\ q \in 1..Len(b)
        /\ after(n + 1) = q + IF r[n + 1] = "DLE" THEN 2 ELSE 1
        /\ r[n + 1] = "DLE" => q + 1 \in 1..Len(b) /\ q + 1 = p + (at[n] + 3)
    <3> DEFINE w == IF r[n + 1] = "DLE" THEN 2 ELSE 1
    <3>1. w \in {1, 2} /\ at[n + 1] = at[n] + w /\ (r[n + 1] = "DLE" => w = 2)
      BY <2>2
    <3> HIDE DEF w, q
    <3>2. p + 2 + at[n + 1] <= Len(b) + 1
      BY <2>1, <2>a
    <3> DEFINE x == at[n]
               y == at[n + 1]
               l == Len(b)
    <3>3. /\ p \in Nat /\ x \in Nat /\ y \in Nat /\ l \in Nat /\ w \in {1, 2}
          /\ y = x + w /\ p + 2 + y <= l + 1
      BY <1>b, <2>2, <3>1, <3>2
    <3> HIDE DEF x, y, l
    <3>4. /\ p + 2 + x \in 1..l /\ p + 2 + y = (p + 2 + x) + w
          /\ p + 2 + x = p + (x + 2)
          /\ w = 2 => (p + 2 + x) + 1 \in 1..l /\ (p + 2 + x) + 1 = p + (x + 3)
      BY <3>3, NextPiece
    <3>5. /\ p + 2 + at[n] \in 1..Len(b) /\ p + 2 + at[n + 1] = (p + 2 + at[n]) + w
          /\ p + 2 + at[n] = p + (at[n] + 2)
          /\ w = 2 => (p + 2 + at[n]) + 1 \in 1..Len(b) /\ (p + 2 + at[n]) + 1 = p + (at[n] + 3)
      BY <3>4 DEF x, y, l
    <3> QED
      BY <2>a, <3>1, <3>5 DEF w
  <2> HIDE DEF q
  <2>4. b[q].byte = r[n + 1]
    <3>1. at[n] + 1 \in 1..Len(e) /\ (at[n] + 1) + 1 = at[n] + 2 /\ at[n] + 2 \in 1..Len(f)
      BY <1>2, <2>2
    <3>2. f[at[n] + 2] = r[n + 1]
      BY <1>2, <2>2, <3>1
    <3> QED
      <4>1. p + (at[n] + 2) <= Len(b)
        BY <1>b, <2>3
      <4>2. b[p + (at[n] + 2)].byte = f[at[n] + 2]
        BY <1>4, <3>1, <4>1
      <4> QED
        BY <2>3, <3>2, <4>2
  <2>5. CASE r[n + 1] # "DLE"
    <3>1. ~Odd(b, q + 1)
      BY <2>3, <2>4, <2>5, OddNext
    <3> QED
      BY <2>3, <2>5, <3>1
  <2>6. CASE r[n + 1] = "DLE"
    <3>1. n # 0
      BY <1>1, <2>6
    <3>2. ~Odd(b, q)
      <4>1. n >= 1 /\ q <= Len(b) + 1
        BY <1>b, <2>0, <2>3, <3>1
      <4> QED
        BY <1>7, <4>1 DEF q
    <3>3. Odd(b, q + 1)
      BY <2>3, <2>4, <2>6, <3>2, OddNext
    <3>4. q + 1 \in 1..Len(b) /\ q + 1 = p + (at[n] + 3) /\ p + (at[n] + 3) <= Len(b)
      BY <1>b, <2>3, <2>6
    <3>5. b[q + 1].byte = "DLE"
      <4>1. at[n] + 2 \in 1..Len(e) /\ (at[n] + 2) + 1 = at[n] + 3 /\ at[n] + 3 \in 1..Len(f)
        BY <1>2, <2>2, <2>6
      <4>2. f[at[n] + 3] = "DLE"
        BY <1>2, <2>2, <2>6, <4>1
      <4> QED
        BY <1>4, <3>4, <4>1, <4>2
    <3>6. ~Odd(b, (q + 1) + 1)
      BY <3>3, <3>4, OddNext
    <3>7. (q + 1) + 1 = after(n + 1)
      BY <2>3, <2>6
    <3> QED
      BY <3>6, <3>7
  <2> QED
    BY <2>5, <2>6
<1> HIDE DEF S
<1>8. \A n \in 0..Len(r) : n \in S
  BY <1>1, <1>6, <1>7, Climb
<1>9. \A n \in 1..Len(r) : after(n) <= Len(b) + 1 => ~Odd(b, after(n))
  <2>1. \A n \in 1..Len(r) : n \in 0..Len(r) /\ n >= 1
    BY <1>1
  <2> QED
    BY <1>8, <2>1 DEF S
<1>10. b[p + k].byte = f[k] /\ k \in 1..Len(f) /\ k \in Nat
  BY <1>4 DEF f
<1>11. CASE k = 1
  BY <1>2, <1>10, <1>11 DEF f
<1>12. CASE k \in 2..Len(e) + 1
  <2>1. k - 1 \in 1..Len(e) /\ (k - 1) + 1 = k /\ k # Len(f)
    BY <1>2, <1>12
  <2>2. f[k] = e[k - 1]
    BY <1>2, <2>1
  <2>3. PICK i \in 1..Len(r) : \/ k - 1 = at[i - 1] + 1
                               \/ r[i] = "DLE" /\ k - 1 = at[i - 1] + 2
    BY <1>5, <2>1
  <2>4. CASE k - 1 = at[i - 1] + 1
    <3>1. f[k] = r[i]
      BY <1>5, <2>2, <2>4
    <3>2. CASE r[i] # "ETX"
      BY <1>10, <2>1, <3>1, <3>2 DEF f
    <3>3. CASE r[i] = "ETX"
      <4>1. i # 1
        BY <1>1, <3>3
      <4>2. i - 1 \in 1..Len(r) /\ i - 1 \in 0..Len(r)
        BY <1>1, <4>1
      <4>3. after(i - 1) = p + k
        <5>1. at[i - 1] \in Nat
          BY <1>5, <4>2
        <5>2. after(i - 1) = p + 2 + at[i - 1]
          BY <1>c, <4>2
        <5> QED
          BY <1>10, <2>4, <5>1, <5>2
      <4>4. after(i - 1) <= Len(b) + 1
        BY <1>b, <1>10, <4>3
      <4>5. ~Odd(b, p + k)
        BY <1>9, <4>2, <4>3, <4>4
      <4> QED
        BY <2>1, <4>5 DEF f
    <3> QED
      BY <3>2, <3>3
  <2>5. CASE r[i] = "DLE" /\ k - 1 = at[i - 1] + 2
    <3>1. f[k] = "DLE"
      BY <1>5, <2>2, <2>5
    <3> QED
      BY <1>10, <2>1, <3>1 DEF f
  <2> QED
    BY <2>3, <2>4, <2>5
<1>13. CASE k = Len(e) + 2
  BY <1>2, <1>10, <1>13 DEF f
<1>14. CASE k = Len(e) + 3
  <2>1. Len(r) \in 1..Len(r) /\ after(Len(r)) = p + (Len(e) + 2)
    <3>1. Len(r) \in 1..Len(r) /\ Len(r) \in 0..Len(r)
      BY <1>1
    <3>2. after(Len(r)) = p + 2 + Len(e)
      BY <1>5, <1>c, <3>1
    <3> QED
      BY <1>2, <1>b, <3>1, <3>2
  <2>2. p + (Len(e) + 2) \in 1..Len(b) /\ (p + (Len(e) + 2)) + 1 = p + k /\ Len(e) + 2 \in 1..Len(f)
    BY <1>2, <1>b, <1>14
  <2>3. ~Odd(b, p + (Len(e) + 2))
    <3>1. after(Len(r)) <= Len(b) + 1
      BY <1>b, <2>1, <2>2
    <3> QED
      BY <1>9, <2>1, <3>1
  <2>4. b[p + (Len(e) + 2)].byte = "DLE"
    BY <1>2, <1>4, <2>2
  <2>5. Odd(b, p + k)
    BY <2>2, <2>3, <2>4, OddNext
  <2> QED
    BY <1>2, <1>10, <1>14, <2>5 DEF f
<1> QED
  BY <1>2, <1>10, <1>11, <1>12, <1>13, <1>14

----------------------------------------------------------------------------
(* Unescaping.                                                             *)

Second(m, i) == m[i].byte = "DLE" /\ Odd(m, i)

\* u[i] is the first i bytes of m, unescaped.
Squashes(m, u) ==
  /\ u \in [0..Len(m) -> Seq(Numbering)] /\ u[0] = << >>
  /\ \A i \in 1..Len(m) :
       u[i] = IF Second(m, i) THEN u[i - 1] ELSE Append(u[i - 1], m[i])

LEMMA SquashesExist ==
  ASSUME NEW m \in Seq(Numbering)
  PROVE  \E u : Squashes(m, u)
<1> DEFINE P(n, u) ==
             /\ u \in [0..n -> Seq(Numbering)] /\ u[0] = << >>
             /\ \A i \in 1..n :
                  u[i] = IF Second(m, i) THEN u[i - 1] ELSE Append(u[i - 1], m[i])
           S == {n \in 0..Len(m) : \E u \in [0..n -> Seq(Numbering)] : P(n, u)}
<1>0. Len(m) \in Nat /\ \A i \in 1..Len(m) : m[i] \in Numbering
  OBVIOUS
<1>1. 0 \in S
  <2> DEFINE u == [i \in 0..0 |-> << >>]
  <2>1. u \in [0..0 -> Seq(Numbering)] /\ u[0] = << >>
    OBVIOUS
  <2>2. P(0, u)
    BY <2>1
  <2> HIDE DEF u
  <2>3. 0 \in 0..Len(m) /\ \E v \in [0..0 -> Seq(Numbering)] : P(0, v)
    BY <1>0, <2>1, <2>2
  <2> QED
    BY <2>3
<1>2. ASSUME NEW n \in 0..Len(m) - 1, n \in S PROVE n + 1 \in S
  <2>0. n \in Nat /\ n + 1 \in 1..Len(m) /\ n + 1 \in 0..Len(m)
    BY <1>0
  <2>1. PICK u \in [0..n -> Seq(Numbering)] : P(n, u)
    BY <1>2
  <2> DEFINE x == IF Second(m, n + 1) THEN u[n] ELSE Append(u[n], m[n + 1])
             v == [i \in 0..n + 1 |-> IF i = n + 1 THEN x ELSE u[i]]
  <2>2. x \in Seq(Numbering)
    <3>1. u[n] \in Seq(Numbering) /\ m[n + 1] \in Numbering
      BY <1>0, <2>0
    <3>2. Append(u[n], m[n + 1]) \in Seq(Numbering)
      BY <3>1
    <3> QED
      BY <3>1, <3>2
  <2>3. v \in [0..n + 1 -> Seq(Numbering)]
    <3>1. ASSUME NEW i \in 0..n + 1 PROVE (IF i = n + 1 THEN x ELSE u[i]) \in Seq(Numbering)
      <4>1. i = n + 1 \/ i \in 0..n
        BY <2>0
      <4> HIDE DEF x
      <4> QED
        BY <2>2, <4>1
    <3> HIDE DEF x
    <3> QED
      BY <3>1
  <2>4. v[0] = << >>
    BY <2>0, <2>1
  <2>5. ASSUME NEW i \in 1..n + 1
        PROVE v[i] = IF Second(m, i) THEN v[i - 1] ELSE Append(v[i - 1], m[i])
    <3>1. i \in 0..n + 1 /\ i - 1 \in 0..n + 1 /\ i - 1 # n + 1
      BY <2>0
    <3>2. v[i - 1] = u[i - 1]
      BY <3>1
    <3>3. CASE i = n + 1
      <4>1. v[i] = x
        BY <3>1, <3>3
      <4>2. i - 1 = n
        BY <2>0, <3>3
      <4> QED
        BY <3>2, <3>3, <4>1, <4>2
    <3>4. CASE i # n + 1
      <4>1. i \in 1..n
        BY <2>0, <3>4
      <4>2. v[i] = u[i]
        BY <3>1, <3>4
      <4> QED
        BY <2>1, <3>2, <4>1, <4>2
    <3> QED
      BY <3>3, <3>4
  <2> HIDE DEF v
  <2> QED
    BY <2>0, <2>3, <2>4, <2>5
<1> HIDE DEF S
<1>3. \A n \in 0..Len(m) : n \in S
  BY <1>0, <1>1, <1>2, Climb
<1>4. Len(m) \in S
  BY <1>0, <1>3
<1> QED
  BY <1>4 DEF S, Squashes

LEMMA SquashedIs ==
  ASSUME NEW m \in Seq(Numbering)
  PROVE  \E u : Squashes(m, u) /\ Squashed(m) = u[Len(m)]
<1> DEFINE D(u) == [i \in 0..Len(m) |->
                      IF i = 0 THEN << >>
                      ELSE IF m[i].byte = "DLE" /\ DLEsBefore(m, i) % 2 = 1
                           THEN u[i - 1] ELSE Append(u[i - 1], m[i])]
           v == CHOOSE u : u = D(u)
<1>1. Squashed(m) = v[Len(m)]
  BY DEF Squashed
<1>2. PICK u : Squashes(m, u)
  BY SquashesExist
<1>3. u = D(u)
  <2>1. /\ u = [i \in 0..Len(m) |-> u[i]] /\ u[0] = << >>
        /\ \A i \in 1..Len(m) :
             u[i] = IF Second(m, i) THEN u[i - 1] ELSE Append(u[i - 1], m[i])
    BY <1>2 DEF Squashes
  <2>2. ASSUME NEW i \in 0..Len(m)
        PROVE u[i] = IF i = 0 THEN << >>
                     ELSE IF m[i].byte = "DLE" /\ DLEsBefore(m, i) % 2 = 1
                          THEN u[i - 1] ELSE Append(u[i - 1], m[i])
    <3>1. i = 0 \/ i \in 1..Len(m)
      OBVIOUS
    <3> QED
      BY <2>1, <3>1 DEF Second, Odd
  <2> QED
    BY <2>1, <2>2
<1>4. v = D(v)
  BY <1>3
<1> HIDE DEF v
<1>5. Squashes(m, v)
  <2>0. Len(m) \in Nat /\ \A i \in 1..Len(m) : m[i] \in Numbering
    OBVIOUS
  <2>1. DOMAIN v = 0..Len(m) /\ v[0] = << >> /\ v = [i \in 0..Len(m) |-> v[i]]
    BY <1>4, <2>0
  <2>2. ASSUME NEW i \in 1..Len(m)
        PROVE v[i] = IF Second(m, i) THEN v[i - 1] ELSE Append(v[i - 1], m[i])
    <3>1. i \in 0..Len(m) /\ i # 0
      OBVIOUS
    <3>2. D(v)[i] = IF Second(m, i) THEN v[i - 1] ELSE Append(v[i - 1], m[i])
      BY <3>1 DEF Second, Odd
    <3> QED
      BY <1>4, <3>2
  <2> DEFINE S == {n \in 0..Len(m) : v[n] \in Seq(Numbering)}
  <2>3. 0 \in S
    <3>1. v[0] \in Seq(Numbering) /\ 0 \in 0..Len(m)
      BY <2>0, <2>1
    <3> QED
      BY <3>1
  <2>4. ASSUME NEW n \in 0..Len(m) - 1, n \in S PROVE n + 1 \in S
    <3>1. n + 1 \in 1..Len(m) /\ n + 1 \in 0..Len(m) /\ (n + 1) - 1 = n
      BY <2>0
    <3>2. v[n + 1] = IF Second(m, n + 1) THEN v[n] ELSE Append(v[n], m[n + 1])
      BY <2>2, <3>1
    <3>3. m[n + 1] \in Numbering /\ v[n] \in Seq(Numbering)
      BY <2>0, <2>4, <3>1
    <3>4. Append(v[n], m[n + 1]) \in Seq(Numbering)
      BY <3>3
    <3> QED
      BY <3>1, <3>2, <3>3, <3>4
  <2> HIDE DEF S
  <2>5. \A n \in 0..Len(m) : n \in S
    BY <2>0, <2>3, <2>4, Climb
  <2>6. \A n \in 0..Len(m) : v[n] \in Seq(Numbering)
    BY <2>5 DEF S
  <2>7. v \in [0..Len(m) -> Seq(Numbering)]
    BY <2>1, <2>6
  <2> QED
    BY <2>1, <2>2, <2>7 DEF Squashes
<1> QED
  BY <1>1, <1>5

LEMMA SquashedParts ==
  ASSUME NEW m \in Seq(Numbering)
  PROVE  /\ Squashed(m) \in Seq(Numbering)
         /\ \A i \in 1..Len(Squashed(m)) : \E j \in 1..Len(m) : Squashed(m)[i] = m[j]
<1>1. PICK u : Squashes(m, u) /\ Squashed(m) = u[Len(m)]
  BY SquashedIs
<1>2. /\ Len(m) \in Nat /\ \A i \in 1..Len(m) : m[i] \in Numbering
      /\ \A n \in 0..Len(m) : u[n] \in Seq(Numbering)
      /\ u[0] = << >>
      /\ \A i \in 1..Len(m) :
           u[i] = IF Second(m, i) THEN u[i - 1] ELSE Append(u[i - 1], m[i])
  <2>1. Len(m) \in Nat /\ \A i \in 1..Len(m) : m[i] \in Numbering
    OBVIOUS
  <2>2. \A n \in 0..Len(m) : u[n] \in Seq(Numbering)
    BY <1>1 DEF Squashes
  <2>3. /\ u[0] = << >>
        /\ \A i \in 1..Len(m) :
             u[i] = IF Second(m, i) THEN u[i - 1] ELSE Append(u[i - 1], m[i])
    BY <1>1 DEF Squashes
  <2> QED
    BY <2>1, <2>2, <2>3
<1> DEFINE In(n) == \A i \in 1..Len(u[n]) : \E j \in 1..Len(m) : u[n][i] = m[j]
           S == {n \in 0..Len(m) : In(n)}
<1>3. 0 \in S
  <2>1. Len(u[0]) = 0 /\ 0 \in 0..Len(m)
    BY <1>2
  <2> QED
    BY <2>1
<1>4. ASSUME NEW n \in 0..Len(m) - 1, n \in S PROVE n + 1 \in S
  <2>1. n + 1 \in 1..Len(m) /\ n + 1 \in 0..Len(m) /\ n \in 0..Len(m) /\ (n + 1) - 1 = n
    BY <1>2
  <2>2. In(n) /\ u[n] \in Seq(Numbering) /\ m[n + 1] \in Numbering
    BY <1>2, <1>4, <2>1
  <2>3. u[n + 1] = IF Second(m, n + 1) THEN u[n] ELSE Append(u[n], m[n + 1])
    BY <1>2, <2>1
  <2>4. CASE Second(m, n + 1)
    BY <2>1, <2>2, <2>3, <2>4
  <2>5. CASE ~Second(m, n + 1)
    <3>1. u[n + 1] = Append(u[n], m[n + 1])
      BY <2>3, <2>5
    <3> DEFINE s == u[n]
               t == Append(s, m[n + 1])
    <3>2. /\ Len(t) = Len(s) + 1 /\ Len(s) \in Nat /\ t[Len(s) + 1] = m[n + 1]
          /\ \A i \in 1..Len(s) : t[i] = s[i]
      BY <2>2
    <3> HIDE DEF t
    <3>3. ASSUME NEW i \in 1..Len(t) PROVE \E j \in 1..Len(m) : t[i] = m[j]
      <4>1. i \in 1..Len(s) \/ i = Len(s) + 1
        BY <3>2
      <4> QED
        BY <2>1, <2>2, <3>2, <4>1
    <3>4. In(n + 1)
      BY <3>1, <3>3 DEF t
    <3> QED
      BY <2>1, <3>4
  <2> QED
    BY <2>4, <2>5
<1> HIDE DEF S
<1>5. \A n \in 0..Len(m) : n \in S
  BY <1>2, <1>3, <1>4, Climb
<1>6. Len(m) \in 0..Len(m)
  BY <1>2
<1>7. In(Len(m))
  BY <1>5, <1>6 DEF S
<1> QED
  BY <1>1, <1>2, <1>6, <1>7

\* Unescaping the escaped report gives the report.
LEMMA SquashedEscaped ==
  ASSUME NEW r \in Seq(Bytes), NEW m \in Seq(Numbering), Len(m) = Len(Escaped(r)),
         \A j \in 1..Len(m) : m[j].byte = Escaped(r)[j]
  PROVE  /\ Len(Squashed(m)) = Len(r)
         /\ \A i \in 1..Len(r) : Squashed(m)[i].byte = r[i]
<1> DEFINE e == Escaped(r)
<1>1. PICK at \in [0..Len(r) -> Nat] : Layout(r, e, at)
  BY EscapedLayout
<1>2. PICK u : Squashes(m, u) /\ Squashed(m) = u[Len(m)]
  BY SquashedIs
<1>3. Len(m) = Len(e) /\ \A j \in 1..Len(m) : m[j].byte = e[j]
  OBVIOUS
<1> HIDE DEF e
<1>4. /\ \A i \in 0..Len(r) : at[i] \in Nat
      /\ at[0] = 0 /\ at[Len(r)] = Len(m)
      /\ \A i \in 1..Len(r) :
           /\ at[i] = at[i - 1] + IF r[i] = "DLE" THEN 2 ELSE 1
           /\ at[i] <= Len(m)
           /\ e[at[i - 1] + 1] = r[i]
           /\ r[i] = "DLE" => e[at[i - 1] + 2] = "DLE"
  BY <1>1, <1>3 DEF Layout
<1>5. /\ Len(m) \in Nat /\ \A i \in 1..Len(m) : m[i] \in Numbering
      /\ \A n \in 0..Len(m) : u[n] \in Seq(Numbering)
      /\ u[0] = << >>
      /\ \A i \in 1..Len(m) :
           u[i] = IF Second(m, i) THEN u[i - 1] ELSE Append(u[i - 1], m[i])
  <2>1. Len(m) \in Nat /\ \A i \in 1..Len(m) : m[i] \in Numbering
    OBVIOUS
  <2>2. \A n \in 0..Len(m) : u[n] \in Seq(Numbering)
    BY <1>2 DEF Squashes
  <2>3. /\ u[0] = << >>
        /\ \A i \in 1..Len(m) :
             u[i] = IF Second(m, i) THEN u[i - 1] ELSE Append(u[i - 1], m[i])
    BY <1>2 DEF Squashes
  <2> QED
    BY <2>1, <2>2, <2>3
<1>6. Len(r) \in Nat
  OBVIOUS
<1> DEFINE Is(n) == /\ ~Odd(m, at[n] + 1) /\ Len(u[at[n]]) = n
                    /\ \A i \in 1..n : u[at[n]][i].byte = r[i]
           S == {n \in 0..Len(r) : Is(n)}
<1>7. 0 \in S
  <2>1. 0 \in 0..Len(r) /\ at[0] + 1 = 1 /\ u[at[0]] = << >>
    BY <1>4, <1>5, <1>6
  <2>2. ~Odd(m, at[0] + 1)
    BY <2>1, OddFirst
  <2>3. Is(0)
    BY <2>1, <2>2
  <2> QED
    BY <2>1, <2>3
<1>8. ASSUME NEW n \in 0..Len(r) - 1, n \in S PROVE n + 1 \in S
  <2>0. n \in Nat /\ n \in 0..Len(r) /\ n + 1 \in 1..Len(r) /\ n + 1 \in 0..Len(r) /\ (n + 1) - 1 = n
    BY <1>6
  <2> DEFINE x == at[n]
             y == at[n + 1]
             c == r[n + 1]
             s == u[x]
             t == Append(s, m[x + 1])
  <2>1. /\ x \in Nat /\ y \in Nat /\ y <= Len(m) /\ y = x + IF c = "DLE" THEN 2 ELSE 1
        /\ e[x + 1] = c
        /\ c = "DLE" => e[x + 2] = "DLE"
    BY <1>4, <2>0
  <2>2. ~Odd(m, x + 1) /\ Len(s) = n /\ \A i \in 1..n : s[i].byte = r[i]
    BY <1>8
  <2>a. c = r[n + 1] /\ y = at[n + 1]
    OBVIOUS
  <2> HIDE DEF x, y, c
  <2>3. x \in 0..Len(m) /\ x + 1 \in 1..Len(m) /\ (x + 1) - 1 = x
    BY <1>5, <2>1
  <2>4. m[x + 1].byte = c /\ m[x + 1] \in Numbering /\ s \in Seq(Numbering)
    BY <1>3, <1>5, <2>1, <2>3
  <2>5. u[x + 1] = t
    <3>1. ~Second(m, x + 1)
      BY <2>2 DEF Second
    <3> QED
      BY <1>5, <2>3, <3>1
  <2>6. /\ Len(t) = n + 1 /\ t[n + 1] = m[x + 1]
        /\ \A i \in 1..n : t[i] = s[i]
    BY <2>0, <2>2, <2>4
  <2> HIDE DEF s, t
  <2>7. ASSUME NEW i \in 1..n + 1 PROVE t[i].byte = r[i]
    <3>1. i \in 1..n \/ i = n + 1
      BY <2>0
    <3> QED
      BY <2>2, <2>4, <2>6, <2>a, <3>1
  <2>8. CASE c # "DLE"
    <3>1. y = x + 1
      BY <2>1, <2>8
    <3>2. ~Odd(m, y + 1)
      BY <2>3, <2>4, <2>8, <3>1, OddNext
    <3>3. Is(n + 1)
      BY <2>5, <2>6, <2>7, <2>a, <3>1, <3>2
    <3> QED
      BY <2>0, <3>3
  <2>9. CASE c = "DLE"
    <3>1. y = x + 2 /\ y \in 1..Len(m) /\ y - 1 = x + 1 /\ (x + 1) + 1 = y
      BY <2>1, <2>3, <2>9
    <3>2. Odd(m, y)
      BY <2>2, <2>3, <2>4, <2>9, <3>1, OddNext
    <3>3. m[y].byte = "DLE"
      BY <1>3, <2>1, <2>9, <3>1
    <3>4. ~Odd(m, y + 1)
      BY <3>1, <3>2, OddNext
    <3>5. u[y] = t
      <4>1. Second(m, y)
        BY <3>2, <3>3 DEF Second
      <4> QED
        BY <1>5, <2>5, <3>1, <4>1
    <3>6. Is(n + 1)
      BY <2>6, <2>7, <2>a, <3>4, <3>5
    <3> QED
      BY <2>0, <3>6
  <2> QED
    BY <2>8, <2>9
<1> HIDE DEF S
<1>9. \A n \in 0..Len(r) : n \in S
  BY <1>6, <1>7, <1>8, Climb
<1>10. Len(r) \in 0..Len(r)
  BY <1>6
<1>11. Is(Len(r))
  BY <1>9, <1>10 DEF S
<1> QED
  BY <1>2, <1>4, <1>11

----------------------------------------------------------------------------
(* The stream, and what a step does to it.                                 *)

\* What has been sent and neither taken nor dropped.
Rest == buffer \o wire

TypeInv ==
  /\ wire \in Seq(Numbering) /\ buffer \in Seq(Numbering)
  /\ sent \in Seq(Reports)
  /\ extracted \in Seq(Seq(Numbering))

LEMMA RestAt ==
  ASSUME TypeInv
  PROVE  /\ Rest \in Seq(Numbering) /\ Len(Rest) \in Nat
         /\ Len(Rest) = Len(buffer) + Len(wire)
         /\ \A i \in 1..Len(buffer) : Rest[i] = buffer[i]
         /\ \A i \in 1..Len(wire) : Rest[Len(buffer) + i] = wire[i]
         /\ Len(buffer) \in Nat /\ Len(wire) \in Nat /\ Len(sent) \in Nat
  BY ConcatAt DEF TypeInv, Rest

Cut(p, q) == IsCut(Rest, Rest', p, q)

IsStop(b, i) == b[i].byte = "ETX" /\ Odd(b, i)

Grows(r) ==
  /\ Rest' = Rest \o Numbered(Frame(r), Len(sent) + 1)
  /\ sent' = Append(sent, r)
  /\ UNCHANGED <<extracted, damaged, result>>

Loses(p, q) ==
  /\ Cut(p, q) /\ result' \in {result, "none"}
  /\ damaged' = damaged \cup {Rest[i].msg : i \in p + 1..q}
  /\ UNCHANGED <<sent, extracted>>

\* What the buffer is cut by is not the start of a frame.
Strips(g) ==
  /\ Cut(0, g) /\ result' = "none"
  /\ \A i \in 1..g : Rest[i].byte # "DLE"
  /\ UNCHANGED <<sent, extracted, damaged>>

\* After g bytes of garbage, the buffer b is cut at its first stop codon, at s.
Takes(g, s, b) ==
  /\ Cut(0, g + s)
  /\ \A i \in 1..g : Rest[i].byte # "DLE"
  /\ b \in Seq(Numbering) /\ g + Len(b) <= Len(Rest)
  /\ \A i \in 1..Len(b) : b[i] = Rest[g + i]
  /\ s \in 1..Len(b) /\ IsStop(b, s) /\ \A i \in 1..s - 1 : ~IsStop(b, i)
  /\ extracted' = Append(extracted, Squashed(SubSeq(b, 2, s - 2)))
  /\ result' = Outcome(Plain(Squashed(SubSeq(b, 2, s - 2))))
  /\ UNCHANGED <<sent, damaged>>

LEMMA CutTwice ==
  ASSUME NEW r, NEW s, NEW t, NEW p, NEW q, Len(r) \in Nat,
         IsCut(r, s, 0, p), IsCut(s, t, 0, q)
  PROVE  IsCut(r, t, 0, p + q)
<1>1. /\ p \in Nat /\ p <= Len(r) /\ Len(s) = Len(r) - p
      /\ \A i \in 1..Len(s) : s[i] = r[i + p]
  BY DEF IsCut
<1>2. /\ q \in Nat /\ q <= Len(s) /\ Len(t) = Len(s) - q
      /\ \A i \in 1..Len(t) : t[i] = s[i + q]
  BY <1>1 DEF IsCut
<1>3. p + q \in Nat /\ p + q <= Len(r) /\ Len(t) = Len(r) - (p + q)
  BY <1>1, <1>2
<1>4. ASSUME NEW i \in 1..Len(t) PROVE t[i] = r[i + (p + q)] /\ ~(i <= 0)
  <2>1. i + q \in 1..Len(s) /\ (i + q) + p = i + (p + q)
    BY <1>1, <1>2
  <2> QED
    BY <1>1, <1>2, <2>1
<1>5. p + q - 0 = p + q /\ 0 \in Nat /\ 0 <= p + q
  BY <1>1, <1>2
<1> QED
  BY <1>3, <1>4, <1>5 DEF IsCut

LEMMA ContentIs ==
  ASSUME NEW b \in Seq(Numbering), NEW s \in 1..Len(b)
  PROVE  /\ SubSeq(b, 2, s - 2) \in Seq(Numbering)
         /\ Len(SubSeq(b, 2, s - 2)) = IF s >= 3 THEN s - 3 ELSE 0
         /\ \A i \in 1..s - 3 : SubSeq(b, 2, s - 2)[i] = b[i + 1]
<1>1. Len(b) \in Nat
  OBVIOUS
<1>2. CASE s >= 3
  BY <1>1, <1>2
<1>3. CASE ~(s >= 3)
  <2>1. SubSeq(b, 2, s - 2) = << >>
    BY <1>1, <1>3
  <2> QED
    BY <1>1, <1>3, <2>1
<1> QED
  BY <1>2, <1>3

LEMMA GarbageIs ==
  ASSUME NEW v \in Seq(Numbering)
  PROVE  \E g \in 0..Len(v) : /\ StripGarbage(v) = SubSeq(v, g + 1, Len(v))
                              /\ \A i \in 1..g : v[i].byte # "DLE"
<1>1. DOMAIN v = 1..Len(v) /\ Len(v) \in Nat
  OBVIOUS
<1>2. CASE DLEs(v) = {}
  <2>1. StripGarbage(v) = v
    BY <1>2 DEF StripGarbage
  <2>2. SubSeq(v, 0 + 1, Len(v)) = v
    OBVIOUS
  <2> QED
    BY <1>1, <2>1, <2>2
<1>3. CASE DLEs(v) # {}
  <2>1. DLEs(v) \in SUBSET Nat
    BY <1>1 DEF DLEs
  <2> DEFINE m == Min(DLEs(v))
  <2>2. m \in DLEs(v) /\ \A i \in DLEs(v) : m <= i
    BY <1>3, <2>1, MinIs
  <2>3. StripGarbage(v) = SubSeq(v, m, Len(v))
    BY <1>3 DEF StripGarbage
  <2> HIDE DEF m
  <2>4. m \in 1..Len(v) /\ m - 1 \in 0..Len(v) /\ (m - 1) + 1 = m
    BY <1>1, <2>2 DEF DLEs
  <2>5. ASSUME NEW i \in 1..m - 1 PROVE v[i].byte # "DLE"
    <3>1. i \in 1..Len(v) /\ ~(m <= i)
      BY <1>1, <2>4
    <3> QED
      BY <1>1, <2>2, <3>1 DEF DLEs
  <2> QED
    BY <2>3, <2>4, <2>5
<1> QED
  BY <1>2, <1>3

LEMMA StopIs ==
  ASSUME NEW b \in Seq(Numbering), StopCodon(b) # 0
  PROVE  /\ StopCodon(b) \in 1..Len(b) /\ IsStop(b, StopCodon(b))
         /\ \A i \in 1..StopCodon(b) - 1 : ~IsStop(b, i)
<1> DEFINE stops == {i \in DOMAIN b : b[i].byte = "ETX" /\ DLEsBefore(b, i) % 2 = 1}
           s == Min(stops)
<1>1. DOMAIN b = 1..Len(b) /\ Len(b) \in Nat
  OBVIOUS
<1>2. stops # {} /\ StopCodon(b) = s
  BY DEF StopCodon
<1>3. stops \in SUBSET Nat
  BY <1>1
<1>4. \A i \in 1..Len(b) : i \in stops <=> IsStop(b, i)
  BY <1>1 DEF IsStop, Odd
<1>5. \A i \in stops : i \in 1..Len(b)
  BY <1>1
<1> HIDE DEF stops
<1>6. s \in stops /\ \A i \in stops : s <= i
  BY <1>2, <1>3, MinIs
<1> HIDE DEF s
<1>7. s \in 1..Len(b) /\ IsStop(b, s)
  BY <1>4, <1>5, <1>6
<1>8. ASSUME NEW i \in 1..s - 1 PROVE ~IsStop(b, i)
  <2>1. i \in 1..Len(b) /\ ~(s <= i)
    BY <1>1, <1>7
  <2> QED
    BY <1>4, <1>6, <2>1
<1> QED
  BY <1>2, <1>7, <1>8

LEMMA NumberedAt ==
  ASSUME NEW f \in Seq(Bytes), NEW n \in Nat
  PROVE  /\ Numbered(f, n) \in Seq(Numbering) /\ Len(Numbered(f, n)) = Len(f)
         /\ \A i \in 1..Len(f) :
              Numbered(f, n)[i].byte = f[i] /\ Numbered(f, n)[i].msg = n
<1>1. /\ Len(f) \in Nat /\ DOMAIN f = 1..Len(f)
      /\ \A i \in 1..Len(f) : f[i] \in Bytes
  OBVIOUS
<1> DEFINE b(i) == [byte |-> f[i], msg |-> n]
<1>2. \A i \in 1..Len(f) : b(i) \in Numbering /\ b(i).byte = f[i] /\ b(i).msg = n
  BY <1>1 DEF Numbering
<1> HIDE DEF b
<1>3. [i \in 1..Len(f) |-> b(i)] \in Seq(Numbering)
  BY <1>1, <1>2
<1>4. Numbered(f, n) = [i \in 1..Len(f) |-> b(i)]
  BY <1>1 DEF Numbered, b
<1>5. Len([i \in 1..Len(f) |-> b(i)]) = Len(f)
  BY <1>1
<1> QED
  BY <1>2, <1>3, <1>4, <1>5

LEMMA SendStep ==
  ASSUME TypeInv, NEW r \in Reports, Send(r)
  PROVE  TypeInv' /\ Grows(r)
<1> DEFINE t == Numbered(Frame(r), Len(sent) + 1)
<1>1. t \in Seq(Numbering)
  <2>1. Frame(r) \in Seq(Bytes)
    BY FrameIs
  <2>2. Len(sent) + 1 \in Nat
    BY RestAt
  <2> QED
    BY <2>1, <2>2, NumberedAt
<1>2. /\ wire' = wire \o t /\ buffer' = buffer /\ sent' = Append(sent, r)
      /\ UNCHANGED <<extracted, damaged, result>>
  BY DEF Send
<1> HIDE DEF t
<1>3. wire \in Seq(Numbering) /\ buffer \in Seq(Numbering)
  BY DEF TypeInv
<1>4. wire' \in Seq(Numbering) /\ sent' \in Seq(Reports)
  BY <1>1, <1>2, <1>3 DEF TypeInv
<1>5. (buffer \o wire) \o t = buffer \o (wire \o t)
  BY <1>1, <1>3
<1>6. Rest' = Rest \o t
  BY <1>2, <1>5 DEF Rest
<1>7. TypeInv'
  BY <1>2, <1>4 DEF TypeInv
<1> QED
  BY <1>2, <1>6, <1>7 DEF Grows, t

LEMMA OverrunStep ==
  ASSUME TypeInv, NEW from \in 1..Len(wire), NEW to \in 1..Len(wire), from <= to,
         Overrun(from, to)
  PROVE  TypeInv' /\ \E p, q \in Nat : Loses(p, q)
<1>1. /\ wire \in Seq(Numbering) /\ buffer \in Seq(Numbering)
      /\ Len(wire) \in Nat /\ Len(buffer) \in Nat
  BY DEF TypeInv
<1> DEFINE p == from - 1
           front == SubSeq(wire, 1, p)
           back == SubSeq(wire, to + 1, Len(wire))
           lost == SubSeq(wire, from, to)
<1>2. p \in 0..Len(wire) /\ to \in 0..Len(wire) /\ p <= to /\ from = p + 1
  BY <1>1
<1>3. front \in Seq(Numbering) /\ back \in Seq(Numbering)
  BY <1>1, <1>2, TakeAt, DropAt
<1>4. /\ wire' = front \o back /\ buffer' = buffer
      /\ damaged' = damaged \cup NumbersIn(lost)
      /\ UNCHANGED <<result, sent, extracted>>
  BY DEF Overrun
<1>5. /\ DOMAIN lost = 1..(to - p)
      /\ \A i \in 1..(to - p) : lost[i] = wire[p + i]
  BY <1>1, <1>2
<1> HIDE DEF p, front, back, lost
<1>6. wire' \in Seq(Numbering)
  BY <1>3, <1>4
<1>7. TypeInv'
  BY <1>4, <1>6 DEF TypeInv
<1> DEFINE a == Len(buffer) + p
           z == Len(buffer) + to
<1>8. IsCut(buffer \o wire, buffer \o (front \o back), a, z)
  BY <1>1, <1>2, CutMiddle DEF front, back
<1>9. a \in Nat /\ z \in Nat /\ a <= z
  BY <1>1, <1>2
<1>10. Cut(a, z)
  BY <1>4, <1>8 DEF Cut, Rest
<1>11. NumbersIn(lost) = {Rest[i].msg : i \in a + 1..z}
  <2>1. ASSUME NEW i \in 1..(to - p)
        PROVE  Len(buffer) + (p + i) \in a + 1..z /\ lost[i] = Rest[Len(buffer) + (p + i)]
    <3>1. p + i \in 1..Len(wire)
      BY <1>1, <1>2
    <3>2. Rest[Len(buffer) + (p + i)] = wire[p + i]
      BY <3>1, RestAt
    <3>3. Len(buffer) + (p + i) \in a + 1..z
      BY <1>1, <1>2
    <3> QED
      BY <1>5, <3>2, <3>3
  <2>2. ASSUME NEW k \in a + 1..z
        PROVE  k - a \in 1..(to - p) /\ Rest[k] = lost[k - a]
    <3> DEFINE i == k - a
    <3>1. i \in 1..(to - p) /\ Len(buffer) + (p + i) = k
      BY <1>1, <1>2
    <3> HIDE DEF i
    <3>2. Rest[k] = lost[i]
      BY <2>1, <3>1
    <3> QED
      BY <3>1, <3>2 DEF i
  <2>3. NumbersIn(lost) = {lost[i].msg : i \in 1..(to - p)}
    BY <1>5 DEF NumbersIn
  <2> HIDE DEF a, z
  <2> QED
    BY <2>1, <2>2, <2>3
<1>12. Loses(a, z)
  BY <1>4, <1>10, <1>11 DEF Loses
<1> QED
  BY <1>7, <1>9, <1>12

LEMMA FlushStep ==
  ASSUME TypeInv, NEW n \in 0..Len(wire), Flush(n)
  PROVE  TypeInv' /\ \E p, q \in Nat : Loses(p, q)
<1>1. /\ wire \in Seq(Numbering) /\ buffer \in Seq(Numbering)
      /\ Len(wire) \in Nat /\ Len(buffer) \in Nat
  BY DEF TypeInv
<1> DEFINE back == SubSeq(wire, n + 1, Len(wire))
           front == SubSeq(wire, 1, n)
           lost == buffer \o front
<1>2. back \in Seq(Numbering)
  BY <1>1, DropAt
<1>3. front \in Seq(Numbering) /\ Len(front) = n /\ \A i \in 1..n : front[i] = wire[i]
  BY <1>1, TakeAt
<1>4. /\ wire' = back /\ buffer' = << >> /\ result' = "none"
      /\ damaged' = damaged \cup NumbersIn(lost)
      /\ UNCHANGED <<sent, extracted>>
  BY DEF Flush
<1>5. IsCut(buffer \o wire, << >> \o back, 0, Len(buffer) + n)
  BY <1>1, CutMore
<1> HIDE DEF back, front
<1>6. TypeInv'
  BY <1>2, <1>4 DEF TypeInv
<1>7. lost \in Seq(Numbering) /\ Len(lost) = Len(buffer) + n
  <2>1. lost \in Seq(Numbering) /\ Len(lost) = Len(buffer) + Len(front)
    <3>1. buffer \in Seq(Numbering) /\ front \in Seq(Numbering)
      BY <1>1, <1>3
    <3> QED
      BY <3>1
  <2> QED
    BY <1>3, <2>1
<1>a. Rest = lost \o back
  BY <1>1, Moved DEF Rest, back, front
<1> HIDE DEF lost
<1> DEFINE z == Len(buffer) + n
<1>8. z \in Nat /\ Cut(0, z)
  BY <1>1, <1>4, <1>5 DEF Cut, Rest
<1>9. \A i \in 1..z : Rest[i] = lost[i]
  BY <1>2, <1>7, <1>a
<1>10. NumbersIn(lost) = {Rest[i].msg : i \in 0 + 1..z}
  <2>1. DOMAIN lost = 1..z /\ 0 + 1 = 1
    BY <1>7
  <2> HIDE DEF z
  <2> QED
    BY <1>9, <2>1 DEF NumbersIn
<1>11. Loses(0, z)
  BY <1>4, <1>8, <1>10 DEF Loses
<1> QED
  BY <1>6, <1>8, <1>11

LEMMA ReadStep ==
  ASSUME TypeInv, NEW n \in 0..Len(wire), ReadMessage(n)
  PROVE  /\ TypeInv'
         /\ \/ \E g \in Nat : Strips(g)
            \/ \E g, s \in Nat : \E b \in Seq(Numbering) : Takes(g, s, b)
<1>1. /\ wire \in Seq(Numbering) /\ buffer \in Seq(Numbering)
      /\ Len(wire) \in Nat /\ Len(buffer) \in Nat
      /\ extracted \in Seq(Seq(Numbering))
  BY DEF TypeInv
<1> DEFINE w == SubSeq(wire, n + 1, Len(wire))
           front == SubSeq(wire, 1, n)
           v == buffer \o front
           b == StripGarbage(v)
<1>2. w \in Seq(Numbering)
  BY <1>1, DropAt
<1>3. front \in Seq(Numbering)
  BY <1>1, TakeAt
<1>4. v \o w = Rest
  BY <1>1, Moved DEF Rest
<1>5. wire' = w /\ ExtractFrom(b) /\ UNCHANGED <<sent, damaged>>
  BY DEF ReadMessage
<1> HIDE DEF w, front
<1>6. v \in Seq(Numbering)
  BY <1>1, <1>3
<1> HIDE DEF v
<1>7. PICK g \in 0..Len(v) : /\ b = SubSeq(v, g + 1, Len(v))
                             /\ \A i \in 1..g : v[i].byte # "DLE"
  BY <1>6, GarbageIs
<1> HIDE DEF b
<1>8. /\ b \in Seq(Numbering) /\ Len(b) = Len(v) - g
      /\ \A i \in 1..(Len(v) - g) : b[i] = v[i + g]
  BY <1>6, <1>7, DropAt
<1>9. /\ Len(v) \in Nat /\ Len(w) \in Nat /\ Len(b) \in Nat /\ g \in Nat
      /\ Len(Rest) = Len(v) + Len(w) /\ \A i \in 1..Len(v) : Rest[i] = v[i]
  <2>1. Len(v \o w) = Len(v) + Len(w) /\ \A i \in 1..Len(v) : (v \o w)[i] = v[i]
    BY <1>2, <1>6, ConcatAt
  <2>2. Len(v) \in Nat /\ Len(w) \in Nat /\ Len(b) \in Nat
    BY <1>2, <1>6, <1>8
  <2> QED
    BY <1>4, <2>1, <2>2
<1>10. IsCut(v \o w, b \o w, 0, g)
  BY <1>2, <1>6, <1>7, CutFront
<1>11. \A i \in 1..g : Rest[i].byte # "DLE"
  <2>1. \A i \in 1..g : i \in 1..Len(v)
    BY <1>9
  <2> QED
    BY <1>7, <1>9, <2>1
<1>12. CASE StopCodon(b) = 0
  <2>1. buffer' = b /\ result' = "none" /\ extracted' = extracted
    BY <1>5, <1>12 DEF ExtractFrom
  <2>2. Rest' = b \o w
    BY <1>5, <2>1 DEF Rest
  <2>3. Cut(0, g)
    BY <1>4, <1>10, <2>2 DEF Cut
  <2>4. Strips(g)
    BY <1>5, <1>11, <2>1, <2>3 DEF Strips
  <2>5. TypeInv'
    BY <1>2, <1>5, <1>8, <2>1 DEF TypeInv
  <2> QED
    BY <1>9, <2>4, <2>5
<1>13. CASE StopCodon(b) # 0
  <2> DEFINE s == StopCodon(b)
             back == SubSeq(b, s + 1, Len(b))
             m == SubSeq(b, 2, s - 2)
  <2>1. s \in 1..Len(b) /\ IsStop(b, s) /\ \A i \in 1..s - 1 : ~IsStop(b, i)
    BY <1>8, <1>13, StopIs
  <2>2. /\ buffer' = back /\ extracted' = Append(extracted, Squashed(m))
        /\ result' = Outcome(Plain(Last(extracted')))
    BY <1>5, <1>13 DEF ExtractFrom
  <2> HIDE DEF s
  <2>3. m \in Seq(Numbering)
    BY <1>8, <2>1, ContentIs
  <2>4. s \in 0..Len(b) /\ s \in Nat
    BY <1>9, <2>1
  <2>5. back \in Seq(Numbering) /\ IsCut(b \o w, back \o w, 0, s)
    BY <1>2, <1>8, <2>4, DropAt, CutFront
  <2> HIDE DEF m, back
  <2>6. Squashed(m) \in Seq(Numbering)
    BY <2>3, SquashedParts
  <2>7. extracted' \in Seq(Seq(Numbering)) /\ Last(extracted') = Squashed(m)
    <3> DEFINE q == Squashed(m)
    <3> HIDE DEF q
    <3>1. Len(Append(extracted, q)) = Len(extracted) + 1 /\ Append(extracted, q)[Len(extracted) + 1] = q
      BY <1>1, <2>6 DEF q
    <3> QED
      BY <1>1, <2>2, <2>6, <3>1 DEF Last, q
  <2>8. Rest' = back \o w
    BY <1>5, <2>2 DEF Rest
  <2>9. Cut(0, g + s)
    <3>1. Len(v \o w) \in Nat
      BY <1>4, <1>9
    <3> QED
      BY <1>4, <1>10, <2>5, <2>8, <3>1, CutTwice DEF Cut
  <2>10. ASSUME NEW i \in 1..Len(b) PROVE b[i] = Rest[g + i]
    <3>1. i \in 1..(Len(v) - g) /\ g + i \in 1..Len(v) /\ i + g = g + i
      BY <1>8, <1>9
    <3> QED
      BY <1>8, <1>9, <3>1
  <2>11. g + Len(b) <= Len(Rest)
    BY <1>8, <1>9
  <2>12. Takes(g, s, b)
    BY <1>5, <1>8, <1>11, <2>1, <2>2, <2>7, <2>9, <2>10, <2>11 DEF Takes, m
  <2>13. TypeInv'
    BY <1>2, <1>5, <2>2, <2>5, <2>7 DEF TypeInv
  <2> QED
    BY <1>8, <1>9, <2>4, <2>12, <2>13
<1> QED
  BY <1>12, <1>13

LEMMA Step ==
  ASSUME TypeInv, Next
  PROVE  /\ TypeInv'
         /\ \/ \E r \in Reports : Grows(r)
            \/ \E p, q \in Nat : Loses(p, q)
            \/ \E g \in Nat : Strips(g)
            \/ \E g, s \in Nat : \E b \in Seq(Numbering) : Takes(g, s, b)
<1>1. CASE \E r \in Reports : Send(r)
  BY <1>1, SendStep
<1>2. CASE \E from, to \in 1..Len(wire) : from <= to /\ Overrun(from, to)
  BY <1>2, OverrunStep
<1>3. CASE \E n \in 0..Len(wire) : Flush(n)
  BY <1>3, FlushStep
<1>4. CASE \E n \in 0..Len(wire) : ReadMessage(n)
  BY <1>4, ReadStep
<1> QED
  BY <1>1, <1>2, <1>3, <1>4 DEF Next

----------------------------------------------------------------------------
(* A frame in the stream.                                                  *)

\* f is all of report m that there is in R; it begins after x bytes of the
\* reports before it, and those after it follow.
Placed(R, f, m, x) ==
  /\ x \in Nat /\ x + Len(f) <= Len(R)
  /\ \A i \in 1..Len(f) : R[x + i].byte = f[i] /\ R[x + i].msg = m
  /\ \A i \in 1..x : R[i].msg < m
  /\ \A i \in 1..Len(R) : i > x + Len(f) => R[i].msg > m

Gone(R, m) == \A i \in 1..Len(R) : R[i].msg > m

LEMMA CutOld ==
  ASSUME NEW R, NEW R2, NEW p, NEW q, Len(R) \in Nat, IsCut(R, R2, p, q)
  PROVE  \A i \in 1..Len(R2) : \E j \in 1..Len(R) : R2[i] = R[j]
<1>1. /\ p \in Nat /\ q \in Nat /\ p <= q /\ q <= Len(R) /\ Len(R2) = Len(R) - (q - p)
      /\ \A i \in 1..Len(R2) : R2[i] = IF i <= p THEN R[i] ELSE R[i + (q - p)]
  BY DEF IsCut
<1>2. TAKE i \in 1..Len(R2)
<1>3. CASE i <= p
  <2>1. i \in 1..Len(R)
    BY <1>1
  <2> QED
    BY <1>1, <1>3, <2>1
<1>4. CASE ~(i <= p)
  <2>1. i + (q - p) \in 1..Len(R)
    BY <1>1
  <2> QED
    BY <1>1, <1>4, <2>1
<1> QED
  BY <1>3, <1>4

LEMMA GoneCut ==
  ASSUME NEW R, NEW R2, NEW p, NEW q, NEW m, Len(R) \in Nat, IsCut(R, R2, p, q), Gone(R, m)
  PROVE  Gone(R2, m)
  BY CutOld DEF Gone

LEMMA PlacedCut ==
  ASSUME NEW R, NEW R2, NEW p, NEW q, NEW f, NEW m, NEW x,
         Len(R) \in Nat, Len(f) \in Nat, IsCut(R, R2, p, q), Placed(R, f, m, x),
         q <= x \/ p >= x + Len(f)
  PROVE  \E y \in Nat : Placed(R2, f, m, y)
<1>1. /\ p \in Nat /\ q \in Nat /\ p <= q /\ q <= Len(R) /\ Len(R2) = Len(R) - (q - p)
      /\ \A i \in 1..Len(R2) : R2[i] = IF i <= p THEN R[i] ELSE R[i + (q - p)]
  BY DEF IsCut
<1>2. /\ x \in Nat /\ x + Len(f) <= Len(R)
      /\ \A i \in 1..Len(f) : R[x + i].byte = f[i] /\ R[x + i].msg = m
      /\ \A i \in 1..x : R[i].msg < m
      /\ \A i \in 1..Len(R) : i > x + Len(f) => R[i].msg > m
  BY DEF Placed
<1>3. CASE q <= x
  <2> DEFINE y == x - (q - p)
  <2>1. y \in Nat /\ y >= p /\ y <= x /\ y + Len(f) <= Len(R2) /\ y + (q - p) = x
    BY <1>1, <1>2, <1>3
  <2> HIDE DEF y
  <2>2. ASSUME NEW i \in 1..Len(f) PROVE R2[y + i].byte = f[i] /\ R2[y + i].msg = m
    <3>1. y + i \in 1..Len(R2) /\ ~(y + i <= p) /\ (y + i) + (q - p) = x + i
      BY <1>1, <1>2, <2>1
    <3>2. R2[y + i] = R[x + i]
      BY <1>1, <3>1
    <3> QED
      BY <1>2, <3>2
  <2>3. ASSUME NEW i \in 1..y PROVE R2[i].msg < m
    <3>1. i \in 1..Len(R2) /\ i \in 1..x /\ (~(i <= p) => i + (q - p) \in 1..x)
      BY <1>1, <1>2, <2>1
    <3>2. R2[i] = R[i] \/ (~(i <= p) /\ R2[i] = R[i + (q - p)])
      BY <1>1, <3>1
    <3> QED
      BY <1>2, <3>1, <3>2
  <2>4. ASSUME NEW i \in 1..Len(R2), i > y + Len(f) PROVE R2[i].msg > m
    <3>1. /\ ~(i <= p) /\ i + (q - p) \in 1..Len(R)
          /\ i + (q - p) > x + Len(f)
      BY <1>1, <1>2, <2>1, <2>4
    <3>2. R2[i] = R[i + (q - p)]
      BY <1>1, <3>1
    <3> QED
      BY <1>2, <3>1, <3>2
  <2>5. Placed(R2, f, m, y)
    BY <2>1, <2>2, <2>3, <2>4 DEF Placed
  <2> QED
    BY <2>1, <2>5
<1>4. CASE p >= x + Len(f)
  <2>1. x + Len(f) <= Len(R2)
    BY <1>1, <1>2, <1>4
  <2>2. ASSUME NEW i \in 1..Len(R2), i <= x + Len(f) PROVE R2[i] = R[i]
    <3>1. i <= p
      BY <1>1, <1>2, <1>4, <2>2
    <3> QED
      BY <1>1, <3>1
  <2>3. ASSUME NEW i \in 1..Len(f) PROVE R2[x + i].byte = f[i] /\ R2[x + i].msg = m
    <3>1. x + i \in 1..Len(R2) /\ x + i <= x + Len(f)
      BY <1>1, <1>2, <2>1
    <3> QED
      BY <1>2, <2>2, <3>1
  <2>4. ASSUME NEW i \in 1..x PROVE R2[i].msg < m
    <3>1. i \in 1..Len(R2) /\ i <= x + Len(f)
      BY <1>1, <1>2, <2>1
    <3> QED
      BY <1>2, <2>2, <3>1
  <2>5. ASSUME NEW i \in 1..Len(R2), i > x + Len(f) PROVE R2[i].msg > m
    <3>1. /\ i \in 1..Len(R) /\ i + (q - p) \in 1..Len(R)
          /\ i + (q - p) > x + Len(f)
      BY <1>1, <1>2, <2>5
    <3>2. R2[i] = R[i] \/ R2[i] = R[i + (q - p)]
      BY <1>1
    <3> QED
      BY <1>2, <2>5, <3>1, <3>2
  <2>6. Placed(R2, f, m, x)
    BY <1>2, <2>1, <2>3, <2>4, <2>5 DEF Placed
  <2> QED
    BY <1>2, <2>6
<1> QED
  BY <1>3, <1>4

LEMMA PlacedLoses ==
  ASSUME NEW R, NEW R2, NEW p, NEW q, NEW f, NEW m, NEW x,
         Len(R) \in Nat, Len(f) \in Nat, Len(f) >= 1,
         IsCut(R, R2, p, q), Placed(R, f, m, x), m \notin {R[i].msg : i \in p + 1..q}
  PROVE  \E y \in Nat : Placed(R2, f, m, y)
<1>1. /\ p \in Nat /\ q \in Nat /\ p <= q /\ q <= Len(R) /\ Len(R2) = Len(R) - (q - p)
      /\ \A i \in 1..Len(R2) : R2[i] = IF i <= p THEN R[i] ELSE R[i + (q - p)]
  BY DEF IsCut
<1>2. /\ x \in Nat /\ x + Len(f) <= Len(R)
      /\ \A i \in 1..Len(f) : R[x + i].byte = f[i] /\ R[x + i].msg = m
      /\ \A i \in 1..x : R[i].msg < m
      /\ \A i \in 1..Len(R) : i > x + Len(f) => R[i].msg > m
  BY DEF Placed
<1>3. CASE p = q
  <2>1. Len(R2) = Len(R) /\ \A i \in 1..Len(R2) : i + (q - p) = i
    BY <1>1, <1>3
  <2>2. ASSUME NEW i \in 1..Len(R) PROVE R2[i] = R[i]
    <3>1. i \in 1..Len(R2) /\ i + (q - p) = i
      BY <2>1
    <3> QED
      BY <1>1, <3>1
  <2>3. \A i \in 1..Len(f) : x + i \in 1..Len(R)
    BY <1>2
  <2>4. \A i \in 1..x : i \in 1..Len(R)
    BY <1>2
  <2>5. Placed(R2, f, m, x)
    BY <1>2, <2>1, <2>2, <2>3, <2>4 DEF Placed
  <2> QED
    BY <1>2, <2>5
<1>4. CASE p # q
  <2>1. q <= x \/ p >= x + Len(f)
    <3>1. SUFFICES ASSUME ~(q <= x), ~(p >= x + Len(f)) PROVE FALSE
      OBVIOUS
    <3> DEFINE j == IF p <= x THEN 1 ELSE p + 1 - x
    <3>2. j \in 1..Len(f) /\ x + j \in p + 1..q
      BY <1>1, <1>2, <1>4, <3>1
    <3> HIDE DEF j
    <3>3. R[x + j].msg = m
      BY <1>2, <3>2
    <3> QED
      BY <3>2, <3>3
  <2> QED
    BY <2>1, PlacedCut
<1> QED
  BY <1>3, <1>4

LEMMA PlacedTaken ==
  ASSUME NEW R, NEW R2, NEW q, NEW f, NEW m, NEW x, Len(R) \in Nat, Len(f) \in Nat,
         IsCut(R, R2, 0, q), Placed(R, f, m, x), q >= x + Len(f)
  PROVE  Gone(R2, m)
<1>1. /\ q \in Nat /\ q <= Len(R) /\ Len(R2) = Len(R) - q
      /\ \A i \in 1..Len(R2) : R2[i] = R[i + q]
  BY DEF IsCut
<1>2. x \in Nat /\ \A i \in 1..Len(R) : i > x + Len(f) => R[i].msg > m
  BY DEF Placed
<1>3. \A i \in 1..Len(R2) : i + q \in 1..Len(R) /\ i + q > x + Len(f)
  BY <1>1, <1>2
<1> QED
  BY <1>1, <1>2, <1>3 DEF Gone

LEMMA PlacedGrown ==
  ASSUME NEW R \in Seq(Numbering), NEW t \in Seq(Numbering), NEW f, NEW m, NEW x,
         Len(f) \in Nat, Placed(R, f, m, x), \A i \in 1..Len(t) : t[i].msg > m
  PROVE  Placed(R \o t, f, m, x)
<1>1. /\ Len(R) \in Nat /\ Len(t) \in Nat /\ Len(R \o t) = Len(R) + Len(t)
      /\ \A i \in 1..Len(R) : (R \o t)[i] = R[i]
      /\ \A i \in 1..Len(t) : (R \o t)[Len(R) + i] = t[i]
  BY ConcatAt
<1>2. /\ x \in Nat /\ x + Len(f) <= Len(R)
      /\ \A i \in 1..Len(f) : R[x + i].byte = f[i] /\ R[x + i].msg = m
      /\ \A i \in 1..x : R[i].msg < m
      /\ \A i \in 1..Len(R) : i > x + Len(f) => R[i].msg > m
  BY DEF Placed
<1> DEFINE R2 == R \o t
<1> HIDE DEF R2
<1>3. /\ Len(R2) = Len(R) + Len(t)
      /\ \A i \in 1..Len(R) : R2[i] = R[i]
      /\ \A i \in 1..Len(t) : R2[Len(R) + i] = t[i]
  BY <1>1 DEF R2
<1>4. \A i \in 1..Len(f) : x + i \in 1..Len(R)
  BY <1>1, <1>2
<1>5. \A i \in 1..x : i \in 1..Len(R)
  BY <1>1, <1>2
<1>6. ASSUME NEW i \in 1..Len(R2), i > x + Len(f) PROVE R2[i].msg > m
  <2>1. CASE i <= Len(R)
    <3>1. i \in 1..Len(R)
      BY <1>1, <2>1
    <3> QED
      BY <1>2, <1>3, <1>6, <3>1
  <2>2. CASE ~(i <= Len(R))
    <3> DEFINE j == i - Len(R)
    <3>1. j \in 1..Len(t) /\ Len(R) + j = i
      BY <1>1, <1>3, <2>2
    <3> HIDE DEF j
    <3> QED
      BY <1>3, <3>1
  <2> QED
    BY <2>1, <2>2
<1>7. x + Len(f) <= Len(R2)
  BY <1>1, <1>2, <1>3
<1>8. Placed(R2, f, m, x)
  BY <1>2, <1>3, <1>4, <1>5, <1>6, <1>7 DEF Placed
<1> QED
  BY <1>8 DEF R2

LEMMA NewPlaced ==
  ASSUME NEW R \in Seq(Numbering), NEW f \in Seq(Bytes), NEW n \in Nat,
         \A i \in 1..Len(R) : R[i].msg < n
  PROVE  Placed(R \o Numbered(f, n), f, n, Len(R))
<1> DEFINE t == Numbered(f, n)
<1>1. /\ t \in Seq(Numbering) /\ Len(t) = Len(f)
      /\ \A i \in 1..Len(f) : t[i].byte = f[i] /\ t[i].msg = n
  BY NumberedAt
<1> HIDE DEF t
<1>2. /\ Len(R) \in Nat /\ Len(R \o t) = Len(R) + Len(t)
      /\ \A i \in 1..Len(R) : (R \o t)[i] = R[i]
      /\ \A i \in 1..Len(t) : (R \o t)[Len(R) + i] = t[i]
  <2>1. t \in Seq(Numbering)
    BY <1>1
  <2> QED
    BY <2>1, ConcatAt
<1>3. Len(f) \in Nat
  OBVIOUS
<1>4. \A i \in 1..Len(R \o t) : ~(i > Len(R) + Len(f))
  BY <1>1, <1>2, <1>3
<1>5. Len(R) + Len(f) <= Len(R \o t)
  BY <1>1, <1>2, <1>3
<1>6. Placed(R \o t, f, n, Len(R))
  BY <1>1, <1>2, <1>4, <1>5 DEF Placed
<1> QED
  BY <1>6 DEF t

\* Garbage is stripped before a frame, and what is taken ends before the frame
\* or with it.
LEMMA StripsBefore ==
  ASSUME NEW r \in Reports, NEW m, NEW x, NEW g \in Nat, Placed(Rest, Frame(r), m, x),
         \A i \in 1..g : Rest[i].byte # "DLE"
  PROVE  g <= x
<1>1. Frame(r)[1] = "DLE" /\ 1 \in 1..Len(Frame(r))
  <2>1. Len(Escaped(r)) \in Nat /\ Len(Frame(r)) = Len(Escaped(r)) + 3 /\ Frame(r)[1] = "DLE"
    BY FrameIs
  <2> QED
    BY <2>1
<1>2. Rest[x + 1].byte = "DLE" /\ x \in Nat
  BY <1>1 DEF Placed
<1>3. CASE ~(g <= x)
  <2>1. x + 1 \in 1..g
    BY <1>2, <1>3
  <2> QED
    BY <1>2, <2>1
<1> QED
  BY <1>3

LEMMA TakesStops ==
  ASSUME TypeInv, NEW r \in Reports, NEW m, NEW x, NEW g \in Nat, NEW s \in Nat, NEW b,
         Placed(Rest, Frame(r), m, x), Takes(g, s, b)
  PROVE  g <= x /\ (g + s <= x \/ g + s = x + Len(Frame(r)))
<1> DEFINE f == Frame(r)
<1>1. /\ b \in Seq(Numbering) /\ g + Len(b) <= Len(Rest)
      /\ \A i \in 1..Len(b) : b[i] = Rest[g + i]
      /\ s \in 1..Len(b) /\ IsStop(b, s) /\ \A i \in 1..s - 1 : ~IsStop(b, i)
      /\ \A i \in 1..g : Rest[i].byte # "DLE"
  BY DEF Takes
<1>2. g <= x
  BY <1>1, StripsBefore
<1>3. /\ x \in Nat /\ x + Len(f) <= Len(Rest)
      /\ \A i \in 1..Len(f) : Rest[x + i].byte = f[i] /\ Rest[x + i].msg = m
  BY DEF Placed
<1>4. Len(f) \in Nat /\ Len(f) >= 1
  <2>1. Len(Escaped(r)) \in Nat /\ Len(f) = Len(Escaped(r)) + 3
    BY FrameIs
  <2> QED
    BY <2>1
<1>5. Len(b) \in Nat
  BY <1>1
<1> DEFINE p == x - g
<1>6. p \in Nat /\ g + p = x
  BY <1>2, <1>3
<1> HIDE DEF p, f
<1>7. Lies(f, b, p)
  <2>1. ASSUME NEW i \in 1..Len(f), p + i <= Len(b) PROVE b[p + i].byte = f[i]
    <3>1. p + i \in 1..Len(b) /\ g + (p + i) = x + i
      BY <1>4, <1>5, <1>6, <2>1
    <3>2. b[p + i] = Rest[x + i]
      BY <1>1, <3>1
    <3> QED
      BY <1>3, <3>2
  <2> QED
    BY <2>1 DEF Lies
<1>8. ASSUME NEW k \in 1..Len(f), p + k <= Len(b) PROVE IsStop(b, p + k) <=> k = Len(f)
  BY <1>1, <1>6, <1>7, <1>8, FrameStops DEF IsStop, f
<1>9. CASE s <= p
  BY <1>1, <1>2, <1>3, <1>5, <1>6, <1>9
<1>10. CASE s > p + Len(f)
  <2>1. p + Len(f) \in 1..s - 1 /\ p + Len(f) <= Len(b) /\ Len(f) \in 1..Len(f)
    BY <1>1, <1>4, <1>5, <1>6, <1>10
  <2>2. IsStop(b, p + Len(f))
    BY <1>8, <2>1
  <2> QED
    BY <1>1, <2>1, <2>2
<1>11. CASE s > p /\ ~(s > p + Len(f))
  <2> DEFINE k == s - p
  <2>1. k \in 1..Len(f) /\ p + k = s /\ p + k <= Len(b)
    BY <1>1, <1>4, <1>5, <1>6, <1>11
  <2> HIDE DEF k
  <2>2. k = Len(f)
    BY <1>1, <1>8, <2>1
  <2>3. g + s = x + Len(f)
    BY <1>4, <1>6, <2>1, <2>2
  <2> QED
    BY <1>2, <2>3 DEF f
<1> QED
  BY <1>2, <1>9, <1>10, <1>11, <1>1, <1>5, <1>6

\* A frame that the stream begins with is taken as it was sent.
LEMMA TakenWhole ==
  ASSUME TypeInv, NEW r \in Reports, NEW m \in Nat, NEW g \in Nat, NEW s \in Nat, NEW b,
         Placed(Rest, Frame(r), m, 0), Takes(g, s, b)
  PROVE  LET c == Squashed(SubSeq(b, 2, s - 2))
         IN  /\ g + s = Len(Frame(r))
             /\ c \in Seq(Numbering) /\ Plain(c) = r /\ NumbersIn(c) = {m}
<1> DEFINE f == Frame(r)
           e == Escaped(r)
           q == SubSeq(b, 2, s - 2)
           c == Squashed(q)
<1>1. /\ b \in Seq(Numbering)
      /\ \A i \in 1..Len(b) : b[i] = Rest[g + i]
      /\ s \in 1..Len(b)
  BY DEF Takes
<1>2. g <= 0 /\ (g + s <= 0 \/ g + s = 0 + Len(f))
  BY TakesStops
<1>3. /\ e \in Seq(Bytes) /\ Len(e) \in Nat /\ Len(e) >= 1
      /\ Len(f) = Len(e) + 3 /\ \A j \in 1..Len(e) : f[j + 1] = e[j]
  BY FrameIs
<1>4. \A i \in 1..Len(f) : Rest[0 + i].byte = f[i] /\ Rest[0 + i].msg = m
  BY DEF Placed
<1>5. r \in Seq(Bytes) /\ Len(r) \in Nat /\ Len(r) >= 1
  BY ReportIs
<1>6. Len(b) \in Nat
  BY <1>1
<1> HIDE DEF f
<1>7. g = 0 /\ s = Len(e) + 3 /\ g + s = Len(f) /\ s >= 3 /\ s - 3 = Len(e)
  BY <1>1, <1>2, <1>3, <1>6
<1>8. /\ q \in Seq(Numbering) /\ Len(q) = Len(e)
      /\ \A i \in 1..Len(e) : q[i] = b[i + 1]
  BY <1>1, <1>7, ContentIs
<1> HIDE DEF q
<1>9. ASSUME NEW i \in 1..Len(e) PROVE q[i].byte = e[i] /\ q[i].msg = m
  <2>1. i + 1 \in 1..Len(b) /\ i + 1 \in 1..Len(f) /\ g + (i + 1) = 0 + (i + 1)
    BY <1>1, <1>3, <1>6, <1>7
  <2>2. q[i] = Rest[0 + (i + 1)]
    BY <1>1, <1>8, <2>1
  <2> QED
    BY <1>3, <1>4, <2>1, <2>2
<1> HIDE DEF e
<1>10. c \in Seq(Numbering) /\ \A i \in 1..Len(c) : \E j \in 1..Len(q) : c[i] = q[j]
  BY <1>8, SquashedParts
<1>11. Len(c) = Len(r) /\ \A i \in 1..Len(r) : c[i].byte = r[i]
  <2>1. Len(q) = Len(e) /\ \A j \in 1..Len(q) : q[j].byte = e[j]
    BY <1>8, <1>9
  <2> QED
    BY <1>5, <1>8, <2>1, SquashedEscaped DEF e
<1>12. \A i \in 1..Len(c) : c[i].msg = m
  BY <1>8, <1>9, <1>10
<1> HIDE DEF c
<1>13. DOMAIN c = 1..Len(r) /\ 1 \in 1..Len(r)
  BY <1>5, <1>10, <1>11
<1>14. Plain(c) = r
  <2>1. r = [i \in 1..Len(r) |-> r[i]]
    BY <1>5
  <2>2. Plain(c) = [i \in 1..Len(r) |-> c[i].byte]
    BY <1>13 DEF Plain
  <2> QED
    BY <1>11, <2>1, <2>2
<1>15. NumbersIn(c) = {m}
  BY <1>11, <1>12, <1>13 DEF NumbersIn
<1> QED
  BY <1>7, <1>10, <1>14, <1>15 DEF c, q, f

----------------------------------------------------------------------------
(* Where the reports are.                                                  *)

NumbersInv == \A i \in 1..Len(Rest) : Rest[i].msg \in 1..Len(sent)

InPlace(m) == \E x \in Nat : Placed(Rest, Frame(sent[m]), m, x)

\* A report of which nothing was dropped unread is there as a whole or is gone:
\* no call takes a part of it.
WholeInv ==
  \A m \in 1..Len(sent) : m \notin damaged => Gone(Rest, m) \/ InPlace(m)

LEMMA FrameOfSent ==
  ASSUME TypeInv, NEW m \in 1..Len(sent)
  PROVE  /\ sent[m] \in Reports
         /\ Frame(sent[m]) \in Seq(Bytes)
         /\ Len(Frame(sent[m])) \in Nat /\ Len(Frame(sent[m])) >= 1
<1>1. sent[m] \in Reports
  BY DEF TypeInv
<1>2. /\ Frame(sent[m]) \in Seq(Bytes) /\ Len(Escaped(sent[m])) \in Nat
      /\ Len(Frame(sent[m])) = Len(Escaped(sent[m])) + 3
  BY <1>1, FrameIs
<1> QED
  BY <1>1, <1>2

LEMMA GrownSent ==
  ASSUME TypeInv, NEW r \in Reports, Grows(r)
  PROVE  /\ Len(sent') = Len(sent) + 1 /\ Len(sent) \in Nat
         /\ sent'[Len(sent) + 1] = r
         /\ \A m \in 1..Len(sent) : sent'[m] = sent[m]
  BY DEF TypeInv, Grows

LEMMA NumbersNext ==
  ASSUME TypeInv, NumbersInv, Next
  PROVE  NumbersInv'
<1>1. Rest \in Seq(Numbering) /\ Len(Rest) \in Nat /\ Len(sent) \in Nat
  BY RestAt
<1>2. ASSUME NEW r \in Reports, Grows(r) PROVE NumbersInv'
  <2> DEFINE t == Numbered(Frame(r), Len(sent) + 1)
  <2>1. t \in Seq(Numbering) /\ \A i \in 1..Len(t) : t[i].msg = Len(sent) + 1
    <3>1. Frame(r) \in Seq(Bytes) /\ Len(sent) + 1 \in Nat
      BY <1>1, FrameIs
    <3> QED
      BY <3>1, NumberedAt
  <2>2. Rest' = Rest \o t
    BY <1>2 DEF Grows
  <2> HIDE DEF t
  <2>3. /\ Len(Rest') = Len(Rest) + Len(t)
        /\ \A i \in 1..Len(Rest) : Rest'[i] = Rest[i]
        /\ \A i \in 1..Len(t) : Rest'[Len(Rest) + i] = t[i]
    BY <1>1, <2>1, <2>2, ConcatAt
  <2>4. Len(sent') = Len(sent) + 1
    BY <1>2, GrownSent
  <2>5. ASSUME NEW i \in 1..Len(Rest') PROVE Rest'[i].msg \in 1..Len(sent')
    <3>1. CASE i <= Len(Rest)
      <4>1. i \in 1..Len(Rest)
        BY <1>1, <3>1
      <4>2. Rest'[i].msg \in 1..Len(sent)
        BY <2>3, <4>1 DEF NumbersInv
      <4> QED
        BY <1>1, <2>4, <4>2
    <3>2. CASE ~(i <= Len(Rest))
      <4> DEFINE j == i - Len(Rest)
      <4>1. j \in 1..Len(t) /\ Len(Rest) + j = i
        <5>1. Len(t) \in Nat
          BY <2>1
        <5> QED
          BY <1>1, <2>3, <3>2, <5>1
      <4> HIDE DEF j
      <4>2. Rest'[i].msg = Len(sent) + 1
        BY <2>1, <2>3, <4>1
      <4> QED
        BY <1>1, <2>4, <4>2
    <3> QED
      BY <3>1, <3>2
  <2> QED
    BY <2>5 DEF NumbersInv
<1>3. ASSUME NEW p, NEW q, Cut(p, q), sent' = sent PROVE NumbersInv'
  <2>1. \A i \in 1..Len(Rest') : \E j \in 1..Len(Rest) : Rest'[i] = Rest[j]
    BY <1>1, <1>3, CutOld DEF Cut
  <2> QED
    BY <1>3, <2>1 DEF NumbersInv
<1>4. \/ \E r \in Reports : Grows(r)
      \/ \E p, q : Cut(p, q) /\ sent' = sent
  BY Step DEF Loses, Strips, Takes
<1> QED
  BY <1>2, <1>3, <1>4

\* No step but a loss of its bytes takes a report apart.
LEMMA StaysWhole ==
  ASSUME TypeInv, NumbersInv, Next, NEW m \in 1..Len(sent), m \notin damaged'
  PROVE  /\ m \in 1..Len(sent') /\ sent'[m] = sent[m] /\ damaged \subseteq damaged'
         /\ Gone(Rest, m) => Gone(Rest, m)'
         /\ InPlace(m) => Gone(Rest, m)' \/ InPlace(m)'
         /\ ~(\E g, s \in Nat : \E b \in Seq(Numbering) : Takes(g, s, b))
              => (InPlace(m) => InPlace(m)')
<1>1. Rest \in Seq(Numbering) /\ Len(Rest) \in Nat /\ Len(sent) \in Nat
  BY RestAt
<1> DEFINE f == Frame(sent[m])
<1>2. sent[m] \in Reports /\ f \in Seq(Bytes) /\ Len(f) \in Nat /\ Len(f) >= 1
  BY FrameOfSent
<1>3. ASSUME NEW r \in Reports, Grows(r)
      PROVE  /\ Len(sent') = Len(sent) + 1 /\ sent'[m] = sent[m] /\ damaged' = damaged
             /\ Gone(Rest, m) => Gone(Rest', m)
             /\ \A x \in Nat : Placed(Rest, f, m, x) => Placed(Rest', f, m, x)
  <2> DEFINE t == Numbered(Frame(r), Len(sent) + 1)
  <2>1. t \in Seq(Numbering) /\ \A i \in 1..Len(t) : t[i].msg = Len(sent) + 1
    <3>1. Frame(r) \in Seq(Bytes) /\ Len(sent) + 1 \in Nat
      BY <1>1, FrameIs
    <3> QED
      BY <3>1, NumberedAt
  <2>2. Rest' = Rest \o t /\ damaged' = damaged
    BY <1>3 DEF Grows
  <2> HIDE DEF t, f
  <2>3. \A i \in 1..Len(t) : t[i].msg > m
    BY <1>1, <2>1
  <2>4. \A x \in Nat : Placed(Rest, f, m, x) => Placed(Rest', f, m, x)
    BY <1>1, <1>2, <2>1, <2>2, <2>3, PlacedGrown
  <2>5. ASSUME Gone(Rest, m) PROVE Gone(Rest \o t, m)
    <3>1. /\ Len(Rest \o t) = Len(Rest) + Len(t) /\ Len(t) \in Nat
          /\ \A i \in 1..Len(Rest) : (Rest \o t)[i] = Rest[i]
          /\ \A i \in 1..Len(t) : (Rest \o t)[Len(Rest) + i] = t[i]
      BY <1>1, <2>1, ConcatAt
    <3>2. ASSUME NEW i \in 1..Len(Rest \o t) PROVE (Rest \o t)[i].msg > m
      <4>1. CASE i <= Len(Rest)
        <5>1. i \in 1..Len(Rest)
          BY <1>1, <4>1
        <5> QED
          BY <2>5, <3>1, <5>1 DEF Gone
      <4>2. CASE ~(i <= Len(Rest))
        <5> DEFINE j == i - Len(Rest)
        <5>1. j \in 1..Len(t) /\ Len(Rest) + j = i
          BY <1>1, <3>1, <4>2
        <5> HIDE DEF j
        <5> QED
          BY <2>3, <3>1, <5>1
      <4> QED
        BY <4>1, <4>2
    <3> QED
      BY <3>2 DEF Gone
  <2> QED
    BY <1>3, <2>2, <2>4, <2>5, GrownSent
<1>4. ASSUME NEW p, NEW q, Cut(p, q), Gone(Rest, m) PROVE Gone(Rest', m)
  BY <1>1, <1>4, GoneCut DEF Cut
<1>5. ASSUME NEW p \in Nat, NEW q \in Nat, Loses(p, q), NEW x \in Nat, Placed(Rest, f, m, x)
      PROVE  \E y \in Nat : Placed(Rest', f, m, y)
  <2>1. m \notin {Rest[i].msg : i \in p + 1..q}
    BY <1>5 DEF Loses
  <2> HIDE DEF f
  <2> QED
    BY <1>1, <1>2, <1>5, <2>1, PlacedLoses DEF Loses, Cut
<1>6. ASSUME NEW g \in Nat, Strips(g), NEW x \in Nat, Placed(Rest, f, m, x)
      PROVE  \E y \in Nat : Placed(Rest', f, m, y)
  <2>1. g <= x
    BY <1>2, <1>6, StripsBefore DEF Strips
  <2> HIDE DEF f
  <2> QED
    BY <1>1, <1>2, <1>6, <2>1, PlacedCut DEF Strips, Cut
<1>7. ASSUME NEW g \in Nat, NEW s \in Nat, NEW b, Takes(g, s, b),
             NEW x \in Nat, Placed(Rest, f, m, x)
      PROVE  Gone(Rest', m) \/ \E y \in Nat : Placed(Rest', f, m, y)
  <2>1. g + s <= x \/ g + s = x + Len(f)
    BY <1>2, <1>7, TakesStops
  <2>2. IsCut(Rest, Rest', 0, g + s) /\ g + s \in Nat
    BY <1>7 DEF Takes, Cut
  <2> HIDE DEF f
  <2>3. CASE g + s <= x
    BY <1>1, <1>2, <1>7, <2>2, <2>3, PlacedCut
  <2>4. CASE g + s = x + Len(f)
    <3>1. g + s >= x + Len(f)
      BY <1>2, <2>2, <2>4
    <3> QED
      BY <1>1, <1>2, <1>7, <2>2, <3>1, PlacedTaken
  <2> QED
    BY <2>1, <2>3, <2>4
<1>8. CASE \E r \in Reports : Grows(r)
  <2>1. PICK r \in Reports : Grows(r)
    BY <1>8
  <2>2. m \in 1..Len(sent')
    BY <1>1, <1>3, <2>1
  <2> QED
    BY <1>3, <2>1, <2>2 DEF InPlace, Gone
<1>9. ASSUME sent' = sent, damaged \subseteq damaged', \E p, q : Cut(p, q),
             \A x \in Nat : Placed(Rest, f, m, x) =>
               \E y \in Nat : Placed(Rest', f, m, y)
      PROVE  /\ m \in 1..Len(sent') /\ sent'[m] = sent[m] /\ damaged \subseteq damaged'
             /\ Gone(Rest, m) => Gone(Rest, m)'
             /\ InPlace(m) => InPlace(m)'
  BY <1>4, <1>9 DEF InPlace, Gone
<1>10. CASE \E p, q \in Nat : Loses(p, q)
  <2>1. PICK p \in Nat, q \in Nat : Loses(p, q)
    BY <1>10
  <2>2. sent' = sent /\ damaged \subseteq damaged' /\ Cut(p, q)
    BY <2>1 DEF Loses
  <2> QED
    BY <1>5, <1>9, <2>1, <2>2
<1>11. CASE \E g \in Nat : Strips(g)
  <2>1. PICK g \in Nat : Strips(g)
    BY <1>11
  <2>2. sent' = sent /\ damaged \subseteq damaged' /\ Cut(0, g)
    BY <2>1 DEF Strips
  <2> QED
    BY <1>6, <1>9, <2>1, <2>2
<1>12. CASE \E g, s \in Nat : \E b \in Seq(Numbering) : Takes(g, s, b)
  <2>1. PICK g \in Nat, s \in Nat, b \in Seq(Numbering) : Takes(g, s, b)
    BY <1>12
  <2>2. sent' = sent /\ damaged \subseteq damaged' /\ Cut(0, g + s)
    BY <2>1 DEF Takes
  <2>3. Gone(Rest, m) => Gone(Rest, m)'
    BY <1>4, <2>2 DEF Gone
  <2>4. InPlace(m) => Gone(Rest, m)' \/ InPlace(m)'
    BY <1>7, <2>1, <2>2 DEF InPlace, Gone
  <2> QED
    BY <1>12, <2>2, <2>3, <2>4
<1> QED
  BY <1>8, <1>10, <1>11, <1>12, Step

\* What is sent is in its place.
LEMMA SentInPlace ==
  ASSUME TypeInv, NumbersInv, Next, NEW m \in 1..Len(sent'), m \notin 1..Len(sent)
  PROVE  /\ InPlace(m)' /\ m = Len(sent) + 1
         /\ extracted' = extracted /\ result' = result
<1>1. Rest \in Seq(Numbering) /\ Len(Rest) \in Nat /\ Len(sent) \in Nat
  BY RestAt
<1>2. \/ \E r \in Reports : Grows(r)
      \/ sent' = sent
  BY Step DEF Loses, Strips, Takes
<1>3. PICK r \in Reports : Grows(r)
  BY <1>2
<1>4. m = Len(sent) + 1 /\ sent'[m] = r
  BY <1>1, <1>3, GrownSent
<1>5. Rest' = Rest \o Numbered(Frame(r), m) /\ extracted' = extracted /\ result' = result
  BY <1>3, <1>4 DEF Grows
<1>6. Frame(r) \in Seq(Bytes) /\ m \in Nat
  BY <1>1, <1>4, FrameIs
<1>7. \A i \in 1..Len(Rest) : Rest[i].msg < m
  BY <1>1, <1>4 DEF NumbersInv
<1>8. Placed(Rest', Frame(r), m, Len(Rest))
  BY <1>1, <1>5, <1>6, <1>7, NewPlaced
<1> QED
  BY <1>1, <1>4, <1>5, <1>8 DEF InPlace

LEMMA WholeNext ==
  ASSUME TypeInv, NumbersInv, WholeInv, Next
  PROVE  WholeInv'
<1>1. SUFFICES ASSUME NEW m \in 1..Len(sent'), m \notin damaged'
               PROVE  Gone(Rest, m)' \/ InPlace(m)'
  BY DEF WholeInv
<1>2. CASE m \in 1..Len(sent)
  BY <1>1, <1>2, StaysWhole DEF WholeInv
<1>3. CASE m \notin 1..Len(sent)
  BY <1>1, <1>3, SentInPlace
<1> QED
  BY <1>2, <1>3

\* Only what is taken is taken out of its place.
LEMMA TakenFromPlace ==
  ASSUME TypeInv, NumbersInv, Next, NEW m \in 1..Len(sent), m \notin damaged',
         InPlace(m), ~InPlace(m)'
  PROVE  \E g, s, x \in Nat : \E b \in Seq(Numbering) :
           /\ Takes(g, s, b) /\ Placed(Rest, Frame(sent[m]), m, x)
           /\ g + s = x + Len(Frame(sent[m]))
<1>1. PICK g \in Nat, s \in Nat, b \in Seq(Numbering) : Takes(g, s, b)
  BY StaysWhole
<1> DEFINE f == Frame(sent[m])
<1>2. PICK x \in Nat : Placed(Rest, f, m, x)
  BY DEF InPlace
<1>3. sent[m] \in Reports /\ Len(f) \in Nat
  BY FrameOfSent
<1>4. g + s <= x \/ g + s = x + Len(f)
  BY <1>1, <1>2, <1>3, TakesStops
<1>5. CASE g + s <= x
  <2>1. IsCut(Rest, Rest', 0, g + s) /\ sent' = sent /\ Len(Rest) \in Nat
    BY <1>1, RestAt DEF Takes, Cut
  <2> HIDE DEF f
  <2>2. \E y \in Nat : Placed(Rest', f, m, y)
    BY <1>2, <1>3, <1>5, <2>1, PlacedCut
  <2> QED
    BY <2>1, <2>2 DEF InPlace, f
<1> QED
  BY <1>1, <1>2, <1>4, <1>5

----------------------------------------------------------------------------
(* Back in step.                                                           *)

BackInv ==
  \A n \in 1..Len(sent) :
    n \notin damaged /\ n - 1 \notin damaged => n \in Found \/ InPlace(n)

LEMMA TakesGrows ==
  ASSUME TypeInv, NEW g, NEW s, NEW b \in Seq(Numbering), Takes(g, s, b)
  PROVE  /\ Len(extracted') = Len(extracted) + 1
         /\ extracted'[Len(extracted) + 1] = Squashed(SubSeq(b, 2, s - 2))
         /\ \A i \in 1..Len(extracted) : extracted'[i] = extracted[i]
<1> DEFINE c == Squashed(SubSeq(b, 2, s - 2))
<1>1. c \in Seq(Numbering)
  <2>1. s \in 1..Len(b)
    BY DEF Takes
  <2> QED
    BY <2>1, ContentIs, SquashedParts
<1>2. extracted' = Append(extracted, c) /\ extracted \in Seq(Seq(Numbering))
  BY DEF Takes, TypeInv
<1> HIDE DEF c
<1>3. /\ Len(extracted') = Len(extracted) + 1
      /\ extracted'[Len(extracted) + 1] = c
      /\ \A i \in 1..Len(extracted) : extracted'[i] = extracted[i]
  BY <1>1, <1>2
<1> QED
  BY <1>3 DEF c

LEMMA ExtractedGrows ==
  ASSUME TypeInv, Next
  PROVE  /\ Len(extracted) \in Nat /\ Len(extracted') \in Nat
         /\ DOMAIN extracted = 1..Len(extracted) /\ DOMAIN extracted' = 1..Len(extracted')
         /\ Len(extracted') >= Len(extracted)
         /\ \A i \in 1..Len(extracted) : extracted'[i] = extracted[i]
<1>1. extracted \in Seq(Seq(Numbering)) /\ extracted' \in Seq(Seq(Numbering))
  BY Step DEF TypeInv
<1>2. Len(extracted) \in Nat /\ Len(extracted') \in Nat
  BY <1>1
<1>3. DOMAIN extracted = 1..Len(extracted) /\ DOMAIN extracted' = 1..Len(extracted')
  BY <1>1
<1>4. CASE extracted' = extracted
  <2>1. Len(extracted') >= Len(extracted)
    BY <1>2, <1>4
  <2> QED
    BY <1>2, <1>3, <1>4, <2>1
<1>5. CASE \E g, s \in Nat : \E b \in Seq(Numbering) : Takes(g, s, b)
  <2>1. /\ Len(extracted') = Len(extracted) + 1
        /\ \A i \in 1..Len(extracted) : extracted'[i] = extracted[i]
    BY <1>5, TakesGrows
  <2>2. Len(extracted') >= Len(extracted)
    BY <1>2, <2>1
  <2> QED
    BY <1>2, <1>3, <2>1, <2>2
<1> QED
  BY <1>4, <1>5, Step DEF Grows, Loses, Strips

LEMMA FoundStays ==
  ASSUME TypeInv, Next, NEW n \in 1..Len(sent), n \in Found,
         n \in 1..Len(sent'), sent'[n] = sent[n]
  PROVE  n \in Found'
<1>1. PICK i \in DOMAIN extracted : NumbersIn(extracted[i]) = {n} /\ Plain(extracted[i]) = sent[n]
  BY DEF Found
<1>2. i \in DOMAIN extracted' /\ extracted'[i] = extracted[i]
  <2>1. i \in 1..Len(extracted) /\ i \in 1..Len(extracted')
    BY <1>1, ExtractedGrows
  <2> QED
    BY <2>1, ExtractedGrows
<1>3. n \in DOMAIN sent'
  <2>1. sent' \in Seq(Reports)
    BY Step DEF TypeInv
  <2> QED
    BY <2>1
<1> QED
  BY <1>1, <1>2, <1>3 DEF Found

LEMMA BackNext ==
  ASSUME TypeInv, NumbersInv, WholeInv, BackInv, Next
  PROVE  BackInv'
<1>0. Len(sent) \in Nat /\ Len(Rest) \in Nat
  BY RestAt
<1>1. SUFFICES ASSUME NEW n \in 1..Len(sent'), n \notin damaged', n - 1 \notin damaged'
               PROVE  n \in Found' \/ InPlace(n)'
  BY DEF BackInv
<1>2. CASE n \notin 1..Len(sent)
  BY <1>1, <1>2, SentInPlace
<1>3. CASE n \in 1..Len(sent)
  <2>1. n \in 1..Len(sent') /\ sent'[n] = sent[n] /\ damaged \subseteq damaged'
    BY <1>1, <1>3, StaysWhole
  <2>2. n \in Found \/ InPlace(n)
    BY <1>1, <1>3, <2>1 DEF BackInv
  <2>3. CASE n \in Found
    BY <1>3, <2>1, <2>3, FoundStays
  <2>4. CASE InPlace(n) /\ ~InPlace(n)'
    <3> DEFINE r == sent[n]
               f == Frame(r)
    <3>1. PICK g \in Nat, s \in Nat, x \in Nat, b \in Seq(Numbering) :
             Takes(g, s, b) /\ Placed(Rest, f, n, x) /\ g + s = x + Len(f)
      BY <1>1, <1>3, <2>4, TakenFromPlace
    <3>2. r \in Reports /\ Len(f) \in Nat /\ Len(f) >= 1
      BY <1>3, FrameOfSent
    <3>3. /\ x \in Nat /\ x + Len(f) <= Len(Rest) /\ Rest[x + Len(f)].msg = n
          /\ \A i \in 1..x : Rest[i].msg < n
      <4>1. Len(f) \in 1..Len(f)
        BY <3>2
      <4> HIDE DEF f
      <4> QED
        BY <3>1, <4>1 DEF Placed
    <3>a. n \in Nat /\ n >= 1
      BY <1>0, <1>3
    <3> HIDE DEF f, r
    <3>4. ASSUME n - 1 \in 1..Len(sent), NEW z \in Nat, Placed(Rest, Frame(sent[n - 1]), n - 1, z)
          PROVE  FALSE
      <4> DEFINE e == Frame(sent[n - 1])
      <4>1. sent[n - 1] \in Reports /\ Len(e) \in Nat /\ Len(e) >= 1
        BY <3>4, FrameOfSent
      <4>2. g + s <= z \/ g + s = z + Len(e)
        BY <3>1, <3>4, <4>1, TakesStops
      <4>3. /\ \A i \in 1..Len(e) : Rest[z + i].msg = n - 1
            /\ \A i \in 1..z : Rest[i].msg < n - 1
        BY <3>4 DEF Placed
      <4> HIDE DEF e
      <4>4. CASE g + s <= z
        <5>1. x + Len(f) \in 1..z
          BY <3>1, <3>2, <3>3, <4>4
        <5> QED
          BY <3>3, <3>a, <4>3, <5>1
      <4>5. CASE g + s = z + Len(e)
        <5>1. Len(e) \in 1..Len(e) /\ z + Len(e) = x + Len(f)
          BY <3>1, <4>1, <4>5
        <5> QED
          BY <3>3, <3>a, <4>3, <5>1
      <4> QED
        BY <4>2, <4>4, <4>5
    <3>5. Gone(Rest, n - 1)
      <4>1. CASE n - 1 \in 1..Len(sent)
        <5>1. n - 1 \notin damaged
          BY <1>1, <2>1
        <5> QED
          BY <3>4, <4>1, <5>1 DEF WholeInv, InPlace
      <4>2. CASE n - 1 \notin 1..Len(sent)
        <5>1. n - 1 = 0
          BY <1>0, <1>3, <3>a, <4>2
        <5>2. \A i \in 1..Len(Rest) : Rest[i].msg > 0
          BY <1>0 DEF NumbersInv
        <5> QED
          BY <5>1, <5>2 DEF Gone
      <4> QED
        BY <4>1, <4>2
    <3>6. x = 0
      <4>1. SUFFICES ASSUME x # 0 PROVE FALSE
        OBVIOUS
      <4>2. 1 \in 1..x /\ 1 \in 1..Len(Rest)
        BY <1>0, <3>2, <3>3, <4>1
      <4>3. Rest[1].msg < n /\ Rest[1].msg > n - 1 /\ Rest[1].msg \in Nat
        BY <1>0, <3>3, <3>5, <4>2 DEF Gone, NumbersInv
      <4> QED
        BY <3>a, <4>3
    <3>7. Placed(Rest, f, n, 0)
      BY <3>1, <3>6
    <3> DEFINE c == Squashed(SubSeq(b, 2, s - 2))
    <3>8. Plain(c) = r /\ NumbersIn(c) = {n}
      BY <3>1, <3>2, <3>7, <3>a, TakenWhole DEF f
    <3>9. /\ Len(extracted) + 1 \in DOMAIN extracted'
          /\ extracted'[Len(extracted) + 1] = c
      <4>1. /\ Len(extracted') = Len(extracted) + 1
            /\ extracted'[Len(extracted) + 1] = c
        BY <3>1, TakesGrows
      <4>2. Len(extracted) + 1 \in 1..Len(extracted')
        BY <4>1, ExtractedGrows
      <4> QED
        BY <4>1, <4>2, ExtractedGrows
    <3> HIDE DEF c
    <3>10. n \in DOMAIN sent' /\ sent'[n] = r
      <4>1. sent' \in Seq(Reports)
        BY Step DEF TypeInv
      <4> QED
        BY <2>1, <4>1 DEF r
    <3> QED
      BY <3>8, <3>9, <3>10 DEF Found
  <2> QED
    BY <2>2, <2>3, <2>4
<1> QED
  BY <1>2, <1>3

----------------------------------------------------------------------------
(* Undamaged streams.                                                      *)

\* The reports not yet taken are in their places.
CleanInv ==
  damaged = {} =>
    /\ result # "raised" /\ Len(extracted) <= Len(sent)
    /\ \A i \in 1..Len(extracted) : Plain(extracted[i]) = sent[i]
    /\ Gone(Rest, Len(extracted))
    /\ \A m \in 1..Len(sent) : m > Len(extracted) => InPlace(m)

LEMMA ReportIsRead ==
  ASSUME NEW r \in Reports
  PROVE  Outcome(r) # "raised"
<1>1. r # << >> /\ r[1] # "command"
  BY ReportsAssumption
<1>2. CASE r[1] = "packet" /\ Len(r) = PacketLength
  BY <1>1, <1>2 DEF Outcome
<1>3. CASE r[1] = "unparsable"
  BY <1>1, <1>3 DEF Outcome
<1>4. CASE r[1] = "survey"
  BY <1>1, <1>4 DEF Outcome
<1>5. CASE /\ ~(r[1] = "packet" /\ Len(r) = PacketLength)
           /\ r[1] # "unparsable" /\ r[1] # "survey"
  BY <1>1, <1>5 DEF Outcome
<1> QED
  BY <1>2, <1>3, <1>4, <1>5

LEMMA CleanNext ==
  ASSUME TypeInv, NumbersInv, CleanInv, Next
  PROVE  CleanInv'
<1>0. Len(sent) \in Nat /\ Len(Rest) \in Nat /\ Len(extracted) \in Nat
  BY RestAt, ExtractedGrows
<1>1. SUFFICES ASSUME damaged' = {}
               PROVE  /\ result' # "raised" /\ Len(extracted') <= Len(sent')
                      /\ \A i \in 1..Len(extracted') : Plain(extracted'[i]) = sent'[i]
                      /\ Gone(Rest', Len(extracted'))
                      /\ \A m \in 1..Len(sent') : m > Len(extracted') => InPlace(m)'
  BY DEF CleanInv, Gone
<1>2. damaged = {}
  BY <1>1, Step DEF Grows, Loses, Strips, Takes
<1>3. /\ result # "raised" /\ Len(extracted) <= Len(sent)
      /\ \A i \in 1..Len(extracted) : Plain(extracted[i]) = sent[i]
      /\ Gone(Rest, Len(extracted))
      /\ \A m \in 1..Len(sent) : m > Len(extracted) => InPlace(m)
  BY <1>2 DEF CleanInv
<1>4. \A m : m \notin damaged'
  BY <1>1
<1>5. ASSUME NEW m \in 1..Len(sent)
      PROVE  m \in 1..Len(sent') /\ sent'[m] = sent[m]
  BY <1>4, StaysWhole
<1>6. Len(sent') >= Len(sent) /\ Len(sent') \in Nat
  <2>1. Len(sent') \in Nat
    BY Step DEF TypeInv
  <2>2. CASE Len(sent) = 0
    BY <2>1, <2>2
  <2>3. CASE Len(sent) # 0
    <3>1. Len(sent) \in 1..Len(sent)
      BY <1>0, <2>3
    <3>2. Len(sent) \in 1..Len(sent')
      BY <1>5, <3>1
    <3> QED
      BY <2>1, <3>2
  <2> QED
    BY <2>2, <2>3
\* Nothing is taken.
<1>7. ASSUME extracted' = extracted, result' \in {result, "none"},
             ~(\E g, s \in Nat : \E b \in Seq(Numbering) : Takes(g, s, b)),
             Gone(Rest', Len(extracted))
      PROVE  /\ result' # "raised" /\ Len(extracted') <= Len(sent')
             /\ \A i \in 1..Len(extracted') : Plain(extracted'[i]) = sent'[i]
             /\ Gone(Rest', Len(extracted'))
             /\ \A m \in 1..Len(sent') : m > Len(extracted') => InPlace(m)'
  <2>1. result' # "raised" /\ Len(extracted') <= Len(sent')
    BY <1>0, <1>3, <1>6, <1>7
  <2>2. ASSUME NEW i \in 1..Len(extracted') PROVE Plain(extracted'[i]) = sent'[i]
    <3>1. i \in 1..Len(extracted) /\ i \in 1..Len(sent)
      BY <1>0, <1>3, <1>7
    <3> QED
      BY <1>3, <1>5, <1>7, <3>1
  <2>3. ASSUME NEW m \in 1..Len(sent'), m > Len(extracted') PROVE InPlace(m)'
    <3>1. CASE m \in 1..Len(sent)
      BY <1>3, <1>4, <1>7, <2>3, <3>1, StaysWhole
    <3>2. CASE m \notin 1..Len(sent)
      BY <3>2, SentInPlace
    <3> QED
      BY <3>1, <3>2
  <2> QED
    BY <1>7, <2>1, <2>2, <2>3
<1>8. CASE \E g, s \in Nat : \E b \in Seq(Numbering) : Takes(g, s, b)
  <2>1. PICK g \in Nat, s \in Nat, b \in Seq(Numbering) : Takes(g, s, b)
    BY <1>8
  <2> DEFINE k == Len(extracted) + 1
             f == Frame(sent[k])
             c == Squashed(SubSeq(b, 2, s - 2))
  <2>2. /\ s \in 1..Len(b) /\ g + Len(b) <= Len(Rest) /\ sent' = sent
        /\ result' = Outcome(Plain(c)) /\ Cut(0, g + s)
    BY <2>1 DEF Takes
  <2>3. 1 \in 1..Len(Rest)
    <3>1. Len(b) \in Nat
      OBVIOUS
    <3> QED
      BY <1>0, <2>2, <3>1
  <2>4. k \in Nat /\ k \in 1..Len(sent) /\ k > Len(extracted)
    <3>1. Rest[1].msg > Len(extracted) /\ Rest[1].msg \in 1..Len(sent)
      BY <1>3, <2>3 DEF Gone, NumbersInv
    <3> QED
      BY <1>0, <3>1
  <2>5. PICK x \in Nat : Placed(Rest, f, k, x)
    <3>1. InPlace(k)
      BY <1>3, <2>4
    <3> QED
      BY <3>1 DEF InPlace
  <2>6. x = 0
    <3>1. SUFFICES ASSUME x # 0 PROVE FALSE
      OBVIOUS
    <3>2. 1 \in 1..x
      BY <3>1
    <3>3. Rest[1].msg < k
      BY <2>5, <3>2 DEF Placed
    <3>4. Rest[1].msg > Len(extracted) /\ Rest[1].msg \in 1..Len(sent)
      BY <1>3, <2>3 DEF Gone, NumbersInv
    <3> QED
      BY <1>0, <3>3, <3>4
  <2>7. sent[k] \in Reports /\ Len(f) \in Nat /\ Len(f) >= 1
    BY <2>4, FrameOfSent
  <2>8. g + s = Len(f) /\ Plain(c) = sent[k]
    BY <2>1, <2>4, <2>5, <2>6, <2>7, TakenWhole
  <2>9. /\ Len(extracted') = k /\ extracted'[k] = c
        /\ \A i \in 1..Len(extracted) : extracted'[i] = extracted[i]
    BY <2>1, TakesGrows
  <2>10. result' # "raised"
    BY <2>2, <2>7, <2>8, ReportIsRead
  <2>11. ASSUME NEW i \in 1..Len(extracted') PROVE Plain(extracted'[i]) = sent'[i]
    <3>1. i \in 1..Len(extracted) \/ i = k
      BY <1>0, <2>9
    <3> HIDE DEF c, k
    <3> QED
      BY <1>3, <2>2, <2>8, <2>9, <3>1
  <2>12. Len(extracted') <= Len(sent')
    BY <1>0, <2>2, <2>4, <2>9
  <2> HIDE DEF c
  <2>13. Gone(Rest', Len(extracted'))
    <3>1. IsCut(Rest, Rest', 0, g + s) /\ g + s >= 0 + Len(f)
      BY <2>2, <2>7, <2>8 DEF Cut
    <3> HIDE DEF f, k
    <3> QED
      BY <1>0, <2>5, <2>6, <2>7, <2>9, <3>1, PlacedTaken
  <2>14. ASSUME NEW m \in 1..Len(sent'), m > Len(extracted') PROVE InPlace(m)'
    <3>1. SUFFICES ASSUME ~InPlace(m)' PROVE FALSE
      OBVIOUS
    <3>2. m \in 1..Len(sent) /\ m > k
      BY <2>2, <2>9, <2>14
    <3>3. m > Len(extracted)
      BY <1>0, <3>2
    <3>4. InPlace(m)
      BY <1>3, <3>2, <3>3
    <3> DEFINE e == Frame(sent[m])
    <3>5. sent[m] \in Reports /\ Len(e) \in Nat /\ Len(e) >= 1
      BY <3>2, FrameOfSent
    <3>6. PICK y \in Nat : Placed(Rest, e, m, y)
      BY <3>4 DEF InPlace
    <3>7. g + s <= y \/ g + s = y + Len(e)
      BY <2>1, <3>5, <3>6, TakesStops
    <3>8. Rest[Len(f)].msg = k
      <4>1. Len(f) \in 1..Len(f) /\ 0 + Len(f) = Len(f)
        BY <2>7
      <4> HIDE DEF f, k
      <4> QED
        BY <2>5, <2>6, <4>1 DEF Placed
    <3> HIDE DEF e
    <3>9. CASE g + s = y + Len(e)
      <4>1. Len(e) \in 1..Len(e) /\ y + Len(e) = Len(f)
        BY <2>8, <3>5, <3>9
      <4>2. Rest[y + Len(e)].msg = m
        BY <3>6, <4>1 DEF Placed
      <4> HIDE DEF k
      <4> QED
        BY <2>4, <3>2, <3>8, <4>1, <4>2
    <3>10. CASE g + s <= y
      <4>1. IsCut(Rest, Rest', 0, g + s)
        BY <2>2 DEF Cut
      <4>2. \E z \in Nat : Placed(Rest', e, m, z)
        BY <1>0, <3>5, <3>6, <3>10, <4>1, PlacedCut
      <4> QED
        BY <2>2, <3>1, <4>2 DEF InPlace, e
    <3> QED
      BY <3>7, <3>9, <3>10
  <2> QED
    BY <2>10, <2>11, <2>12, <2>13, <2>14
<1>9. CASE /\ ~(\E g, s \in Nat : \E b \in Seq(Numbering) : Takes(g, s, b))
           /\ \E p, q : Cut(p, q)
           /\ extracted' = extracted /\ result' \in {result, "none"}
  <2>1. Gone(Rest', Len(extracted))
    BY <1>0, <1>3, <1>9, GoneCut DEF Cut
  <2> QED
    BY <1>7, <1>9, <2>1
<1>10. CASE /\ ~(\E g, s \in Nat : \E b \in Seq(Numbering) : Takes(g, s, b))
            /\ \E r \in Reports : Grows(r)
  <2>1. PICK r \in Reports : Grows(r)
    BY <1>10
  <2>2. extracted' = extracted /\ result' = result
    BY <2>1 DEF Grows
  <2> DEFINE t == Numbered(Frame(r), Len(sent) + 1)
  <2>3. t \in Seq(Numbering) /\ \A i \in 1..Len(t) : t[i].msg = Len(sent) + 1
    <3>1. Frame(r) \in Seq(Bytes) /\ Len(sent) + 1 \in Nat
      BY <1>0, FrameIs
    <3> QED
      BY <3>1, NumberedAt
  <2>4. Rest' = Rest \o t /\ Rest \in Seq(Numbering)
    BY <2>1, RestAt DEF Grows
  <2> HIDE DEF t
  <2>5. Gone(Rest', Len(extracted))
    <3>1. /\ Len(Rest') = Len(Rest) + Len(t) /\ Len(t) \in Nat
          /\ \A i \in 1..Len(Rest) : Rest'[i] = Rest[i]
          /\ \A i \in 1..Len(t) : Rest'[Len(Rest) + i] = t[i]
      BY <2>3, <2>4, ConcatAt
    <3>2. ASSUME NEW i \in 1..Len(Rest') PROVE Rest'[i].msg > Len(extracted)
      <4>1. CASE i <= Len(Rest)
        <5>1. i \in 1..Len(Rest)
          BY <1>0, <4>1
        <5> QED
          BY <1>3, <3>1, <5>1 DEF Gone
      <4>2. CASE ~(i <= Len(Rest))
        <5> DEFINE j == i - Len(Rest)
        <5>1. j \in 1..Len(t) /\ Len(Rest) + j = i
          BY <1>0, <3>1, <4>2
        <5> HIDE DEF j
        <5>2. Rest'[i].msg = Len(sent) + 1
          BY <2>3, <3>1, <5>1
        <5> QED
          BY <1>0, <1>3, <5>2
      <4> QED
        BY <4>1, <4>2
    <3> QED
      BY <3>2 DEF Gone
  <2> QED
    BY <1>7, <1>10, <2>2, <2>5
<1> QED
  BY <1>8, <1>9, <1>10, Step DEF Loses, Strips

----------------------------------------------------------------------------
(* The theorems.                                                           *)

StreamInv == TypeInv /\ NumbersInv /\ WholeInv /\ BackInv /\ CleanInv

LEMMA StreamInit == Init => StreamInv
<1> SUFFICES ASSUME Init PROVE StreamInv
  OBVIOUS
<1>1. wire = << >> /\ buffer = << >> /\ sent = << >> /\ extracted = << >> /\ result = "none"
  BY DEF Init
<1>2. TypeInv
  BY <1>1 DEF TypeInv
<1>3. Rest = << >> /\ Len(Rest) = 0 /\ Len(sent) = 0 /\ Len(extracted) = 0
  BY <1>1 DEF Rest
<1>4. NumbersInv /\ WholeInv /\ BackInv /\ CleanInv
  BY <1>1, <1>3 DEF NumbersInv, WholeInv, BackInv, CleanInv, Gone
<1> QED
  BY <1>2, <1>4 DEF StreamInv

LEMMA StreamNext == StreamInv /\ [Next]_vars => StreamInv'
<1> SUFFICES ASSUME StreamInv, [Next]_vars PROVE StreamInv'
  OBVIOUS
<1> USE DEF StreamInv
<1>1. CASE Next
  BY <1>1, Step, NumbersNext, WholeNext, BackNext, CleanNext
<1>2. CASE UNCHANGED vars
  BY <1>2 DEF vars, TypeInv, NumbersInv, WholeInv, BackInv, CleanInv, InPlace, Rest, Gone, Found
<1> QED
  BY <1>1, <1>2

LEMMA StreamKept == Spec => []StreamInv
  BY StreamInit, StreamNext, PTL DEF Spec

\* A stream of which nothing was dropped comes out as it went in, report by
\* report, whatever bytes the reports hold and wherever the reads cut it, and
\* nothing is raised (gps_messages.py:48-74).
THEOREM CleanIsRead == Spec => []CleanStreamIsRead
<1>1. StreamInv => CleanStreamIsRead
  <2>1. SUFFICES ASSUME StreamInv, damaged = {}
                 PROVE  /\ IsPrefix([i \in DOMAIN extracted |-> Plain(extracted[i])], sent)
                        /\ result # "raised"
    BY DEF CleanStreamIsRead
  <2> DEFINE k == Len(extracted)
             s == [i \in DOMAIN extracted |-> Plain(extracted[i])]
             t == SubSeq(sent, 1, k)
  <2>2. /\ extracted \in Seq(Seq(Numbering)) /\ sent \in Seq(Reports)
        /\ DOMAIN extracted = 1..k /\ k \in Nat /\ Len(sent) \in Nat
    BY <2>1 DEF StreamInv, TypeInv
  <2>3. /\ k <= Len(sent) /\ \A i \in 1..k : Plain(extracted[i]) = sent[i]
        /\ result # "raised"
    BY <2>1 DEF StreamInv, CleanInv
  <2>4. k \in 0..Len(sent)
    BY <2>2, <2>3
  <2>5. t \in Seq(Reports) /\ Len(t) = k /\ \A i \in 1..k : t[i] = sent[i]
    BY <2>2, <2>4, TakeAt
  <2>6. s = [i \in 1..k |-> t[i]]
    BY <2>2, <2>3, <2>5
  <2> HIDE DEF k, s, t
  <2>7. t = [i \in 1..k |-> t[i]]
    BY <2>5
  <2>8. s = t /\ SubSeq(t, 1, k) = t
    BY <2>2, <2>5, <2>6, <2>7
  <2>9. IsPrefix(s, sent)
    BY <2>3, <2>5, <2>8 DEF IsPrefix, t
  <2> QED
    BY <2>3, <2>9 DEF s
<1> QED
  BY <1>1, StreamKept, PTL

\* After bytes were lost anywhere, the code is back in step at the next but
\* one: a whole report that follows on a whole report comes out, or is all
\* still to be read (gps_messages.py:51-74).
THEOREM InStepAgain == Spec => []BackInStep
<1>1. StreamInv => BackInStep
  <2>1. SUFFICES ASSUME StreamInv, NEW n \in DOMAIN sent, {n, n - 1} \cap damaged = {}
                 PROVE  n \in Found \/ Waits(n)
    BY DEF BackInStep
  <2>2. TypeInv /\ BackInv /\ n \in 1..Len(sent) /\ n \in Nat
    <3>1. DOMAIN sent = 1..Len(sent) /\ Len(sent) \in Nat
      BY <2>1 DEF StreamInv, TypeInv
    <3> QED
      BY <2>1, <3>1 DEF StreamInv
  <2>3. n \in Found \/ InPlace(n)
    BY <2>1, <2>2 DEF BackInv
  <2>4. CASE InPlace(n)
    <3> DEFINE f == Frame(sent[n])
               t == Numbered(f, n)
    <3>1. PICK x \in Nat : Placed(Rest, f, n, x)
      BY <2>4 DEF InPlace
    <3>2. f \in Seq(Bytes) /\ Len(f) \in Nat
      BY <2>2, FrameOfSent
    <3>3. /\ t \in Seq(Numbering) /\ Len(t) = Len(f)
          /\ \A i \in 1..Len(f) : t[i].byte = f[i] /\ t[i].msg = n
      BY <2>2, <3>2, NumberedAt
    <3>4. /\ x + Len(f) <= Len(Rest)
          /\ \A i \in 1..Len(f) : Rest[x + i].byte = f[i] /\ Rest[x + i].msg = n
      BY <3>1 DEF Placed
    <3>5. Rest \in Seq(Numbering) /\ Len(Rest) \in Nat
      BY <2>2, RestAt
    <3> HIDE DEF f, t
    <3> DEFINE u == SubSeq(Rest, x + 1, x + Len(t))
    <3>6. /\ u \in Seq(Numbering) /\ Len(u) = Len(t)
          /\ \A i \in 1..Len(t) : u[i] = Rest[x + i]
      BY <3>2, <3>3, <3>4, <3>5
    <3> HIDE DEF u
    <3>7. ASSUME NEW i \in 1..Len(u) PROVE u[i] = t[i]
      <4>1. i \in 1..Len(f) /\ i \in 1..Len(t)
        BY <3>3, <3>6
      <4>2. u[i] \in Numbering /\ t[i] \in Numbering
        BY <3>3, <3>6, <4>1
      <4>3. u[i].byte = t[i].byte /\ u[i].msg = t[i].msg
        BY <3>3, <3>4, <3>6, <4>1
      <4> QED
        BY <4>2, <4>3 DEF Numbering
    <3>8. u = t
      BY <3>3, <3>6, <3>7, SameSeq
    <3>9. x \in 0..Len(Rest) - Len(t)
      BY <3>2, <3>3, <3>4, <3>5
    <3> QED
      BY <3>8, <3>9 DEF Waits, Rest, u, t, f
  <2> QED
    BY <2>3, <2>4
<1> QED
  BY <1>1, StreamKept, PTL

----------------------------------------------------------------------------
(* Types.                                                                  *)

Items == [byte : Bytes, msg : 1..MaxSent]

LEMMA ItemsOfSent ==
  ASSUME NEW v \in Seq(Numbering), \A i \in 1..Len(v) : v[i].msg \in 1..MaxSent
  PROVE  v \in Seq(Items)
<1>1. ASSUME NEW i \in 1..Len(v) PROVE v[i] \in Items
  <2>1. v[i] \in Numbering /\ v[i].msg \in 1..MaxSent
    OBVIOUS
  <2> QED
    BY <2>1 DEF Numbering, Items
<1>2. v \in [1..Len(v) -> Items] /\ Len(v) \in Nat
  BY <1>1
<1> QED
  BY <1>2

\* What is taken is made of bytes of the stream.
LEMMA ExtractedItems ==
  ASSUME TypeInv, NumbersInv, TypeOK, NEW g \in Nat, NEW s \in Nat, NEW b \in Seq(Numbering),
         Takes(g, s, b)
  PROVE  extracted' \in Seq(Seq(Items))
<1> DEFINE m == SubSeq(b, 2, s - 2)
           c == Squashed(m)
<1>1. /\ Rest \in Seq(Numbering) /\ Len(Rest) \in Nat
      /\ Len(sent) \in Nat /\ Len(sent) <= MaxSent /\ MaxSent \in Nat
  BY RestAt, GpsBoundsAssumption DEF TypeOK
<1>2. /\ s \in 1..Len(b) /\ g + Len(b) <= Len(Rest)
      /\ \A i \in 1..Len(b) : b[i] = Rest[g + i]
      /\ extracted' = Append(extracted, c)
  BY DEF Takes
<1>3. m \in Seq(Numbering) /\ \A i \in 1..Len(m) : i + 1 \in 1..Len(b) /\ m[i] = b[i + 1]
  <2>1. /\ m \in Seq(Numbering) /\ Len(m) = (IF s >= 3 THEN s - 3 ELSE 0)
        /\ \A i \in 1..s - 3 : m[i] = b[i + 1]
    BY <1>2, ContentIs
  <2> HIDE DEF m
  <2> QED
    BY <1>2, <2>1
<1> HIDE DEF m
<1>4. c \in Seq(Numbering) /\ \A i \in 1..Len(c) : \E j \in 1..Len(m) : c[i] = m[j]
  BY <1>3, SquashedParts
<1> HIDE DEF c
<1>5. ASSUME NEW i \in 1..Len(c) PROVE c[i].msg \in 1..MaxSent
  <2>1. PICK j \in 1..Len(m) : c[i] = m[j]
    BY <1>4
  <2>2. c[i] = Rest[g + (j + 1)] /\ j + 1 \in 1..Len(b)
    BY <1>2, <1>3, <2>1
  <2>3. g + (j + 1) \in 1..Len(Rest)
    BY <1>1, <1>2, <2>2
  <2>4. c[i].msg \in 1..Len(sent)
    BY <2>2, <2>3 DEF NumbersInv
  <2> QED
    BY <1>1, <2>4
<1>6. c \in Seq(Items)
  BY <1>4, <1>5, ItemsOfSent
<1>7. extracted \in Seq(Seq(Items))
  BY DEF TypeOK, Items
<1> QED
  BY <1>2, <1>6, <1>7

LEMMA BoundsNext ==
  ASSUME TypeOK, Next
  PROVE  Len(sent') <= MaxSent /\ overruns' \in 0..MaxOverruns
<1>1. /\ sent \in Seq(Reports) /\ Len(sent) <= MaxSent /\ Len(sent) \in Nat
      /\ overruns \in 0..MaxOverruns /\ MaxSent \in Nat /\ MaxOverruns \in Nat
  BY GpsBoundsAssumption DEF TypeOK
<1>2. CASE \E r \in Reports : Send(r)
  BY <1>1, <1>2 DEF Send
<1>3. CASE \E from, to \in 1..Len(wire) : from <= to /\ Overrun(from, to)
  BY <1>1, <1>3 DEF Overrun
<1>4. CASE \E n \in 0..Len(wire) : Flush(n)
  BY <1>1, <1>4 DEF Flush
<1>5. CASE \E n \in 0..Len(wire) : ReadMessage(n)
  <2>1. UNCHANGED <<sent, overruns>>
    BY <1>5 DEF ReadMessage
  <2> QED
    BY <1>1, <2>1
<1> QED
  BY <1>2, <1>3, <1>4, <1>5 DEF Next

LEMMA OutcomeTypes ==
  ASSUME NEW m
  PROVE  Outcome(m) \in {"none", "message", "command", "raised"}
  BY DEF Outcome

LEMMA TypesNext ==
  ASSUME TypeInv, NumbersInv, TypeOK, Next
  PROVE  TypeOK'
<1>1. TypeInv' /\ NumbersInv'
  BY Step, NumbersNext
<1>2. Len(sent') <= MaxSent /\ overruns' \in 0..MaxOverruns /\ MaxSent \in Nat
  BY BoundsNext, GpsBoundsAssumption
<1>3. sent' \in Seq(Reports) /\ Len(sent') \in Nat /\ Len(sent) \in Nat
  BY <1>1, RestAt DEF TypeInv
<1>4. wire' \in Seq(Items) /\ buffer' \in Seq(Items)
  <2>1. /\ wire' \in Seq(Numbering) /\ buffer' \in Seq(Numbering)
        /\ Len(wire') \in Nat /\ Len(buffer') \in Nat
    BY <1>1 DEF TypeInv
  <2>2. /\ Len(Rest') = Len(buffer') + Len(wire')
        /\ \A i \in 1..Len(buffer') : Rest'[i] = buffer'[i]
        /\ \A i \in 1..Len(wire') : Rest'[Len(buffer') + i] = wire'[i]
    BY <2>1, ConcatAt DEF Rest
  <2>3. \A i \in 1..Len(Rest') : Rest'[i].msg \in 1..MaxSent
    BY <1>1, <1>2, <1>3 DEF NumbersInv
  <2>4. \A i \in 1..Len(buffer') : buffer'[i].msg \in 1..MaxSent
    BY <2>1, <2>2, <2>3
  <2>5. ASSUME NEW i \in 1..Len(wire') PROVE wire'[i].msg \in 1..MaxSent
    <3>1. Len(buffer') + i \in 1..Len(Rest')
      BY <2>1, <2>2
    <3> QED
      BY <2>2, <2>3, <3>1
  <2> QED
    BY <2>1, <2>4, <2>5, ItemsOfSent
<1>5. /\ result' \in {"none", "message", "command", "raised"}
      /\ damaged' \subseteq 1..Len(sent') /\ extracted' \in Seq(Seq(Items))
  <2>1. /\ result \in {"none", "message", "command", "raised"}
        /\ damaged \subseteq 1..Len(sent) /\ extracted \in Seq(Seq(Items))
    BY DEF TypeOK, Items
  <2>2. CASE \E r \in Reports : Grows(r)
    <3>1. PICK r \in Reports : Grows(r)
      BY <2>2
    <3>2. Len(sent') = Len(sent) + 1 /\ UNCHANGED <<extracted, damaged, result>>
      BY <3>1, GrownSent DEF Grows
    <3> QED
      BY <1>3, <2>1, <3>2
  <2>3. CASE \E p, q \in Nat : Loses(p, q)
    <3>1. PICK p, q \in Nat : Loses(p, q)
      BY <2>3
    <3>2. /\ q <= Len(Rest) /\ damaged' = damaged \cup {Rest[i].msg : i \in p + 1..q}
          /\ result' \in {result, "none"} /\ UNCHANGED <<sent, extracted>>
      BY <3>1 DEF Loses, Cut, IsCut
    <3>3. \A i \in p + 1..q : i \in 1..Len(Rest)
      BY <3>2, RestAt
    <3>4. {Rest[i].msg : i \in p + 1..q} \subseteq 1..Len(sent)
      BY <3>3 DEF NumbersInv
    <3> QED
      BY <2>1, <3>2, <3>4
  <2>4. CASE \E g \in Nat : Strips(g)
    BY <2>1, <2>4 DEF Strips
  <2>5. CASE \E g, s \in Nat : \E b \in Seq(Numbering) : Takes(g, s, b)
    <3>1. PICK g, s \in Nat : \E b \in Seq(Numbering) : Takes(g, s, b)
      BY <2>5
    <3>2. PICK b \in Seq(Numbering) : Takes(g, s, b)
      BY <3>1
    <3>3. extracted' \in Seq(Seq(Items))
      BY <3>2, ExtractedItems
    <3>4. result' \in {"none", "message", "command", "raised"} /\ UNCHANGED <<sent, damaged>>
      BY <3>2, OutcomeTypes DEF Takes
    <3> QED
      BY <2>1, <3>3, <3>4
  <2> QED
    BY <2>2, <2>3, <2>4, <2>5, Step
<1> QED
  BY <1>2, <1>3, <1>4, <1>5 DEF TypeOK, Items

\* The buffers, the reports sent and extracted and the results keep their
\* types: every byte in them is of a report that was sent.
THEOREM TypesKept == Spec => []TypeOK
<1>1. Init => TypeOK
  <2> SUFFICES ASSUME Init PROVE TypeOK
    OBVIOUS
  <2>1. /\ wire = << >> /\ buffer = << >> /\ result = "none" /\ sent = << >>
        /\ extracted = << >> /\ damaged = {} /\ overruns = 0
    BY DEF Init
  <2> QED
    BY <2>1, GpsBoundsAssumption DEF TypeOK
<1>2. StreamInv /\ TypeOK /\ [Next]_vars => TypeOK'
  <2> SUFFICES ASSUME StreamInv, TypeOK, [Next]_vars PROVE TypeOK'
    OBVIOUS
  <2>1. CASE Next
    BY <2>1, TypesNext DEF StreamInv
  <2>2. CASE UNCHANGED vars
    BY <2>2 DEF vars, TypeOK
  <2> QED
    BY <2>1, <2>2
<1> QED
  BY <1>1, <1>2, StreamKept, PTL DEF Spec

=============================================================================
