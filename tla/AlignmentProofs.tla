-------------------------- MODULE AlignmentProofs --------------------------
(***************************************************************************)
(* What the bytes of module Settings preserve; and the brackets of the     *)
(* alignment, for any number of settings, any finders and any responses,   *)
(* noisy ones among them.                                                  *)
(***************************************************************************)
EXTENDS Alignment, TLAPS

-----------------------------------------------------------------------------
(* The settings.                                                             *)

\* A trigger condition other than the calibration's is read from its byte as it
\* was written if it is codable, and only then (config.py:128-189).
THEOREM TriggerRoundTrip ==
  ASSUME NEW c \in Conditions, ~c.calibration_mode
  PROVE  UnpackTriggerCondition(BuildTriggerCondition(c)) = c <=> Codable(c)
  BY DEF Conditions, Codable, UnpackTriggerCondition, BuildTriggerCondition

\* Whatever the value is and however its float is rounded, a mapped setting is
\* within the range of settings, never above the value it stands for, and at most
\* one step below it (util.py:19-57, config.py:105).
THEOREM SettingInRange ==
  ASSUME NEW v \in Int, NEW low \in Int, NEW high \in Int, low < high,
         NEW slow \in Int, NEW shigh \in Int, slow <= shigh,
         NEW s \in MapSettings(v, low, high, slow, shigh)
  PROVE  /\ s \in slow..shigh
         /\ LET steps == (Clipped(v, low, high) - low) * (shigh - slow)
            IN  /\ (s - slow) * (high - low) <= steps
                /\ steps <= (s + 1 - slow) * (high - low)
<1> DEFINE u == Clipped(v, low, high) - low
           d == high - low
           w == shigh - slow
           q == (u * w) \div d
<1>0. s \in {(slow + q) - 1, slow + q}
  BY DEF MapSettings
<1>1. u \in 0..d /\ d \in Nat \ {0} /\ w \in Nat
  BY DEF Clipped
<1>2. s - slow \in {q, q - 1} /\ (s - slow = q - 1 => (u * w) % d = 0 /\ u * w # 0)
  <2> DEFINE exactly == (u * w) % d = 0 /\ u * w # 0 /\ v < high
  <2>1. MapSettings(v, low, high, slow, shigh) =
          IF exactly THEN {(slow + q) - 1, slow + q} ELSE {slow + q}
    <3>1. CASE exactly
      <4>1. MapSettings(v, low, high, slow, shigh) = {(slow + q) - 1, slow + q}
        BY <3>1, Zenon DEF MapSettings
      <4> QED
        BY <3>1, <4>1
    <3>2. CASE ~exactly
      <4>1. MapSettings(v, low, high, slow, shigh) = {slow + q}
        BY <3>2, Zenon DEF MapSettings
      <4> QED
        BY <3>2, <4>1
    <3> QED
      BY <3>1, <3>2
  <2>2. q \in Int
    BY <1>1
  <2>3. exactly => (u * w) % d = 0 /\ u * w # 0
    OBVIOUS
  <2> HIDE DEF q, u, w, d, exactly
  <2>4. CASE exactly
    BY <2>1, <2>2, <2>3, <2>4
  <2>5. CASE ~exactly
    <3>1. s = slow + q
      BY <2>1, <2>5
    <3> QED
      BY <2>2, <3>1
  <2> QED
    BY <2>4, <2>5
<1> HIDE DEF u, d, w
<1>3. u * w \in Nat /\ u * w <= d * w
  BY <1>1
<1>4. q \in Nat /\ q * d <= u * w /\ u * w < (q + 1) * d
  BY <1>1, <1>3
<1>5. q <= w
  BY <1>1, <1>3, <1>4
<1>6. s - slow = q - 1 => q >= 1 /\ q * d = u * w
  BY <1>1, <1>2, <1>3, <1>4
<1> QED
  <2> HIDE DEF q
  <2>1. s - slow \in 0..w
    BY <1>1, <1>2, <1>4, <1>5, <1>6
  <2>2. (s - slow) * d <= u * w
    BY <1>1, <1>2, <1>3, <1>4, <1>6
  <2>3. u * w <= (s - slow + 1) * d
    BY <1>1, <1>2, <1>3, <1>4, <1>6
  <2>4. s \in Int
    BY <1>0, <1>4
  <2>5. s \in slow..shigh
    BY <2>1, <2>4 DEF w
  <2> QED
    BY <2>2, <2>3, <2>5 DEF u, d, w

-----------------------------------------------------------------------------
(* The brackets.                                                             *)

\* A measured value is an integer, and there is one for every finder.
LEMMA MeasuredType ==
  ASSUME NEW S, NEW resp \in [S -> Responses], NEW x \in [S -> 0..Top],
         NEW f \in Measured(resp, x)
  PROVE  f \in [S -> Int]
<1>1. \A c \in S : f[c] \in resp[c][x[c]]
  BY DEF Measured
<1>2. \A c \in S : resp[c][x[c]] \subseteq Int
  BY AlignmentAssumption
<1> QED
  BY <1>1, <1>2 DEF Measured

LEMMA BracketType ==
  ASSUME NEW a \in 0..Top, NEW b \in 0..Top, NEW fa \in Int, NEW fb \in Int,
         NEW x \in 0..Top
  PROVE  Bracket(a, b, fa, fb, x) \in Finder
  BY DEF Bracket, Finder

LEMMA NarrowedType ==
  ASSUME NEW o \in Finder, NEW fx \in Int
  PROVE  Narrowed(o, fx) \in Finder
<1>1. /\ o.a \in 0..Top /\ o.b \in 0..Top /\ o.x \in 0..Top
      /\ o.fa \in Int /\ o.fb \in Int
  BY DEF Finder
<1> QED
  BY <1>1, BracketType DEF Narrowed

\* A step after the interval is set moves neither end.
LEMMA SteppedType ==
  ASSUME NEW o \in Finder, NEW fx \in Int, NEW n \in Stepped(o, fx)
  PROVE  /\ n \in Finder
         /\ n.fa = o.fa /\ n.fb = o.fb
<1>1. PICK x \in 0..Top, done \in BOOLEAN : n = At(o, x, done)
  <2>1. CASE IsOptimum(o, fx)
    BY <2>1 DEF Stepped, Finder
  <2>2. CASE ~ IsOptimum(o, fx)
    <3>1. PICK x \in Guesses(o) : n = At(o, x, x \in {o.a, o.b})
      BY <2>2 DEF Stepped
    <3>2. x \in 0..Top
      BY DEF Guesses
    <3>3. (x \in {o.a, o.b}) \in BOOLEAN
      OBVIOUS
    <3> QED
      BY <3>1, <3>2, <3>3, Zenon
  <2> QED
    BY <2>1, <2>2
<1> QED
  BY <1>1 DEF At, Finder

LEMMA InitTypes == Init => TypeOK
  BY DEF Init, TypeOK, Stages

LEMMA MeasureEndsTypes ==
  ASSUME TypeOK, MeasureEnds
  PROVE  TypeOK'
<1> DEFINE Made(resp, fa, fb) ==
      /\ \A c \in Finders(stage) : HasRoot(fa[c], fb[c])
      /\ \E x \in [Finders(stage) -> 0..Top] :
           /\ finders' = [c \in Finders(stage) |-> Bracket(0, Top, fa[c], fb[c], x[c])]
           /\ \A c \in Finders(stage) : x[c] \in Guesses(finders'[c])
           /\ setting' = x
      /\ response' = resp
<1>1. PICK resp \in [Finders(stage) -> Responses] :
        \E fa \in Measured(resp, [c \in Finders(stage) |-> 0]),
           fb \in Measured(resp, [c \in Finders(stage) |-> Top]) : Made(resp, fa, fb)
  BY DEF MeasureEnds
<1>2. PICK fa \in Measured(resp, [c \in Finders(stage) |-> 0]),
           fb \in Measured(resp, [c \in Finders(stage) |-> Top]) : Made(resp, fa, fb)
  BY <1>1
<1>3. PICK x \in [Finders(stage) -> 0..Top] :
        /\ finders' = [c \in Finders(stage) |-> Bracket(0, Top, fa[c], fb[c], x[c])]
        /\ setting' = x
  BY <1>2
<1>4. fa \in [Finders(stage) -> Int] /\ fb \in [Finders(stage) -> Int]
  <2>1. [c \in Finders(stage) |-> 0] \in [Finders(stage) -> 0..Top]
    BY AlignmentAssumption
  <2>2. [c \in Finders(stage) |-> Top] \in [Finders(stage) -> 0..Top]
    BY AlignmentAssumption
  <2> QED
    BY <2>1, <2>2, MeasuredType
<1>5. ASSUME NEW c \in Finders(stage)
      PROVE  /\ finders'[c] \in Finder
             /\ finders'[c].x = x[c]
             /\ HasRoot(finders'[c].fa, finders'[c].fb)
  <2>1. finders'[c] = Bracket(0, Top, fa[c], fb[c], x[c])
    BY <1>3
  <2>2. Bracket(0, Top, fa[c], fb[c], x[c]) \in Finder
    <3>1. 0 \in 0..Top /\ Top \in 0..Top
      BY AlignmentAssumption
    <3>2. fa[c] \in Int /\ fb[c] \in Int /\ x[c] \in 0..Top
      BY <1>4
    <3> QED
      BY <3>1, <3>2, BracketType
  <2> QED
    BY <1>2, <2>1, <2>2 DEF Bracket
<1>6. finders' \in [Finders(stage) -> Finder]
  BY <1>3, <1>5
<1>7. setting' = [c \in Finders(stage) |-> finders'[c].x]
  BY <1>3, <1>5
<1>8. stage' = stage /\ trigger' = trigger /\ pc' = "round" /\ response' = resp
  BY <1>2 DEF MeasureEnds
<1> QED
  BY <1>5, <1>6, <1>7, <1>8 DEF TypeOK, Finders

LEMMA RoundTypes ==
  ASSUME TypeOK, Round
  PROVE  TypeOK'
<1>1. /\ pc = "round"
      /\ finders \in [Finders(stage) -> Finder]
      /\ response \in [Finders(stage) -> Responses]
      /\ setting \in [Finders(stage) -> 0..Top]
  BY DEF TypeOK, Round, Finder
<1>2. PICK f \in Measured(response, setting) :
        /\ \A c \in DOMAIN finders :
             HasRoot(Narrowed(finders[c], f[c]).fa, Narrowed(finders[c], f[c]).fb)
        /\ DOMAIN finders' = DOMAIN finders
        /\ finders' = [c \in DOMAIN finders |-> finders'[c]]
        /\ \A c \in DOMAIN finders : finders'[c] \in Stepped(Narrowed(finders[c], f[c]), f[c])
        /\ setting' = [c \in DOMAIN finders' |-> finders'[c].x]
        /\ pc' \in {"aligned", "round"}
  BY DEF Round
<1>3. f \in [Finders(stage) -> Int]
  BY <1>1, MeasuredType
<1>4. ASSUME NEW c \in Finders(stage)
      PROVE  finders'[c] \in Finder /\ HasRoot(finders'[c].fa, finders'[c].fb)
  <2>1. finders[c] \in Finder /\ f[c] \in Int
    BY <1>1, <1>3
  <2>2. Narrowed(finders[c], f[c]) \in Finder
    BY <2>1, NarrowedType
  <2>3. finders'[c] \in Stepped(Narrowed(finders[c], f[c]), f[c])
    BY <1>1, <1>2
  <2>4. HasRoot(Narrowed(finders[c], f[c]).fa, Narrowed(finders[c], f[c]).fb)
    BY <1>1, <1>2
  <2> QED
    BY <2>1, <2>2, <2>3, <2>4, SteppedType
<1>5. finders' \in [Finders(stage) -> Finder]
  BY <1>1, <1>2, <1>4
<1> QED
  BY <1>1, <1>2, <1>4, <1>5 DEF Round, TypeOK

LEMMA OtherTypes ==
  ASSUME TypeOK,
         Start \/ RaiseAtEnds \/ RaiseInRound \/ MeasurementTimesOut \/ NextStage
           \/ Finish \/ UNCHANGED vars
  PROVE  TypeOK'
<1>1. CASE Start
  BY <1>1 DEF Start, TypeOK
<1>2. CASE RaiseAtEnds \/ RaiseInRound \/ MeasurementTimesOut
  BY <1>2 DEF RaiseAtEnds, RaiseInRound, MeasurementTimesOut, TypeOK
<1>3. CASE NextStage
  <2>1. stage + 1 \in 1..Len(Stages)
    BY <1>3 DEF NextStage, TypeOK, Stages
  <2> QED
    BY <1>3, <2>1 DEF NextStage, TypeOK
<1>4. CASE Finish
  BY <1>4 DEF Finish, TypeOK
<1>5. CASE UNCHANGED vars
  BY <1>5 DEF vars, TypeOK
<1> QED
  BY <1>1, <1>2, <1>3, <1>4, <1>5

LEMMA NextTypes == TypeOK /\ [Next]_vars => TypeOK'
  BY MeasureEndsTypes, RoundTypes, OtherTypes DEF Next

\* Every finder has a value of each sign, or zero, at the ends of its interval,
\* whatever the noise (bracket.py:16-24).
THEOREM BracketsKept == Spec => []TypeOK
  BY InitTypes, NextTypes, PTL DEF Spec

\* The two brackets a measurement may leave: only a lower end on target with an
\* upper end above it can lose the root.
LEMMA LossNeedsTargetAtEnd ==
  ASSUME NEW o \in Finder, HasRoot(o.fa, o.fb), NEW fx \in Int,
         ~ HasRoot(Narrowed(o, fx).fa, Narrowed(o, fx).fb)
  PROVE  o.fa = 0 /\ o.fb > 0
<1>1. CASE Sign(fx) = Sign(o.fa)
  <2>1. Narrowed(o, fx).fa = fx /\ Narrowed(o, fx).fb = o.fb
    BY <1>1 DEF Narrowed, Bracket
  <2> QED
    BY <1>1, <2>1 DEF HasRoot, Sign, Finder
<1>2. CASE Sign(fx) # Sign(o.fa)
  <2>1. Narrowed(o, fx).fa = o.fa /\ Narrowed(o, fx).fb = fx
    BY <1>2 DEF Narrowed, Bracket
  <2> QED
    BY <1>2, <2>1 DEF HasRoot, Sign, Finder
<1> QED
  BY <1>1, <1>2

\* No noise takes the root away, but where the lower end was on target and the
\* upper one above it (bracket.py:16-24, 34-38).
THEOREM NoiseCostsNoRoot == Spec => RootIsKept
<1>1. ASSUME TypeOK, RaiseInRound
      PROVE  \E c \in DOMAIN finders : finders[c].fa = 0 /\ finders[c].fb > 0
  <2>1. /\ finders \in [Finders(stage) -> Finder]
        /\ response \in [Finders(stage) -> Responses]
        /\ setting \in [Finders(stage) -> 0..Top]
        /\ \A c \in Finders(stage) : HasRoot(finders[c].fa, finders[c].fb)
    BY <1>1 DEF TypeOK, RaiseInRound, Finder
  <2>2. PICK f \in Measured(response, setting), c \in DOMAIN finders :
          ~ HasRoot(Narrowed(finders[c], f[c]).fa, Narrowed(finders[c], f[c]).fb)
    BY <1>1 DEF RaiseInRound
  <2>3. finders[c] \in Finder /\ f[c] \in Int /\ HasRoot(finders[c].fa, finders[c].fb)
    BY <2>1, MeasuredType
  <2> QED
    BY <2>2, <2>3, LossNeedsTargetAtEnd
<1>2. TypeOK /\ [Next]_vars
        => [RaiseInRound => \E c \in DOMAIN finders : finders[c].fa = 0 /\ finders[c].fb > 0]_vars
  BY <1>1
<1> QED
  BY <1>2, BracketsKept, PTL DEF Spec, RootIsKept

-----------------------------------------------------------------------------
(* A linear response.                                                        *)

LEMMA AbsType == \A v \in Int : Abs(v) \in Nat
  BY DEF Abs

LEMMA ProductSigns ==
  ASSUME NEW m \in Int, NEW w \in Int
  PROVE  Abs(m * w) = Abs(m) * Abs(w)
<1>1. CASE m >= 0 /\ w >= 0
  <2>1. m * w >= 0
    BY <1>1
  <2> QED
    BY <1>1, <2>1 DEF Abs
<1>2. CASE m < 0 /\ w < 0
  <2>1. (-m) * (-w) = m * w /\ (-m) * (-w) >= 0
    BY <1>2
  <2> QED
    BY <1>2, <2>1 DEF Abs
<1>3. CASE m >= 0 /\ w < 0
  <2>1. m * (-w) = -(m * w) /\ m * (-w) >= 0
    BY <1>3
  <2> QED
    BY <1>3, <2>1 DEF Abs
<1>4. CASE m < 0 /\ w >= 0
  <2>1. (-m) * w = -(m * w) /\ (-m) * w >= 0
    BY <1>4
  <2> QED
    BY <1>4, <2>1 DEF Abs
<1> QED
  BY <1>1, <1>2, <1>3, <1>4

\* A positive factor can be cancelled.
LEMMA Cancel ==
  ASSUME NEW m \in Nat \ {0}, NEW u \in Nat, NEW s \in Nat, 2 * (m * u) <= m * s
  PROVE  2 * u <= s
<1>1. SUFFICES ASSUME s + 1 <= 2 * u PROVE FALSE
  OBVIOUS
<1>2. m * (s + 1) <= m * (2 * u)
  BY <1>1
<1>3. m * (s + 1) = m * s + m /\ m * (2 * u) = 2 * (m * u)
  OBVIOUS
<1> QED
  BY <1>2, <1>3

\* The guess between two points of a line is at most half a step off the root.
LEMMA GuessIsClose ==
  ASSUME NEW a \in Int, NEW b \in Int, NEW v \in Int, NEW s \in Int, NEW x \in Int,
         NEW fa, NEW fb, fa = v + s * a, fb = v + s * b, fa # fb,
         2 * Abs(x * (fb - fa) - (a * fb - b * fa)) <= Abs(fb - fa)
  PROVE  2 * Abs(v + s * x) <= Abs(s)
<1> DEFINE m == b - a
           w == v + s * x
<1>1. fb - fa = m * s
  OBVIOUS
<1>2. x * (fb - fa) - (a * fb - b * fa) = m * w
  OBVIOUS
<1>3. m \in Int /\ w \in Int /\ m # 0
  BY <1>1
<1>4. Abs(m * s) = Abs(m) * Abs(s) /\ Abs(m * w) = Abs(m) * Abs(w)
  BY <1>3, ProductSigns
<1>5. Abs(m) \in Nat \ {0} /\ Abs(w) \in Nat /\ Abs(s) \in Nat
  BY <1>3 DEF Abs
<1>6. 2 * (Abs(m) * Abs(w)) <= Abs(m) * Abs(s)
  BY <1>1, <1>2, <1>4
<1> HIDE DEF m, w
<1>7. 2 * Abs(w) <= Abs(s)
  BY <1>5, <1>6, Cancel
<1> QED
  BY <1>7 DEF w

\* And then no other setting is nearer to the target.
LEMMA CloseIsBest ==
  ASSUME NEW v \in Int, NEW s \in Int, NEW x \in Int, NEW y \in Int,
         2 * Abs(v + s * x) <= Abs(s)
  PROVE  Abs(v + s * x) <= Abs(v + s * y)
<1> DEFINE d == y - x
           w == v + s * x
<1>1. v + s * y = w + s * d
  OBVIOUS
<1>2. d \in Int /\ w \in Int
  OBVIOUS
<1>3. CASE d = 0
  <2>1. v + s * y = w
    BY <1>1, <1>3
  <2> QED
    BY <2>1, <1>2 DEF Abs
<1>4. CASE d # 0
  <2>1. Abs(s * d) = Abs(s) * Abs(d) /\ Abs(s) \in Nat /\ Abs(d) \in Nat \ {0}
    BY <1>2, <1>4, ProductSigns DEF Abs
  <2>2. Abs(s) <= Abs(s) * Abs(d)
    BY <2>1
  <2> DEFINE e == s * d
  <2>3. e \in Int /\ Abs(s) <= Abs(e)
    BY <1>2, <2>1, <2>2
  <2>4. 2 * Abs(w) <= Abs(s) /\ v + s * y = w + e
    BY <1>1
  <2> HIDE DEF e, w
  <2>5. Abs(w) <= Abs(w + e)
    BY <1>2, <2>3, <2>4, AbsType DEF Abs
  <2> QED
    BY <2>4, <2>5 DEF w
<1> QED
  BY <1>3, <1>4

LEMMA LineType ==
  ASSUME NEW r \in Responses
  PROVE  Value(r, 0) \in Int /\ Slope(r) \in Int
<1>1. ASSUME NEW x \in 0..Top PROVE Value(r, x) \in Int
  <2>1. r[x] \subseteq Int /\ r[x] # {}
    BY AlignmentAssumption
  <2>2. Value(r, x) \in r[x]
    BY <2>1 DEF Value
  <2> QED
    BY <2>1, <2>2
<1>2. 0 \in 0..Top /\ 1 \in 0..Top
  BY AlignmentAssumption
<1> QED
  BY <1>1, <1>2 DEF Slope

\* A finder's ends are points of the line, and its guess is close to the root.
OnLine(r, o) == o.fa = LineAt(r, o.a) /\ o.fb = LineAt(r, o.b)
Close(r, x) == 2 * Abs(LineAt(r, x)) <= Abs(Slope(r))

\* A channel with a linear response keeps both through all rounds, also through
\* those it takes only because another channel is not done.
LinesInv ==
  pc \in {"round", "aligned"} =>
    \A c \in Finders(stage) :
      Linear(response[c]) =>
        OnLine(response[c], finders[c]) /\ Close(response[c], finders[c].x)

LEMMA GuessesAreClose ==
  ASSUME NEW r \in Responses, NEW o \in Finder, OnLine(r, o), NEW x \in Guesses(o)
  PROVE  Close(r, x)
<1>1. /\ x \in Int /\ o.fa # o.fb
      /\ 2 * Abs(x * (o.fb - o.fa) - (o.a * o.fb - o.b * o.fa)) <= Abs(o.fb - o.fa)
  BY DEF Guesses
<1>2. o.a \in Int /\ o.b \in Int
  BY DEF Finder
<1>3. o.fa = Value(r, 0) + Slope(r) * o.a /\ o.fb = Value(r, 0) + Slope(r) * o.b
  BY DEF OnLine, LineAt
<1>4. 2 * Abs(Value(r, 0) + Slope(r) * x) <= Abs(Slope(r))
  BY <1>1, <1>2, <1>3, LineType, GuessIsClose
<1> QED
  BY <1>4 DEF Close, LineAt

LEMMA StepsStayClose ==
  ASSUME NEW r \in Responses, NEW o \in Finder, NEW fx \in Int, OnLine(r, o),
         Close(r, o.x), fx = LineAt(r, o.x), NEW n \in Stepped(Narrowed(o, fx), fx)
  PROVE  OnLine(r, n) /\ Close(r, n.x)
<1> DEFINE p == Narrowed(o, fx)
<1>1. p \in Finder /\ p.x = o.x /\ OnLine(r, p)
  <2>1. p \in Finder
    BY NarrowedType
  <2>2. CASE Sign(fx) = Sign(o.fa)
    <3>1. p.a = o.x /\ p.b = o.b /\ p.fa = fx /\ p.fb = o.fb /\ p.x = o.x
      BY <2>2 DEF Narrowed, Bracket
    <3> QED
      BY <2>1, <3>1 DEF OnLine
  <2>3. CASE Sign(fx) # Sign(o.fa)
    <3>1. p.a = o.a /\ p.b = o.x /\ p.fa = o.fa /\ p.fb = fx /\ p.x = o.x
      BY <2>3 DEF Narrowed, Bracket
    <3> QED
      BY <2>1, <3>1 DEF OnLine
  <2> QED
    BY <2>2, <2>3
<1> HIDE DEF p
<1>2. PICK x, done : n = At(p, x, done) /\ (x = p.x \/ x \in Guesses(p))
  <2>1. CASE IsOptimum(p, fx)
    <3>1. n = At(p, p.x, TRUE)
      BY <2>1 DEF Stepped, p
    <3> QED
      BY <3>1
  <2>2. CASE ~IsOptimum(p, fx)
    <3>1. PICK x \in Guesses(p) : n = At(p, x, x \in {p.a, p.b})
      BY <2>2 DEF Stepped, p
    <3> QED
      BY <3>1
  <2> QED
    BY <2>1, <2>2
<1>3. n.a = p.a /\ n.b = p.b /\ n.fa = p.fa /\ n.fb = p.fb /\ n.x = x
  BY <1>2 DEF At
<1> QED
  BY <1>1, <1>2, <1>3, GuessesAreClose DEF OnLine

LEMMA LinesMeasureEnds ==
  ASSUME TypeOK, TypeOK', MeasureEnds
  PROVE  LinesInv'
<1>0. 0 \in 0..Top /\ Top \in 0..Top
  BY AlignmentAssumption
<1>1. PICK resp \in [Finders(stage) -> Responses] :
        \E fa \in Measured(resp, [c \in Finders(stage) |-> 0]),
           fb \in Measured(resp, [c \in Finders(stage) |-> Top]) :
          /\ \E x \in [Finders(stage) -> 0..Top] :
               /\ finders' = [c \in Finders(stage) |-> Bracket(0, Top, fa[c], fb[c], x[c])]
               /\ \A c \in Finders(stage) : x[c] \in Guesses(finders'[c])
          /\ response' = resp
  BY DEF MeasureEnds
<1>2. PICK fa \in Measured(resp, [c \in Finders(stage) |-> 0]),
           fb \in Measured(resp, [c \in Finders(stage) |-> Top]) :
        /\ \E x \in [Finders(stage) -> 0..Top] :
             /\ finders' = [c \in Finders(stage) |-> Bracket(0, Top, fa[c], fb[c], x[c])]
             /\ \A c \in Finders(stage) : x[c] \in Guesses(finders'[c])
        /\ response' = resp
  BY <1>1
<1>3. PICK x \in [Finders(stage) -> 0..Top] :
        /\ finders' = [c \in Finders(stage) |-> Bracket(0, Top, fa[c], fb[c], x[c])]
        /\ \A c \in Finders(stage) : x[c] \in Guesses(finders'[c])
  BY <1>2
<1>4. pc' = "round" /\ stage' = stage
  BY DEF MeasureEnds
<1>5. ASSUME NEW c \in Finders(stage), Linear(resp[c])
      PROVE  OnLine(resp[c], finders'[c]) /\ Close(resp[c], finders'[c].x)
  <2>1. fa[c] \in resp[c][0] /\ fb[c] \in resp[c][Top]
    BY DEF Measured
  <2>2. fa[c] = LineAt(resp[c], 0) /\ fb[c] = LineAt(resp[c], Top)
    BY <1>0, <1>5, <2>1 DEF Linear
  <2>3. finders'[c] = Bracket(0, Top, fa[c], fb[c], x[c]) /\ x[c] \in Guesses(finders'[c])
    BY <1>3
  <2>4. OnLine(resp[c], finders'[c]) /\ finders'[c].x = x[c]
    BY <2>2, <2>3 DEF OnLine, Bracket
  <2>5. finders'[c] \in Finder
    BY <1>4 DEF TypeOK, Finders
  <2> QED
    BY <2>3, <2>4, <2>5, GuessesAreClose
<1> QED
  BY <1>2, <1>4, <1>5 DEF LinesInv, Finders

LEMMA LinesRound ==
  ASSUME TypeOK, LinesInv, Round
  PROVE  LinesInv'
<1>1. /\ pc = "round" /\ UNCHANGED <<stage, response>>
      /\ finders \in [Finders(stage) -> Finder]
      /\ response \in [Finders(stage) -> Responses]
      /\ setting = [c \in Finders(stage) |-> finders[c].x]
      /\ setting \in [Finders(stage) -> 0..Top]
  BY DEF TypeOK, Round, Finder
<1>2. PICK f \in Measured(response, setting) :
        \A c \in DOMAIN finders : finders'[c] \in Stepped(Narrowed(finders[c], f[c]), f[c])
  BY DEF Round
<1>3. f \in [Finders(stage) -> Int]
  BY <1>1, MeasuredType
<1>4. ASSUME NEW c \in Finders(stage), Linear(response[c])
      PROVE  OnLine(response[c], finders'[c]) /\ Close(response[c], finders'[c].x)
  <2>1. OnLine(response[c], finders[c]) /\ Close(response[c], finders[c].x)
    BY <1>1, <1>4 DEF LinesInv
  <2>2. finders[c] \in Finder /\ f[c] \in Int /\ response[c] \in Responses
    BY <1>1, <1>3
  <2>3. f[c] = LineAt(response[c], finders[c].x)
    <3>1. f[c] \in response[c][setting[c]] /\ setting[c] \in 0..Top
      BY <1>1 DEF Measured
    <3> QED
      BY <1>1, <1>4, <3>1 DEF Linear
  <2> QED
    BY <1>1, <1>2, <2>1, <2>2, <2>3, StepsStayClose
<1> QED
  BY <1>1, <1>4 DEF LinesInv, Finders

LEMMA LinesNext == TypeOK /\ TypeOK' /\ LinesInv /\ [Next]_vars => LinesInv'
<1> SUFFICES ASSUME TypeOK, TypeOK', LinesInv, [Next]_vars PROVE LinesInv'
  OBVIOUS
<1>1. CASE \/ Start \/ RaiseAtEnds \/ RaiseInRound \/ MeasurementTimesOut \/ NextStage
           \/ Finish
  <2>1. pc' \notin {"round", "aligned"}
    BY <1>1 DEF Start, RaiseAtEnds, RaiseInRound, MeasurementTimesOut, NextStage, Finish
  <2> QED
    BY <2>1 DEF LinesInv
<1>2. CASE UNCHANGED vars
  BY <1>2 DEF vars, LinesInv, Finders
<1> QED
  BY <1>1, <1>2, LinesMeasureEnds, LinesRound DEF Next

\* Where the response is linear, whatever its slope and range and however noisy
\* the channels are that are aligned beside it: the setting that a stage leaves
\* is the best of all (bracket.py:86-122).
THEOREM LinesAreSolved == Spec => []LinearFindsBest
<1>1. Init => LinesInv
  BY DEF Init, LinesInv
<1>2. Spec => []LinesInv
  BY <1>1, LinesNext, BracketsKept, PTL DEF Spec
<1>3. TypeOK /\ LinesInv => LinearFindsBest
  <2> SUFFICES ASSUME TypeOK, LinesInv, pc = "aligned", NEW c \in DOMAIN response,
                      Linear(response[c]), NEW y \in 0..Top
               PROVE  Abs(Value(response[c], setting[c])) <= Abs(Value(response[c], y))
    BY DEF LinearFindsBest
  <2> DEFINE r == response[c]
  <2>1. c \in Finders(stage) /\ r \in Responses /\ setting[c] = finders[c].x
    BY DEF TypeOK
  <2>2. setting[c] \in 0..Top
    BY <2>1 DEF TypeOK, Finder
  <2>3. Close(r, setting[c])
    BY <2>1 DEF LinesInv
  <2>4. \A z \in 0..Top : Value(r, z) = LineAt(r, z)
    BY DEF Linear, Value
  <2>5. Abs(LineAt(r, setting[c])) <= Abs(LineAt(r, y))
    <3>1. Value(r, 0) \in Int /\ Slope(r) \in Int
      BY <2>1, LineType
    <3>2. 2 * Abs(Value(r, 0) + Slope(r) * setting[c]) <= Abs(Slope(r))
      BY <2>3 DEF Close, LineAt
    <3>3. setting[c] \in Int /\ y \in Int
      BY <2>2
    <3>4. Abs(Value(r, 0) + Slope(r) * setting[c]) <= Abs(Value(r, 0) + Slope(r) * y)
      BY <3>1, <3>2, <3>3, CloseIsBest
    <3> QED
      BY <3>4 DEF LineAt
  <2> QED
    BY <2>2, <2>4, <2>5
<1> QED
  BY <1>2, <1>3, BracketsKept, PTL

=============================================================================
