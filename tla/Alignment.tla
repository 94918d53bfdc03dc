------------------------------ MODULE Alignment ------------------------------
(***************************************************************************)
(* The alignment of the analog-to-digital converters: six stages in a row, *)
(* each of which searches the settings whose measured mean is the target.  *)
(* A stage has one LinearInvertedIntegerRootFinder per setting, and steps  *)
(* all of them with every measurement until all are done at once.          *)
(*                                                                         *)
(* What the hardware measures is abstract: a response gives, for every     *)
(* setting, the set of values of target - mean that a measurement may      *)
(* have; more than one value is noise.  A measurement may also time out.   *)
(***************************************************************************)
EXTENDS Settings, FiniteSets, Sequences

CONSTANTS Top,         \* the highest setting (255 in the code)
          Shared,      \* finders of full scale and common offset: one per device
          Individual,  \* finders of the offsets and the gains: four per device
          Responses,   \* the responses a setting may have
          Original     \* the trigger condition before the alignment

ASSUME AlignmentAssumption ==
  /\ Top \in Nat /\ Top > 1
  /\ Responses \subseteq [0..Top -> (SUBSET Int) \ {{}}]
  /\ Original \in 1..127

VARIABLES pc,         \* what align() does next
          stage,      \* the stage it is at
          response,   \* the response of each setting of this stage
          finders,    \* the root finders of this stage
          setting,    \* the settings in the hardware that this stage aligns
          trigger     \* config.trigger_condition

vars == <<pc, stage, response, finders, setting, trigger>>

Stages == <<"full_scale", "common_offset", "individual_offsets",
            "full_scale", "common_offset", "individual_gains">>

Finders(s) ==
  IF Stages[s] \in {"full_scale", "common_offset"} THEN Shared ELSE Individual

Abs(v) == IF v < 0 THEN -v ELSE v

-----------------------------------------------------------------------------
(* A root finder: the ends a <= b of its interval, the values fa and fb     *)
(* measured there, the setting x to try next and whether it is the result. *)

SignOfPositive(v) == IF v <= 0 THEN -1 ELSE 1
Sign(v) == IF v < 0 THEN -1 ELSE 1

\* The test of _set_interval, which raises if it fails.
HasRoot(fa, fb) == (fa >= 0 /\ fb <= 0) \/ (fa <= 0 /\ fb >= 0)

GuessesCut(o) ==
  {x \in 0..Top : LET d == Abs(o.fb - o.fa)
                      n == Abs(o.a * o.fb - o.b * o.fa)
                  IN  d > 0 /\ x = n \div d}

\* The integers nearest to the root of the line through both ends: two when it
\* is halfway, where the rounding errors decide.  None if the line is flat.
Guesses(o) ==
  {x \in 0..Top :
     /\ o.fa # o.fb
     /\ 2 * Abs(x * (o.fb - o.fa) - (o.a * o.fb - o.b * o.fa)) <= Abs(o.fb - o.fa)}

Bracket(a, b, fa, fb, x) ==
  [a |-> a, b |-> b, fa |-> fa, fb |-> fb, x |-> x, done |-> FALSE]

\* _set_interval: the end with the sign of the value at x moves to x.
Narrowed(o, fx) ==
  IF Sign(fx) = Sign(o.fa) THEN Bracket(o.x, o.b, fx, o.fb, o.x)
                           ELSE Bracket(o.a, o.x, o.fa, fx, o.x)

IsOptimum(o, fx) == fx = 0 \/ o.a = o.b \/ o.b - o.a = 1

At(o, x, done) ==
  [a |-> o.a, b |-> o.b, fa |-> o.fa, fb |-> o.fb, x |-> x, done |-> done]

\* next_step once the interval is set: the finders it may become.
SteppedToOptimum(o, fx) ==
  IF IsOptimum(o, fx) THEN {At(o, o.x, TRUE)}
                      ELSE {At(o, x, FALSE) : x \in Guesses(o)}

Stepped(o, fx) ==
  IF IsOptimum(o, fx) THEN {At(o, o.x, TRUE)}
                      ELSE {At(o, x, x \in {o.a, o.b}) : x \in Guesses(o)}

-----------------------------------------------------------------------------
CalibrationCondition == BuildTriggerCondition(
  [num_low |-> 0, num_high |-> 0, or_not_and |-> FALSE,
   use_external |-> FALSE, calibration_mode |-> TRUE])

Init ==
  /\ pc = "start" /\ stage = 1
  /\ response = <<>> /\ finders = <<>> /\ setting = <<>>
  /\ trigger = Original

\* align up to its first stage: one event per second instead of showers.
Start ==
  /\ pc = "start"
  /\ pc' = "ends"
  /\ trigger' = CalibrationCondition
  /\ UNCHANGED <<stage, response, finders, setting>>

\* The values one measurement of these settings may give.
Measured(resp, x) ==
  {f \in [DOMAIN resp -> UNION {resp[c][x[c]] : c \in DOMAIN resp}] :
     \A c \in DOMAIN resp : f[c] \in resp[c][x[c]]}

\* The start of a stage: both ends are measured, the finders made, and their
\* first guesses taken.
MeasureEnds ==
  /\ pc = "ends"
  /\ \E resp \in [Finders(stage) -> Responses] :
       \E fa \in Measured(resp, [c \in Finders(stage) |-> 0]),
          fb \in Measured(resp, [c \in Finders(stage) |-> Top]) :
         /\ \A c \in Finders(stage) : HasRoot(fa[c], fb[c])
         /\ \E x \in [Finders(stage) -> 0..Top] :
              /\ finders' = [c \in Finders(stage) |-> Bracket(0, Top, fa[c], fb[c], x[c])]
              /\ \A c \in Finders(stage) : x[c] \in Guesses(finders'[c])
              /\ setting' = x
         /\ response' = resp
  /\ pc' = "round"
  /\ UNCHANGED <<stage, trigger>>

\* No sign change between the ends, or the value 0 at both.
RaiseAtEnds ==
  /\ pc = "ends"
  /\ \E resp \in [Finders(stage) -> Responses] :
       \E fa \in Measured(resp, [c \in Finders(stage) |-> 0]),
          fb \in Measured(resp, [c \in Finders(stage) |-> Top]) :
         \E c \in Finders(stage) : ~ HasRoot(fa[c], fb[c]) \/ fa[c] = fb[c]
  /\ pc' = "dead"
  /\ UNCHANGED <<stage, response, finders, setting, trigger>>

\* A round of the loop.  The last guesses are set when all finders are done,
\* and measured, by a next round, when one is not: either way they are set.
Round ==
  /\ pc = "round"
  /\ \E f \in Measured(response, setting) :
       LET o == [c \in DOMAIN finders |-> Narrowed(finders[c], f[c])]
       IN  /\ \A c \in DOMAIN finders : HasRoot(o[c].fa, o[c].fb)
           /\ \E next \in [DOMAIN finders ->
                             UNION {Stepped(o[c], f[c]) : c \in DOMAIN finders}] :
                /\ \A c \in DOMAIN finders : next[c] \in Stepped(o[c], f[c])
                /\ finders' = next
                /\ setting' = [c \in DOMAIN next |-> next[c].x]
                /\ pc' = IF \A c \in DOMAIN next : next[c].done THEN "aligned" ELSE "round"
  /\ UNCHANGED <<stage, response, trigger>>

RaiseInRound ==
  /\ pc = "round"
  /\ \E f \in Measured(response, setting) : \E c \in DOMAIN finders :
       LET o == Narrowed(finders[c], f[c]) IN ~ HasRoot(o.fa, o.fb)
  /\ pc' = "dead"
  /\ UNCHANGED <<stage, response, finders, setting, trigger>>

\* No measured data message within 15 s: the mean of None is asked for.
MeasurementTimesOut ==
  /\ pc \in {"ends", "round"}
  /\ pc' = "dead"
  /\ UNCHANGED <<stage, response, finders, setting, trigger>>

NextStage ==
  /\ pc = "aligned" /\ stage < Len(Stages)
  /\ pc' = "ends" /\ stage' = stage + 1
  /\ response' = <<>> /\ finders' = <<>> /\ setting' = <<>>
  /\ UNCHANGED trigger

\* The trigger condition is restored here only, and by no exception.
Finish ==
  /\ pc = "aligned" /\ stage = Len(Stages)
  /\ pc' = "done"
  /\ trigger' = Original
  /\ UNCHANGED <<stage, response, finders, setting>>

Next == \/ Start \/ MeasureEnds \/ RaiseAtEnds \/ Round \/ RaiseInRound
        \/ MeasurementTimesOut \/ NextStage \/ Finish

\* A call of align() runs until it returns; each measurement takes 15 s at most.
Spec == Init /\ [][Next]_vars
        /\ WF_vars(Start) /\ WF_vars(MeasureEnds \/ RaiseAtEnds)
        /\ WF_vars(Round \/ RaiseInRound) /\ WF_vars(NextStage \/ Finish)

-----------------------------------------------------------------------------
Finder == [a : 0..Top, b : 0..Top, fa : Int, fb : Int, x : 0..Top, done : BOOLEAN]

\* The stages have their finders, each with a bracket, whose guess lies in it.
TypeOK ==
  /\ pc \in {"start", "ends", "round", "aligned", "done", "dead"}
  /\ stage \in 1..Len(Stages)
  /\ trigger \in {Original, CalibrationCondition}
  /\ pc \in {"round", "aligned"} =>
       /\ finders \in [Finders(stage) -> Finder]
       /\ response \in [Finders(stage) -> Responses]
       /\ setting = [c \in Finders(stage) |-> finders[c].x]
       /\ \A c \in Finders(stage) : HasRoot(finders[c].fa, finders[c].fb)

\* A response without noise whose values lie on a line.
Value(r, x) == CHOOSE v \in r[x] : TRUE
Slope(r) == Value(r, 1) - Value(r, 0)
LineAt(r, x) == Value(r, 0) + Slope(r) * x
Linear(r) == \A x \in 0..Top : r[x] = {LineAt(r, x)}

\* Where the hardware responds linearly, the setting that a stage leaves is the
\* best of all, whatever the noise in the channels aligned beside it, which
\* has this one stepped again and again (bracket.py:86-122).
LinearFindsBest ==
  pc = "aligned" => \A c \in DOMAIN response :
    LET r == response[c]
    IN  Linear(r) => \A x \in 0..Top : Abs(Value(r, setting[c])) <= Abs(Value(r, x))

\* Once the ends have a root between them no noise takes it away, except where
\* the lower end already was on target and the upper is above it: then 0 has
\* the sign of the upper end, and a second measurement of the lower end may
\* raise (bracket.py:16-24, 34-38).
RootIsKept ==
  [][RaiseInRound => \E c \in DOMAIN finders : finders[c].fa = 0 /\ finders[c].fb > 0]_vars

\* Every alignment ends, with settings or with an exception, also when noise
\* makes finders that were done go on (align_adcs.py:92-95).
AlignmentEnds == <>(pc \in {"done", "dead"})

=============================================================================
