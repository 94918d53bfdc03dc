--------------------------- MODULE MuonlabProofs ---------------------------
(***************************************************************************)
(* What the Muonlab program puts into its table and into its answers, for  *)
(* any number of read-outs, errors, requests and pulled plugs.             *)
(***************************************************************************)
EXTENDS Muonlab, FiniteSetTheorems, TLAPS

----------------------------------------------------------------------------
(* Types.                                                                  *)

ChipTypes ==
  /\ pc \in {"open", "configure", "check", "read", "store", "poll", "answer",
             "ended", "dead"}
  /\ chip \in {"open", "closed", "fake"}
  /\ tries \in 0..2 /\ errors \in Nat /\ readErrors \in Nat

RowTypes ==
  /\ readouts \in Nat
  /\ data \in Unbound..readouts
  /\ table \in Seq(Nat) /\ \A i \in DOMAIN table : table[i] \in 1..readouts
  /\ fakes \subseteq 1..readouts

PipeTypes ==
  /\ http \in {"idle", "waiting", "gone"}
  /\ asked \in Nat /\ answers \in Seq(Nat)

TypeInv == ChipTypes /\ RowTypes /\ PipeTypes

----------------------------------------------------------------------------
(* The inductive invariants.                                               *)

\* How often a read-out may be stored again before the next one: the last one
\* once for the pass that is under way, and once for the open after an error.
Owed(d) ==
  IF d # data \/ Done THEN 0
  ELSE IF pc = "store" THEN (IF chip = "closed" THEN 2 ELSE 1)
  ELSE IF pc = "configure" \/ chip = "closed" THEN 1 ELSE 0

TimesInv ==
  /\ \A d \in 1..readouts : Times(d) + Owed(d) <= 1 + 2 * readErrors
  /\ pc = "open" => chip = "closed"
  /\ pc = "configure" => chip = "open"

\* Only a missing device makes anything up.
FakeInv == chip = "fake" \/ fakes # {} => missing

\* A server that waits has one request under way: in the pipe, at the other
\* process, or answered.
PipeInv ==
  /\ http = "idle" => ~request /\ pc # "answer" /\ answers = << >>
  /\ http = "waiting" =>
       /\ asked <= Len(table)
       /\ \/ request /\ pc # "answer" /\ answers = << >>
          \/ ~request /\ pc = "answer" /\ answers = << >>
          \/ /\ ~request /\ pc # "answer"
             /\ \E n \in Nat : n >= asked /\ answers = <<n>>

----------------------------------------------------------------------------
(* Steps.                                                                  *)

LEMMA ChipSteps ==
  ASSUME Open \/ Configure \/ Check \/ ReadClosed
  PROVE  UNCHANGED <<data, table, readouts, fakes, http, asked, request, answers, readErrors>>
  BY DEF Open, Configure, FailedTry, Check, ReadClosed, rows, pipe, device

LEMMA OtherSteps ==
  ASSUME Ask \/ Receive \/ HttpEnds \/ ShutDown \/ Join \/ Replug
  PROVE  UNCHANGED <<pc, data, table, readouts, fakes, chip, tries, errors, readErrors,
                     missing>>
  BY DEF Ask, Receive, HttpEnds, ShutDown, Join, Replug, device, rows

\* A pass of the loop that fails, and one that does not.
LEMMA ReadSteps ==
  ASSUME ReadLifetimes
  PROVE  /\ pc = "read" /\ UNCHANGED <<plugged, missing, table, http, asked, request, answers>>
         /\ \/ /\ chip # "closed" /\ pc' = "store" /\ tries' = 0
               /\ \E d \in {Empty, readouts + 1} : NewData(d)
               /\ UNCHANGED <<chip, errors, readErrors>>
            \/ /\ pc' = "dead"
               /\ UNCHANGED <<chip, tries, errors, readErrors, data, readouts, fakes>>
            \/ /\ FailedTry("store")
               /\ readErrors' = IF tries = 2 THEN readErrors + 1 ELSE readErrors
               /\ UNCHANGED <<data, readouts, fakes>>
  BY DEF ReadLifetimes, pipe

LEMMA InitTypes == Init => TypeInv
  BY DEF Init, TypeInv, ChipTypes, RowTypes, PipeTypes, Unbound

LEMMA NextTypes == TypeInv /\ [Next]_vars => TypeInv'
<1> SUFFICES ASSUME TypeInv, [Next]_vars PROVE TypeInv'
  OBVIOUS
<1> USE DEF TypeInv, ChipTypes, RowTypes, PipeTypes
<1>1. CASE Open \/ Configure \/ Check \/ ReadClosed
  <2>1. ChipTypes'
    BY <1>1 DEF Open, Configure, FailedTry, Check, ReadClosed, AfterInit, device
  <2> QED
    BY <1>1, <2>1, ChipSteps
<1>2. CASE ReadLifetimes
  <2>1. CASE chip # "closed" /\ \E d \in {Empty, readouts + 1} : NewData(d)
             /\ pc' = "store" /\ tries' = 0 /\ UNCHANGED <<chip, errors, readErrors>>
    <3>1. PICK d \in {Empty, readouts + 1} : NewData(d)
      BY <2>1
    <3>2. readouts' \in {readouts, readouts + 1} /\ readouts' \in Nat
      BY <3>1 DEF NewData, Empty
    <3>3. data' \in Unbound..readouts'
      BY <3>1 DEF NewData, Empty, Unbound
    <3>4. fakes' \subseteq 1..readouts'
      BY <3>1 DEF NewData, Empty
    <3>5. RowTypes'
      BY <1>2, <3>2, <3>3, <3>4, ReadSteps
    <3> QED
      BY <1>2, <2>1, <3>5, ReadSteps
  <2>2. CASE UNCHANGED <<data, readouts, fakes>>
    <3>1. ChipTypes'
      <4>1. CASE UNCHANGED <<chip, tries, errors, readErrors>> /\ pc' = "dead"
        BY <4>1
      <4>2. CASE /\ FailedTry("store")
                 /\ readErrors' = IF tries = 2 THEN readErrors + 1 ELSE readErrors
        BY <4>2 DEF FailedTry
      <4>3. CASE pc' = "store" /\ tries' = 0 /\ UNCHANGED <<chip, errors, readErrors>>
        BY <4>3
      <4> QED
        BY <1>2, <4>1, <4>2, <4>3, ReadSteps
    <3> QED
      BY <1>2, <2>2, <3>1, ReadSteps
  <2> QED
    BY <1>2, <2>1, <2>2, ReadSteps
<1>3. CASE Store
  <2>1. CASE data > Empty
    <3>1. table' = Append(table, data) /\ data \in 1..readouts
      BY <1>3, <2>1 DEF Store, Empty, Unbound
    <3>2. RowTypes'
      BY <1>3, <3>1 DEF Store
    <3> QED
      BY <1>3, <3>2 DEF Store, device, pipe
  <2>2. CASE ~(data > Empty)
    BY <1>3, <2>2 DEF Store, device, pipe
  <2> QED
    BY <2>1, <2>2
<1>4. CASE Poll
  BY <1>4 DEF Poll, device, rows
<1>5. CASE Answer
  BY <1>5 DEF Answer, device, rows
<1>6. CASE Ask \/ Receive \/ HttpEnds \/ ShutDown \/ Join \/ Replug
  <2>1. PipeTypes'
    <3>1. CASE Ask
      BY <3>1 DEF Ask
    <3>2. CASE Receive
      BY <3>2 DEF Receive
    <3>3. CASE HttpEnds \/ ShutDown \/ Join \/ Replug
      BY <3>3 DEF HttpEnds, ShutDown, Join, Replug, pipe
    <3> QED
      BY <1>6, <3>1, <3>2, <3>3
  <2> QED
    BY <1>6, <2>1, OtherSteps
<1>7. CASE UNCHANGED vars
  BY <1>7 DEF vars, device, rows, pipe
<1> QED
  BY <1>1, <1>2, <1>3, <1>4, <1>5, <1>6, <1>7 DEF Next, Muon

\* Every row of the table is a read-out, and the last one is among them.
THEOREM TypesKept == Spec => []TypeInv
  BY InitTypes, NextTypes, PTL DEF Spec

----------------------------------------------------------------------------
(* Lifetimes that were made up.                                            *)

LEMMA NextFake == TypeInv /\ FakeInv /\ [Next]_vars => FakeInv'
<1> SUFFICES ASSUME TypeInv, FakeInv, [Next]_vars PROVE FakeInv'
  OBVIOUS
<1> USE DEF FakeInv
<1>1. CASE Open
  BY <1>1 DEF Open, rows
<1>2. CASE Configure \/ Check \/ ReadClosed
  BY <1>2 DEF Configure, FailedTry, Check, ReadClosed, rows, device
<1>3. CASE ReadLifetimes
  <2>1. chip' = "fake" => chip = "fake"
    BY <1>3, ReadSteps DEF FailedTry
  <2>2. fakes' = fakes \/ chip = "fake"
    BY <1>3, ReadSteps DEF NewData
  <2> QED
    BY <1>3, <2>1, <2>2, ReadSteps
<1>4. CASE Store \/ Poll \/ Answer
  BY <1>4 DEF Store, Poll, Answer, rows, device
<1>5. CASE Ask \/ Receive \/ HttpEnds \/ ShutDown \/ Join \/ Replug
  BY <1>5, OtherSteps
<1>6. CASE UNCHANGED vars
  BY <1>6 DEF vars, device, rows
<1> QED
  BY <1>1, <1>2, <1>3, <1>4, <1>5, <1>6 DEF Next, Muon

\* Lifetimes that were made up are in the table only if the device was missing
\* when it was opened (muonlab_with_http_api:130-137).
THEOREM FakesExplained == Spec => []FakesNeedMissingDevice
<1>1. Init => FakeInv
  BY DEF Init, FakeInv
<1>2. FakeInv => FakesNeedMissingDevice
  BY DEF FakeInv, FakesNeedMissingDevice
<1> QED
  BY <1>1, <1>2, NextFake, TypesKept, PTL DEF Spec

----------------------------------------------------------------------------
(* Requests and answers.                                                   *)

LEMMA NextPipe == TypeInv /\ PipeInv /\ [Next]_vars => PipeInv'
<1> SUFFICES ASSUME TypeInv, PipeInv, [Next]_vars PROVE PipeInv'
  OBVIOUS
<1> USE DEF PipeInv
<1>1. CASE Open \/ Configure \/ Check \/ ReadClosed
  <2>1. pc # "answer" /\ pc' # "answer"
    BY <1>1 DEF Open, Configure, FailedTry, Check, ReadClosed, AfterInit
  <2> QED
    BY <1>1, <2>1, ChipSteps
<1>2. CASE ReadLifetimes
  BY <1>2, ReadSteps DEF FailedTry
<1>3. CASE Store
  <2>1. Len(table') >= Len(table)
    BY <1>3 DEF Store, TypeInv, RowTypes
  <2>2. asked \in Nat /\ Len(table) \in Nat /\ Len(table') \in Nat
    BY <1>3, NextTypes DEF TypeInv, RowTypes, PipeTypes
  <2>3. pc # "answer" /\ pc' # "answer" /\ UNCHANGED pipe
    BY <1>3 DEF Store
  <2> QED
    BY <2>1, <2>2, <2>3 DEF pipe
<1>4. CASE Poll
  BY <1>4 DEF Poll, rows
<1>5. CASE Answer
  <2>1. Len(table) \in Nat /\ asked \in Nat
    BY DEF TypeInv, RowTypes, PipeTypes
  <2>2. /\ pc = "answer" /\ pc' = "check" /\ answers' = Append(answers, Len(table))
        /\ UNCHANGED <<table, http, asked, request>>
    BY <1>5 DEF Answer, rows
  <2>3. http = "waiting" => answers' = <<Len(table)>>
    BY <2>2
  <2> QED
    BY <2>1, <2>2, <2>3
<1>6. CASE Ask
  BY <1>6 DEF Ask, rows, TypeInv, RowTypes
<1>7. CASE Receive
  <2>1. /\ http = "waiting" /\ answers # << >> /\ http' = "idle"
        /\ answers' = Tail(answers) /\ UNCHANGED <<pc, request>>
    BY <1>7 DEF Receive
  <2>2. PICK n \in Nat : answers = <<n>>
    BY <2>1
  <2> QED
    BY <2>1, <2>2
<1>8. CASE HttpEnds \/ ShutDown
  BY <1>8 DEF HttpEnds, ShutDown
<1>9. CASE Join \/ Replug
  BY <1>9 DEF Join, Replug, rows, pipe
<1>10. CASE UNCHANGED vars
  BY <1>10 DEF vars, rows, pipe
<1> QED
  BY <1>1, <1>2, <1>3, <1>4, <1>5, <1>6, <1>7, <1>8, <1>9, <1>10 DEF Next, Muon

\* An answer holds at least what was in the table when it was asked for
\* (muonlab_with_http_api:56-57, 117-122).
THEOREM AnswersUpToDate == Spec => []AnswersAreCurrent
<1>1. Init => PipeInv
  BY DEF Init, PipeInv
<1>2. PipeInv => AnswersAreCurrent
  BY DEF PipeInv, AnswersAreCurrent
<1> QED
  BY <1>1, <1>2, NextPipe, TypesKept, PTL DEF Spec

----------------------------------------------------------------------------
(* Repetitions.                                                            *)

LEMMA OwedType == ASSUME NEW d PROVE Owed(d) \in 0..2
  BY DEF Owed

LEMMA TimesType ==
  ASSUME table \in Seq(Nat), NEW d
  PROVE  /\ IsFiniteSet({i \in DOMAIN table : table[i] = d})
         /\ Times(d) \in Nat
<1>1. DOMAIN table = 1..Len(table) /\ Len(table) \in Nat
  OBVIOUS
<1>2. IsFiniteSet(DOMAIN table)
  BY <1>1, FS_Interval
<1>3. IsFiniteSet({i \in DOMAIN table : table[i] = d})
  BY <1>2, FS_Subset
<1> QED
  BY <1>3, FS_CardinalityType DEF Times

\* A row more counts for its own read-out.
LEMMA TimesStored ==
  ASSUME table \in Seq(Nat), NEW x \in Nat, table' = Append(table, x), NEW d
  PROVE  Times(d)' = IF x = d THEN Times(d) + 1 ELSE Times(d)
<1> DEFINE old == {i \in DOMAIN table : table[i] = d}
           new == {i \in DOMAIN table' : table'[i] = d}
<1>1. /\ DOMAIN table = 1..Len(table) /\ Len(table) \in Nat
      /\ DOMAIN table' = 1..(Len(table) + 1)
      /\ table'[Len(table) + 1] = x
      /\ \A i \in DOMAIN table : table'[i] = table[i]
  OBVIOUS
<1>2. new = IF x = d THEN old \cup {Len(table) + 1} ELSE old
  BY <1>1
<1>3. Len(table) + 1 \notin old
  BY <1>1
<1>4. IsFiniteSet(old)
  BY TimesType
<1>5. Cardinality(new) = IF x = d THEN Cardinality(old) + 1 ELSE Cardinality(old)
  <2> HIDE DEF old, new
  <2> QED
    BY <1>2, <1>3, <1>4, FS_AddElement
<1> QED
  BY <1>5 DEF Times

\* A new read-out is not in the table.
LEMMA TimesFresh ==
  ASSUME table \in Seq(Nat), NEW d, \A i \in DOMAIN table : table[i] # d
  PROVE  Times(d) = 0
<1>1. {i \in DOMAIN table : table[i] = d} = {}
  OBVIOUS
<1> QED
  BY <1>1, FS_EmptySet DEF Times

LEMMA NextTimes == TypeInv /\ TimesInv /\ [Next]_vars => TimesInv'
<1> SUFFICES ASSUME TypeInv, TimesInv, [Next]_vars PROVE TimesInv'
  OBVIOUS
<1> USE DEF TypeInv, ChipTypes, RowTypes
<1>0. ASSUME NEW d
      PROVE  Times(d) \in Nat /\ Owed(d) \in 0..2 /\ Owed(d)' \in 0..2
  <2>1. Times(d) \in Nat
    BY TimesType
  <2>2. Owed(d) \in 0..2
    BY DEF Owed
  <2>3. Owed(d)' \in 0..2
    BY DEF Owed
  <2> QED
    BY <2>1, <2>2, <2>3
<1>1. (pc = "open" => chip = "closed")' /\ (pc = "configure" => chip = "open")'
  BY DEF TimesInv, Next, Muon, Open, Configure, FailedTry, Check, ReadLifetimes, ReadClosed,
     Store, Poll, Answer, AfterInit, Ask, Receive, HttpEnds, ShutDown, Join, Replug,
     vars, device, rows, pipe
<1> SUFFICES ASSUME NEW d \in 1..readouts'
             PROVE  Times(d)' + Owed(d)' <= 1 + 2 * readErrors'
  BY <1>1 DEF TimesInv
<1>2. ASSUME UNCHANGED <<table, readouts, readErrors>>, Owed(d)' <= Owed(d)
      PROVE  Times(d)' + Owed(d)' <= 1 + 2 * readErrors'
  <2>1. Times(d)' = Times(d)
    BY <1>2 DEF Times
  <2>2. Times(d) + Owed(d) <= 1 + 2 * readErrors
    BY <1>2 DEF TimesInv
  <2> QED
    BY <1>0, <1>2, <2>1, <2>2
<1>3. CASE Open \/ Configure \/ Check \/ ReadClosed
  <2>1. Owed(d)' <= Owed(d)
    <3>1. CASE Open
      <4>1. pc = "open" /\ chip = "closed" /\ data' = data /\ d # Unbound
        <5>1. d # Unbound
          BY DEF Unbound
        <5> QED
          BY <3>1, <5>1, ChipSteps DEF Open, TimesInv
      <4>2. \/ pc' = "dead"
            \/ chip' = "open" /\ pc' = "configure"
            \/ chip' = "fake" /\ pc' = IF data = Unbound THEN "check" ELSE "store"
        BY <3>1 DEF Open, AfterInit
      <4> QED
        BY <4>1, <4>2 DEF Owed, Done
    <3>2. CASE Configure
      BY <3>2, ChipSteps DEF Configure, FailedTry, Owed, Done, AfterInit, TimesInv
    <3>3. CASE Check \/ ReadClosed
      BY <3>3, ChipSteps DEF Check, ReadClosed, Owed, Done, device
    <3> QED
      BY <1>3, <3>1, <3>2, <3>3
  <2> QED
    BY <1>2, <1>3, <2>1, ChipSteps
<1>4. CASE ReadLifetimes
  <2>0. pc = "read" /\ table' = table
    BY <1>4, ReadSteps
  <2>1. ASSUME chip # "closed", NEW e \in {Empty, readouts + 1}, NewData(e),
               UNCHANGED <<chip, readErrors>>, pc' = "store"
        PROVE  Times(d)' + Owed(d)' <= 1 + 2 * readErrors'
    <3>0. Times(d)' = Times(d)
      BY <2>0 DEF Times
    <3>1. data' = e /\ readouts' = IF e = Empty THEN readouts ELSE e
      BY <2>1 DEF NewData
    <3>2. CASE d = readouts + 1
      <4>1. Times(d) = 0
        BY <3>2, TimesFresh
      <4>2. Owed(d)' <= 1
        BY <2>1 DEF Owed
      <4> QED
        BY <1>0, <2>1, <3>0, <4>1, <4>2
    <3>3. CASE d # readouts + 1
      <4>1. d \in 1..readouts /\ d # data'
        BY <3>1, <3>3 DEF Empty
      <4>2. Times(d) + Owed(d) <= 1 + 2 * readErrors
        BY <4>1 DEF TimesInv
      <4>3. Owed(d)' = 0
        BY <4>1 DEF Owed
      <4> QED
        BY <1>0, <2>1, <3>0, <4>2, <4>3
    <3> QED
      BY <3>2, <3>3
  <2>2. ASSUME pc' = "dead", UNCHANGED <<chip, readErrors, data, readouts>>
        PROVE  Times(d)' + Owed(d)' <= 1 + 2 * readErrors'
    <3>1. Owed(d)' = 0
      BY <2>2 DEF Owed, Done
    <3> QED
      BY <1>0, <1>2, <2>0, <2>2, <3>1
  <2>3. ASSUME FailedTry("store"), UNCHANGED <<data, readouts>>,
               readErrors' = IF tries = 2 THEN readErrors + 1 ELSE readErrors
        PROVE  Times(d)' + Owed(d)' <= 1 + 2 * readErrors'
    <3>1. Times(d)' = Times(d)
      BY <2>0 DEF Times
    <3>2. Times(d) + Owed(d) <= 1 + 2 * readErrors
      BY <2>3 DEF TimesInv
    <3>3. tries # 2 => Owed(d)' = Owed(d) /\ readErrors' = readErrors
      BY <2>0, <2>3 DEF FailedTry, Owed, Done
    <3>4. tries = 2 => readErrors' = readErrors + 1
      BY <2>3
    <3> QED
      BY <1>0, <3>1, <3>2, <3>3, <3>4
  <2> QED
    BY <1>4, <2>1, <2>2, <2>3, ReadSteps
<1>5. CASE Store
  <2>1. /\ pc = "store" /\ UNCHANGED <<chip, data, readouts, readErrors>>
        /\ pc' = IF data = Unbound THEN "dead" ELSE "poll"
    BY <1>5 DEF Store, device
  <2>2. Times(d) + Owed(d) <= 1 + 2 * readErrors
    BY <2>1 DEF TimesInv
  <2>3. CASE data > Empty
    <3>1. table' = Append(table, data) /\ data \in Nat
      BY <1>5, <2>3 DEF Store, Empty, Unbound
    <3>2. Times(d)' = IF data = d THEN Times(d) + 1 ELSE Times(d)
      BY <3>1, TimesStored
    <3>3. IF data = d THEN Owed(d)' = Owed(d) - 1 ELSE Owed(d)' = 0 /\ Owed(d) = 0
      BY <2>1, <2>3 DEF Owed, Done, Empty, Unbound
    <3> QED
      BY <1>0, <2>1, <2>2, <3>2, <3>3
  <2>4. CASE ~(data > Empty)
    <3>1. table' = table /\ d # data
      BY <1>5, <2>1, <2>4 DEF Store, Empty
    <3>2. Owed(d)' = 0
      BY <2>1, <3>1 DEF Owed
    <3> QED
      BY <1>0, <1>2, <2>1, <3>1, <3>2
  <2> QED
    BY <2>3, <2>4
<1>6. CASE Poll \/ Answer
  <2>1. UNCHANGED <<table, readouts, readErrors>> /\ Owed(d)' = Owed(d)
    BY <1>6 DEF Poll, Answer, Owed, Done, rows, device
  <2> QED
    BY <1>0, <1>2, <2>1
<1>7. CASE Ask \/ Receive \/ HttpEnds \/ ShutDown \/ Join \/ Replug \/ UNCHANGED vars
  <2>1. UNCHANGED <<pc, chip, data, table, readouts, readErrors>>
    BY <1>7, OtherSteps DEF vars, device, rows
  <2>2. Owed(d)' = Owed(d)
    BY <2>1 DEF Owed, Done
  <2> QED
    BY <1>0, <1>2, <2>1, <2>2
<1> QED
  BY <1>3, <1>4, <1>5, <1>6, <1>7 DEF Next, Muon

\* A read-out is in the table once, and at most twice more for every ReadError,
\* in any order of errors, opens and passes (muonlab_with_http_api:102-116).
THEOREM RepetitionsBounded == Spec => []RepetitionsAreBounded
<1>1. Init => TimesInv
  BY DEF Init, TimesInv
<1>2. TypeInv /\ TimesInv => RepetitionsAreBounded
  <2> SUFFICES ASSUME TypeInv, TimesInv, NEW d \in 1..readouts
               PROVE  Times(d) <= 1 + 2 * readErrors
    BY DEF RepetitionsAreBounded
  <2>1. Times(d) \in Nat /\ Owed(d) \in 0..2
    BY TimesType, OwedType DEF TypeInv, RowTypes
  <2> QED
    BY <2>1 DEF TimesInv, TypeInv, ChipTypes
<1> QED
  BY <1>1, <1>2, NextTimes, TypesKept, PTL DEF Spec

=============================================================================
