----------------------------- MODULE StewProofs -----------------------------
(* Proofs about Stew, for every set of timestamps and events, whatever the   *)
(* order of the messages, and every freshness time.                          *)
EXTENDS Stew, FiniteSetTheorems, TLAPS

LEMMA Constants ==
  /\ Times \subseteq Nat \ {0}
  /\ \A e \in Events : Second(e) \in Times /\ Second(e) \in Nat
  /\ FreshnessTime \in Nat /\ EventRateTime \in Nat
  BY TimesAssumption, EventsAssumption, FreshnessAssumption DEF Second

----------------------------------------------------------------------------
(* Type correctness.                                                         *)

LEMMA TypeNext == TypeOK /\ [Next]_vars => TypeOK'
<1> SUFFICES ASSUME TypeOK, [Next]_vars PROVE TypeOK'
  OBVIOUS
<1> USE Constants DEF TypeOK, pot, history
<1>1. ASSUME NEW t \in Times, NEW ticks \in BOOLEAN, AddOneSecond(t, ticks) PROVE TypeOK'
  BY <1>1 DEF AddOneSecond
<1>2. ASSUME NEW e \in Events, AddEvent(e) PROVE TypeOK'
  <2>1. rates' \in [Times -> Nat]
    BY <1>2 DEF AddEvent
  <2> QED
    BY <1>2, <2>1 DEF AddEvent
<1>3. CASE Stir
  BY <1>3 DEF Stir, Cookable
<1>4. CASE Serve
  BY <1>4 DEF Serve
<1>5. CASE Drain
  BY <1>5 DEF Drain
<1>6. CASE UNCHANGED vars
  BY <1>6 DEF vars
<1> QED
  BY <1>1, <1>2, <1>3, <1>4, <1>5, <1>6 DEF Next, Process

\* Every variable keeps its type.
THEOREM StewTypeCorrect == Spec => []TypeOK
<1>1. Init => TypeOK
  BY DEF Init, TypeOK
<1> QED
  BY <1>1, TypeNext, PTL DEF Spec

----------------------------------------------------------------------------
(* The inductive invariant.                                                  *)

\* Only messages that arrived are in the stew or come out of it.
OnlyArrived == pending \cup cooked \cup served \subseteq arrived

Inv ==
  /\ TypeOK /\ OnlyArrived
  /\ FreshSecondsKept /\ FreshEventsKept /\ FreshEventsAreCooked /\ ServedOnce

LEMMA InvInit == Init => Inv
  BY DEF Init, Inv, TypeOK, OnlyArrived, FreshSecondsKept, FreshEventsKept,
         FreshEventsAreCooked, ServedOnce

\* The clock never goes back, so that what is fresh after the step was fresh
\* before it.
LEMMA ClockForward ==
  ASSUME TypeOK, NEW t \in Times, NEW ticks \in BOOLEAN, AddOneSecond(t, ticks)
  PROVE  /\ latest' \in Nat /\ latest \in Nat /\ latest <= latest'
         /\ \A u \in Nat : ~Stale(u)' => ~Stale(u)
  BY Constants DEF TypeOK, AddOneSecond, Stale

\* A fresh event's later seconds are as fresh as its own.
LEMMA NeededFresh ==
  ASSUME TypeOK, FreshSecondsKept, NEW e \in Events,
         ~Stale(Second(e)), Needed(e) \subseteq seen
  PROVE  Needed(e) \subseteq oneSecond
<1>1. latest \in Nat /\ Second(e) \in Nat /\ FreshnessTime \in Nat
  BY Constants DEF TypeOK
<1>2. ~Stale(Second(e) + 1) /\ ~Stale(Second(e) + 2)
  BY <1>1 DEF Stale
<1> QED
  BY <1>2 DEF FreshSecondsKept, Needed

LEMMA InvNext == Inv /\ [Next]_vars => Inv'
<1> SUFFICES ASSUME Inv, [Next]_vars PROVE Inv'
  OBVIOUS
<1>0. TypeOK'
  BY TypeNext DEF Inv
<1> USE DEF pot, history
<1>1. ASSUME NEW t \in Times, NEW ticks \in BOOLEAN, AddOneSecond(t, ticks) PROVE Inv'
  <2>1. /\ latest' \in Nat /\ latest \in Nat /\ latest <= latest'
        /\ \A u \in Nat : ~Stale(u)' => ~Stale(u)
    BY <1>1, ClockForward DEF Inv
  <2>2. FreshSecondsKept'
    BY <1>1, <2>1, Constants DEF AddOneSecond, Inv, TypeOK, FreshSecondsKept
  <2>3. FreshEventsKept'
    BY <1>1, <2>1, Constants DEF AddOneSecond, Inv, TypeOK, FreshEventsKept
  <2>4. FreshEventsAreCooked'
    BY <1>1 DEF AddOneSecond, FreshEventsAreCooked
  <2> QED
    BY <1>0, <1>1, <2>2, <2>3, <2>4 DEF AddOneSecond, Inv, OnlyArrived, ServedOnce
<1>2. ASSUME NEW e \in Events, AddEvent(e) PROVE Inv'
  <2>1. /\ UNCHANGED <<oneSecond, latest, cooked, served, seen>> /\ pc' = "read"
        /\ \/ pending' = pending /\ accepted' = accepted
           \/ pending' = pending \cup {e} /\ accepted' = accepted \cup {e}
        /\ e \notin arrived /\ arrived' = arrived \cup {e}
    BY <1>2 DEF AddEvent
  <2>2. FreshSecondsKept' /\ FreshEventsKept' /\ FreshEventsAreCooked'
    BY <2>1 DEF Inv, FreshSecondsKept, FreshEventsKept, FreshEventsAreCooked, Stale
  <2>3. OnlyArrived' /\ ServedOnce'
    BY <2>1 DEF Inv, OnlyArrived, ServedOnce
  <2> QED
    BY <1>0, <2>2, <2>3 DEF Inv
<1>3. CASE Stir
  <2>1. /\ UNCHANGED <<oneSecond, latest, served, seen, arrived, accepted>>
        /\ pc' \in {"serve", "dead"}
        /\ \E done \in SUBSET Cookable :
             /\ cooked' = cooked \cup done /\ pending' = pending \ done
             /\ pc' = "serve" => done = Cookable
    BY <1>3 DEF Stir
  <2>2. FreshSecondsKept' /\ FreshEventsKept'
    BY <2>1 DEF Inv, FreshSecondsKept, FreshEventsKept, Stale
  <2>3. OnlyArrived' /\ ServedOnce'
    BY <2>1 DEF Inv, OnlyArrived, ServedOnce, Cookable
  <2>4. FreshEventsAreCooked'
    <3> SUFFICES ASSUME pc' = "serve", NEW e \in accepted,
                        ~Stale(Second(e)), Needed(e) \subseteq seen
                 PROVE  e \in cooked' \cup served
      BY <2>1 DEF FreshEventsAreCooked, Stale
    <3>1. e \in Events
      BY DEF Inv, TypeOK
    <3>2. Needed(e) \subseteq oneSecond
      BY <3>1, NeededFresh DEF Inv
    <3>3. e \in pending \cup cooked \cup served
      BY DEF Inv, FreshEventsKept
    <3> QED
      BY <2>1, <3>2, <3>3 DEF Cookable
  <2> QED
    BY <1>0, <2>2, <2>3, <2>4 DEF Inv
<1>4. CASE Serve
  <2>1. FreshSecondsKept' /\ FreshEventsKept' /\ FreshEventsAreCooked'
    BY <1>4 DEF Serve, Inv, FreshSecondsKept, FreshEventsKept, FreshEventsAreCooked, Stale
  <2>2. OnlyArrived' /\ ServedOnce'
    BY <1>4 DEF Serve, Inv, OnlyArrived, ServedOnce
  <2> QED
    BY <1>0, <2>1, <2>2 DEF Inv
<1>5. CASE Drain
  <2>1. FreshSecondsKept'
    <3>1. latest # 0 => ~Stale(latest)
      BY Constants DEF Inv, TypeOK, Stale
    <3> QED
      BY <1>5, <3>1 DEF Drain, Inv, FreshSecondsKept, Stale
  <2>2. FreshEventsKept'
    BY <1>5 DEF Drain, Inv, FreshEventsKept, Stale
  <2>3. FreshEventsAreCooked'
    BY <1>5 DEF Drain, FreshEventsAreCooked
  <2>4. OnlyArrived' /\ ServedOnce'
    BY <1>5 DEF Drain, Inv, OnlyArrived, ServedOnce
  <2> QED
    BY <1>0, <2>1, <2>2, <2>3, <2>4 DEF Inv
<1>6. CASE UNCHANGED vars
  BY <1>0, <1>6 DEF vars, Inv, OnlyArrived, FreshSecondsKept, FreshEventsKept,
                    FreshEventsAreCooked, ServedOnce, Stale
<1> QED
  BY <1>1, <1>2, <1>3, <1>4, <1>5, <1>6 DEF Next, Process

\* Draining leaves every fresh one-second message, and the latest, in the stew.
THEOREM DrainSparesFreshSeconds == Spec => []FreshSecondsKept
<1>1. Inv => FreshSecondsKept
  BY DEF Inv
<1> QED
  BY <1>1, InvInit, InvNext, PTL DEF Spec

\* No accepted event is lost while it is fresh.
THEOREM FreshEventsSurvive == Spec => []FreshEventsKept
<1>1. Inv => FreshEventsKept
  BY DEF Inv
<1> QED
  BY <1>1, InvInit, InvNext, PTL DEF Spec

\* A fresh event whose three one-second messages have arrived, in whatever
\* order, is cooked by the next stir.
THEOREM StirIsComplete == Spec => []FreshEventsAreCooked
<1>1. Inv => FreshEventsAreCooked
  BY DEF Inv
<1> QED
  BY <1>1, InvInit, InvNext, PTL DEF Spec

\* No event is served twice.
THEOREM NoEventTwice == Spec => []ServedOnce
<1>1. Inv => ServedOnce
  BY DEF Inv
<1> QED
  BY <1>1, InvInit, InvNext, PTL DEF Spec

----------------------------------------------------------------------------
(* The event rate.                                                           *)

\* The events of second t that were accepted.
OfSecond(t) == {e \in accepted : Second(e) = t}

\* In the averaging window the counts are right, second by second; outside of it
\* drain may have taken them.
WindowIsCounted ==
  \A t \in Times : ~OffAvg(t) => rates[t] = Cardinality(OfSecond(t))

\* Only finitely many events have arrived, so that they can be counted.
WindowInv == Inv /\ IsFiniteSet(arrived) /\ WindowIsCounted

LEMMA OfSecondFinite ==
  ASSUME IsFiniteSet(arrived), accepted \subseteq arrived, NEW t
  PROVE  IsFiniteSet(OfSecond(t)) /\ Cardinality(OfSecond(t)) \in Nat
<1>1. OfSecond(t) \subseteq arrived
  BY DEF OfSecond
<1> QED
  BY <1>1, FS_Subset, FS_CardinalityType

\* One more accepted event is one more in its own second, and in no other.
LEMMA OneMoreEvent ==
  ASSUME IsFiniteSet(arrived), accepted \subseteq arrived, NEW t,
         NEW e, e \notin arrived, accepted' = accepted \cup {e}
  PROVE  Cardinality(OfSecond(t)') =
           IF t = Second(e) THEN Cardinality(OfSecond(t)) + 1 ELSE Cardinality(OfSecond(t))
<1>1. CASE t = Second(e)
  <2>1. OfSecond(t)' = OfSecond(t) \cup {e} /\ e \notin OfSecond(t)
    BY <1>1 DEF OfSecond
  <2> QED
    BY <1>1, <2>1, OfSecondFinite, FS_AddElement
<1>2. CASE t # Second(e)
  <2>1. OfSecond(t)' = OfSecond(t)
    BY <1>2 DEF OfSecond
  <2> QED
    BY <1>2, <2>1
<1> QED
  BY <1>1, <1>2

LEMMA WindowInit == Init => WindowInv
<1> SUFFICES ASSUME Init PROVE WindowInv
  OBVIOUS
<1>1. IsFiniteSet(arrived)
  BY FS_EmptySet DEF Init
<1>2. \A t \in Times : {e \in accepted : Second(e) = t} = {}
  BY DEF Init
<1>3. WindowIsCounted
  BY <1>2, FS_EmptySet DEF Init, WindowIsCounted, OfSecond
<1> QED
  BY <1>1, <1>3, InvInit DEF WindowInv

LEMMA WindowNext == WindowInv /\ [Next]_vars => WindowInv'
<1> SUFFICES ASSUME WindowInv, [Next]_vars PROVE WindowInv'
  OBVIOUS
<1>0. Inv'
  BY InvNext DEF WindowInv
<1>a. /\ IsFiniteSet(arrived) /\ accepted \subseteq arrived
      /\ rates \in [Times -> Nat]
      /\ \A t \in Times : ~OffAvg(t) => rates[t] = Cardinality(OfSecond(t))
  BY DEF WindowInv, Inv, TypeOK, WindowIsCounted, OfSecond
\* It is enough that the counts of the window are right after the step.
<1>b. ASSUME IsFiniteSet(arrived)',
             \A t \in Times : ~OffAvg(t)' => rates'[t] = Cardinality(OfSecond(t)')
      PROVE  WindowInv'
  BY <1>0, <1>b DEF WindowInv, WindowIsCounted, OfSecond
<1>c. UNCHANGED <<arrived, accepted>> =>
        /\ IsFiniteSet(arrived)'
        /\ \A t \in Times : OfSecond(t)' = OfSecond(t)
  BY <1>a DEF OfSecond
<1>1. ASSUME NEW t \in Times, NEW ticks \in BOOLEAN, AddOneSecond(t, ticks)
      PROVE  WindowInv'
  <2>1. latest \in Nat /\ latest' \in Nat /\ latest <= latest'
    BY <1>1, ClockForward DEF WindowInv, Inv
  <2>2. ASSUME NEW u \in Times, ~OffAvg(u)' PROVE ~OffAvg(u)
    <3>1. u \in Nat /\ EventRateTime \in Nat /\ ~(latest' - u > EventRateTime)
      BY <2>2, Constants DEF OffAvg
    <3>2. ~(latest - u > EventRateTime)
      <4>1. \A a, b, c, d \in Nat : a <= b /\ ~(b - c > d) => ~(a - c > d)
        OBVIOUS
      <4> QED
        BY <2>1, <3>1, <4>1
    <3> QED
      BY <3>2 DEF OffAvg
  <2>3. UNCHANGED <<rates, arrived, accepted>>
    BY <1>1 DEF AddOneSecond
  <2> QED
    BY <1>a, <1>b, <1>c, <2>2, <2>3
<1>2. ASSUME NEW e \in Events, AddEvent(e) PROVE WindowInv'
  <2>1. /\ e \notin arrived /\ arrived' = arrived \cup {e} /\ latest' = latest
        /\ \/ rates' = rates /\ accepted' = accepted
           \/ /\ rates' = [rates EXCEPT ![Second(e)] = @ + 1]
              /\ accepted' = accepted \cup {e}
    BY <1>2 DEF AddEvent
  <2>2. IsFiniteSet(arrived)'
    BY <1>a, <2>1, FS_AddElement
  <2>3. \A t \in Times : OffAvg(t)' <=> OffAvg(t)
    BY <2>1 DEF OffAvg
  <2>4. CASE rates' = rates /\ accepted' = accepted
    <3>1. \A t \in Times : OfSecond(t)' = OfSecond(t)
      BY <2>4 DEF OfSecond
    <3> QED
      BY <1>a, <1>b, <2>2, <2>3, <2>4, <3>1
  <2>5. CASE /\ rates' = [rates EXCEPT ![Second(e)] = @ + 1]
             /\ accepted' = accepted \cup {e}
    <3>1. ASSUME NEW t \in Times, ~OffAvg(t)'
          PROVE  rates'[t] = Cardinality(OfSecond(t)')
      <4>1. Cardinality(OfSecond(t)') =
              IF t = Second(e) THEN Cardinality(OfSecond(t)) + 1
                               ELSE Cardinality(OfSecond(t))
        BY <1>a, <2>1, <2>5, OneMoreEvent
      <4>2. rates'[t] = IF t = Second(e) THEN rates[t] + 1 ELSE rates[t]
        BY <1>a, <2>5
      <4>3. rates[t] = Cardinality(OfSecond(t))
        BY <1>a, <2>3, <3>1
      <4> QED
        BY <4>1, <4>2, <4>3
    <3> QED
      BY <1>b, <2>2, <3>1
  <2> QED
    BY <2>1, <2>4, <2>5
<1>3. CASE Stir \/ Serve \/ UNCHANGED vars
  <2>1. UNCHANGED <<rates, latest, arrived, accepted>>
    BY <1>3 DEF Stir, Serve, history, vars
  <2>2. \A t \in Times : OffAvg(t)' <=> OffAvg(t)
    BY <2>1 DEF OffAvg
  <2> QED
    BY <1>a, <1>b, <1>c, <2>1, <2>2
<1>4. CASE Drain
  <2>1. /\ UNCHANGED <<latest, arrived, accepted>>
        /\ rates' = [t \in Times |-> IF OffAvg(t) THEN 0 ELSE rates[t]]
    BY <1>4 DEF Drain, history
  <2>2. \A t \in Times : OffAvg(t)' <=> OffAvg(t)
    BY <2>1 DEF OffAvg
  <2> QED
    BY <1>a, <1>b, <1>c, <2>1, <2>2
<1> QED
  BY <1>1, <1>2, <1>3, <1>4 DEF Next, Process

\* The members of Counts, and that there are finitely many of them.
LEMMA CountsMembers ==
  ASSUME rates \in [Times -> Nat]
  PROVE  \A x : x \in Counts <=>
                 \E t \in Times, i \in Nat : x = <<t, i>> /\ 1 <= i /\ i <= rates[t]
<1>1. ASSUME NEW x, x \in Counts
      PROVE  \E t \in Times, i \in Nat : x = <<t, i>> /\ 1 <= i /\ i <= rates[t]
  <2>1. PICK t \in Times : x \in {t} \X (1..rates[t])
    BY <1>1 DEF Counts
  <2>2. PICK i \in 1..rates[t] : x = <<t, i>>
    BY <2>1
  <2>3. rates[t] \in Nat
    OBVIOUS
  <2>4. i \in Nat /\ 1 <= i /\ i <= rates[t]
    BY <2>2, <2>3
  <2> QED
    BY <2>2, <2>4
<1>2. ASSUME NEW t \in Times, NEW i \in Nat, 1 <= i, i <= rates[t]
      PROVE  <<t, i>> \in Counts
  <2>1. i \in 1..rates[t]
    BY <1>2
  <2> QED
    BY <2>1 DEF Counts
<1> QED
  BY <1>1, <1>2

\* One more count in one second is one more member.
LEMMA OneMoreCount ==
  ASSUME rates \in [Times -> Nat], IsFiniteSet(Counts), NEW s \in Times,
         rates' = [rates EXCEPT ![s] = @ + 1]
  PROVE  IsFiniteSet(Counts') /\ EventCount' = EventCount + 1
<1> DEFINE new == <<s, rates[s] + 1>>
<1>1. rates' \in [Times -> Nat] /\ rates[s] \in Nat
  OBVIOUS
<1>2. \A t \in Times : rates'[t] = IF t = s THEN rates[t] + 1 ELSE rates[t]
  OBVIOUS
<1>3. \A x : x \in Counts' <=>
              \E t \in Times, i \in Nat : x = <<t, i>> /\ 1 <= i /\ i <= rates'[t]
  <2>1. (rates \in [Times -> Nat] => \A x : x \in Counts <=>
           \E t \in Times, i \in Nat : x = <<t, i>> /\ 1 <= i /\ i <= rates[t])'
    BY CountsMembers, PTL
  <2> QED
    BY <1>1, <2>1
<1>4. new \notin Counts
  <2> SUFFICES ASSUME new \in Counts PROVE FALSE
    OBVIOUS
  <2>1. PICK t \in Times, i \in Nat : new = <<t, i>> /\ 1 <= i /\ i <= rates[t]
    BY CountsMembers
  <2>2. t = s /\ i = rates[s] + 1
    BY <2>1
  <2> QED
    BY <1>1, <2>1, <2>2
<1>5. Counts' = Counts \cup {new}
  <2>1. ASSUME NEW x, x \in Counts' PROVE x \in Counts \cup {new}
    <3>1. PICK t \in Times, i \in Nat : x = <<t, i>> /\ 1 <= i /\ i <= rates'[t]
      BY <1>3, <2>1
    <3>2. CASE i <= rates[t]
      BY <3>1, <3>2, CountsMembers
    <3>3. CASE ~(i <= rates[t])
      <4>1. rates[t] \in Nat
        OBVIOUS
      <4>2. t = s /\ i = rates[s] + 1
        BY <1>2, <3>1, <3>3, <4>1
      <4> QED
        BY <3>1, <4>2
    <3> QED
      BY <3>2, <3>3
  <2>2. ASSUME NEW x, x \in Counts PROVE x \in Counts'
    <3>1. PICK t \in Times, i \in Nat : x = <<t, i>> /\ 1 <= i /\ i <= rates[t]
      BY <2>2, CountsMembers
    <3>2. rates[t] \in Nat /\ i <= rates'[t]
      BY <1>2, <3>1
    <3> QED
      BY <1>3, <3>1, <3>2
  <2>3. new \in Counts'
    BY <1>1, <1>2, <1>3
  <2> QED
    BY <2>1, <2>2, <2>3
<1> HIDE DEF new
<1> QED
  BY <1>4, <1>5, FS_AddElement DEF EventCount

----------------------------------------------------------------------------
(* After a drain the counts are as many as the events of the window: the i-th *)
(* count of a second stands for the i-th event of an enumeration of them.     *)

\* A set of events of which each second has as many as it has counts has as many
\* members as there are counts C.
LEMMA SumOfCounts ==
  ASSUME NEW C, NEW r \in [Times -> Nat], NEW E,
         IsFiniteSet(C),
         \A x : x \in C <=>
                \E t \in Times, i \in Nat : x = <<t, i>> /\ 1 <= i /\ i <= r[t],
         \A e \in E : Second(e) \in Times,
         \A t \in Times : ExistsBijection(1..r[t], {e \in E : Second(e) = t})
  PROVE  Cardinality(E) = Cardinality(C)
<1> DEFINE W(t) == {e \in E : Second(e) = t}
           g    == [t \in Times |-> CHOOSE f : f \in Bijection(1..r[t], W(t))]
           F    == [x \in C |-> g[x[1]][x[2]]]
<1>1. ASSUME NEW t \in Times PROVE g[t] \in Bijection(1..r[t], W(t))
  BY DEF ExistsBijection
<1>2. ASSUME NEW x \in C
      PROVE  x[1] \in Times /\ x[2] \in 1..r[x[1]] /\ x = <<x[1], x[2]>>
  <2>1. PICK t \in Times, i \in Nat : x = <<t, i>> /\ 1 <= i /\ i <= r[t]
    OBVIOUS
  <2>2. r[t] \in Nat
    OBVIOUS
  <2>3. i \in 1..r[t]
    BY <2>1, <2>2
  <2> QED
    BY <2>1, <2>3
<1>3. ASSUME NEW x \in C PROVE F[x] \in W(x[1]) /\ F[x] = g[x[1]][x[2]]
  <2> HIDE DEF g, W
  <2>1. F[x] = g[x[1]][x[2]]
    OBVIOUS
  <2>2. g[x[1]] \in [1..r[x[1]] -> W(x[1])]
    BY <1>1, <1>2 DEF Bijection, Injection
  <2> QED
    BY <1>2, <2>1, <2>2
<1>4. F \in [C -> E]
  <2>1. \A x \in C : F[x] \in E
    BY <1>3
  <2> QED
    BY <2>1
<1>5. ASSUME NEW x \in C, NEW y \in C, F[x] = F[y] PROVE x = y
  <2> HIDE DEF g, F
  <2>1. x[1] = y[1]
    BY <1>3, <1>5
  <2> HIDE DEF W
  <2>2. /\ g[x[1]] \in [1..r[x[1]] -> W(x[1])]
        /\ IsInjective(g[x[1]])
    BY <1>1, <1>2 DEF Bijection, Injection
  <2>3. g[x[1]][x[2]] = g[x[1]][y[2]] /\ y[2] \in 1..r[x[1]]
    BY <1>2, <1>3, <1>5, <2>1
  <2>4. x[2] = y[2]
    BY <1>2, <2>2, <2>3 DEF IsInjective
  <2> QED
    BY <1>2, <2>1, <2>4
<1>6. ASSUME NEW e \in E PROVE \E x \in C : F[x] = e
  <2> DEFINE t == Second(e)
  <2>1. t \in Times /\ e \in W(t)
    OBVIOUS
  <2> HIDE DEF g, F, W, t
  <2>2. g[t] \in Surjection(1..r[t], W(t))
    BY <1>1, <2>1 DEF Bijection
  <2>3. PICK i \in 1..r[t] : g[t][i] = e
    BY <2>1, <2>2 DEF Surjection
  <2>4. <<t, i>> \in C
    <3>1. r[t] \in Nat
      BY <2>1
    <3> QED
      BY <2>1, <2>3, <3>1
  <2> QED
    BY <1>3, <2>3, <2>4
<1> HIDE DEF g, F
<1>7. F \in Bijection(C, E)
  <2>1. IsInjective(F)
    BY <1>4, <1>5 DEF IsInjective
  <2> QED
    BY <1>4, <1>6, <2>1 DEF Bijection, Injection, Surjection
<1>8. ExistsBijection(C, E)
  BY <1>7 DEF ExistsBijection
<1> QED
  BY <1>8, FS_Bijection

\* After a drain.
LEMMA DrainedSum ==
  ASSUME WindowInv, IsFiniteSet(Counts), Drain
  PROVE  IsFiniteSet(Counts') /\ EventCount' = Cardinality(InWindow')
<1> DEFINE r == [t \in Times |-> IF OffAvg(t) THEN 0 ELSE rates[t]]
<1>1. /\ rates \in [Times -> Nat] /\ r \in [Times -> Nat] /\ rates' = r
      /\ UNCHANGED <<latest, accepted>>
  BY DEF Drain, history, WindowInv, Inv, TypeOK
<1>2. InWindow' = InWindow
  BY <1>1 DEF InWindow, OffAvg
<1>3. \A x : x \in Counts' <=>
              \E t \in Times, i \in Nat : x = <<t, i>> /\ 1 <= i /\ i <= r[t]
  <2>1. (rates \in [Times -> Nat] => \A x : x \in Counts <=>
           \E t \in Times, i \in Nat : x = <<t, i>> /\ 1 <= i /\ i <= rates[t])'
    BY CountsMembers, PTL
  <2> QED
    BY <1>1, <2>1
<1>4. IsFiniteSet(Counts')
  <2>1. \A t \in Times : r[t] \in Nat /\ rates[t] \in Nat /\ r[t] <= rates[t]
    BY <1>1
  <2>2. Counts' \subseteq Counts
    <3>1. ASSUME NEW x, x \in Counts' PROVE x \in Counts
      <4>1. PICK t \in Times, i \in Nat : x = <<t, i>> /\ 1 <= i /\ i <= r[t]
        BY <1>3, <3>1
      <4>2. i <= rates[t]
        BY <2>1, <4>1
      <4> QED
        BY <1>1, <4>1, <4>2, CountsMembers
    <3> QED
      BY <3>1
  <2> QED
    BY <2>2, FS_Subset
<1>5. ASSUME NEW t \in Times
      PROVE  ExistsBijection(1..r[t], {e \in InWindow : Second(e) = t})
  <2>1. CASE OffAvg(t)
    <3>1. r[t] = 0 /\ {e \in InWindow : Second(e) = t} = {}
      BY <2>1 DEF InWindow
    <3>2. ExistsBijection(1..Cardinality({}), {})
      BY FS_EmptySet, FS_CardinalityType
    <3> QED
      BY <3>1, <3>2, FS_EmptySet
  <2>2. CASE ~OffAvg(t)
    <3>1. {e \in InWindow : Second(e) = t} = OfSecond(t)
      BY <2>2 DEF InWindow, OfSecond
    <3>2. r[t] = Cardinality(OfSecond(t))
      BY <2>2 DEF WindowInv, WindowIsCounted
    <3>3. IsFiniteSet(OfSecond(t))
      BY OfSecondFinite DEF WindowInv, Inv, TypeOK
    <3>4. ExistsBijection(1..Cardinality(OfSecond(t)), OfSecond(t))
      BY <3>3, FS_CardinalityType
    <3> QED
      BY <3>1, <3>2, <3>4
  <2> QED
    BY <2>1, <2>2
<1>6. \A e \in InWindow : Second(e) \in Times
  BY Constants DEF InWindow, WindowInv, Inv, TypeOK
<1> HIDE DEF r
<1>7. Cardinality(InWindow) = Cardinality(Counts')
  BY <1>1, <1>3, <1>4, <1>5, <1>6, SumOfCounts
<1> QED
  BY <1>2, <1>4, <1>7 DEF EventCount

SumInv == WindowInv /\ IsFiniteSet(Counts)

\* The clause of SumIsExact.
SumStep ==
  EventCount' = IF pc = "drain"
                THEN Cardinality(InWindow)'
                ELSE EventCount + Cardinality(accepted' \ accepted)

LEMMA SumInit == Init => SumInv
<1> SUFFICES ASSUME Init PROVE SumInv
  OBVIOUS
<1>1. Counts = {}
  <2>1. rates \in [Times -> Nat] /\ \A t \in Times : rates[t] = 0
    BY DEF Init
  <2> QED
    BY <2>1, CountsMembers
<1> QED
  BY <1>1, WindowInit, FS_EmptySet DEF SumInv

\* A step that counts nothing, and accepts nothing.
LEMMA SameSum ==
  ASSUME SumInv, UNCHANGED <<rates, accepted>>, pc # "drain"
  PROVE  IsFiniteSet(Counts') /\ SumStep
<1>1. Counts' = Counts
  BY DEF Counts
<1>2. accepted' \ accepted = {} /\ Cardinality({}) = 0
  BY FS_EmptySet
<1>3. EventCount \in Nat
  BY FS_CardinalityType DEF SumInv, EventCount
<1> QED
  BY <1>1, <1>2, <1>3 DEF SumInv, SumStep, EventCount

LEMMA SumNext ==
  ASSUME SumInv, Next
  PROVE  SumInv' /\ SumStep
<1> SUFFICES IsFiniteSet(Counts') /\ SumStep
  BY WindowNext DEF SumInv
<1>1. ASSUME NEW t \in Times, NEW ticks \in BOOLEAN, AddOneSecond(t, ticks)
      PROVE  IsFiniteSet(Counts') /\ SumStep
  BY <1>1, SameSum DEF AddOneSecond
<1>2. ASSUME NEW e \in Events, AddEvent(e)
      PROVE  IsFiniteSet(Counts') /\ SumStep
  <2>1. CASE oneSecond = {}
    BY <1>2, <2>1, SameSum DEF AddEvent
  <2>2. CASE oneSecond # {}
    <3>1. /\ pc # "drain" /\ accepted' = accepted \cup {e}
          /\ rates' = [rates EXCEPT ![Second(e)] = @ + 1]
      BY <1>2, <2>2 DEF AddEvent
    <3>2. e \notin accepted
      BY <1>2 DEF AddEvent, SumInv, WindowInv, Inv, TypeOK
    <3>3. accepted' \ accepted = {e}
      BY <3>1, <3>2
    <3>4. Cardinality({e}) = 1
      BY FS_Singleton
    <3>5. IsFiniteSet(Counts') /\ EventCount' = EventCount + 1
      BY <3>1, Constants, OneMoreCount DEF SumInv, WindowInv, Inv, TypeOK
    <3> QED
      BY <3>1, <3>3, <3>4, <3>5 DEF SumStep
  <2> QED
    BY <2>1, <2>2
<1>3. CASE Stir \/ Serve
  BY <1>3, SameSum DEF Stir, Serve, history
<1>4. CASE Drain
  BY <1>4, DrainedSum DEF Drain, SumInv, SumStep
<1> QED
  BY <1>1, <1>2, <1>3, <1>4 DEF Next, Process

\* Whatever the order of the messages and however far the clock jumps: after a
\* drain the sum of all counts is the number of accepted events in the averaging
\* window, though the events themselves may have been cooked, served or drained
\* long before; between two drains it grows by one with each accepted event.
THEOREM RateIsExact == Spec => SumIsExact
<1>1. SumInv /\ [Next]_vars => SumInv'
  <2>1. CASE Next
    BY <2>1, SumNext
  <2>2. CASE UNCHANGED vars
    <3>1. Counts' = Counts
      BY <2>2 DEF vars, Counts
    <3> QED
      BY <2>2, <3>1, WindowNext DEF SumInv
  <2> QED
    BY <2>1, <2>2
<1>2. SumInv /\ [Next]_vars => [SumStep]_vars
  BY SumNext
<1>3. Spec => [][SumStep]_vars
  BY <1>1, <1>2, SumInit, PTL DEF Spec
<1> QED
  BY <1>3 DEF SumIsExact, SumStep
=============================================================================
