---------------------------- MODULE MixerProofs ----------------------------
(***************************************************************************)
(* The mixer's promises for all timestamps and any window: each event is   *)
(* used once, no coincidence is missed, and the mixer raises on rivals     *)
(* only.                                                                   *)
(***************************************************************************)
EXTENDS Mixer, FiniteSetTheorems, WellFoundedInduction, TLAPS

----------------------------------------------------------------------------
(* The partner of a secondary event.                                       *)

LEMMA LeastNatural ==
  ASSUME NEW S \in SUBSET Nat, S # {}
  PROVE  \E m \in S : \A n \in S : m <= n
<1>1. PICK m \in S : \A n \in S : ~(<<n, m>> \in OpToRel(<, Nat))
  BY NatLessThanWellFounded, WFMin
<1>2. \A n \in S : ~(n < m)
  BY <1>1 DEF OpToRel
<1> QED
  BY <1>2

LEMMA DistanceType ==
  ASSUME NEW p \in Int, NEW s \in Int
  PROVE  Distance(p, s) \in Nat
  BY DEF Distance

\* Whatever the order of the dictionary's keys, the partner is a primary event
\* that waits, and none that waits is nearer.
LEMMA PartnerIsNearest ==
  ASSUME primary \subseteq Int, IsFiniteSet(primary), primary # {}, NEW s \in Int,
         NEW order \in Bijection(primary, 1..Cardinality(primary))
  PROVE  /\ Partner(s, order) \in primary
         /\ \A u \in primary : Distance(Partner(s, order), s) <= Distance(u, s)
<1>1. Nearest(s) # {}
  <2> DEFINE D == {Distance(p, s) : p \in primary}
  <2>1. D \in SUBSET Nat /\ D # {}
    BY DistanceType
  <2>2. PICK m \in D : \A n \in D : m <= n
    BY <2>1, LeastNatural
  <2>3. PICK p \in primary : Distance(p, s) = m
    OBVIOUS
  <2>4. \A u \in primary : Distance(p, s) <= Distance(u, s)
    BY <2>2, <2>3
  <2> QED
    BY <2>4 DEF Nearest
<1>2. \E p \in Nearest(s) : \A u \in Nearest(s) : order[p] <= order[u]
  <2>1. Cardinality(primary) \in Nat
    BY FS_CardinalityType
  <2>2. order \in [primary -> 1..Cardinality(primary)]
    BY DEF Bijection, Injection
  <2>3. Nearest(s) \subseteq primary
    BY DEF Nearest
  <2> DEFINE O == {order[p] : p \in Nearest(s)}
  <2>4. O \in SUBSET Nat /\ O # {}
    <3>1. ASSUME NEW p \in Nearest(s) PROVE order[p] \in Nat
      <4>1. order[p] \in 1..Cardinality(primary)
        BY <2>2, <2>3
      <4> QED
        BY <2>1, <4>1
    <3> QED
      BY <1>1, <3>1
  <2>5. PICK m \in O : \A n \in O : m <= n
    BY <2>4, LeastNatural
  <2>6. PICK p \in Nearest(s) : order[p] = m
    OBVIOUS
  <2> QED
    BY <2>5, <2>6
<1>3. Partner(s, order) \in Nearest(s)
  BY <1>2 DEF Partner
<1> QED
  BY <1>3 DEF Nearest

----------------------------------------------------------------------------
(* Types.                                                                  *)

\* Dictionaries and lists hold finitely many events.
TypeInv == TypeOK /\ IsFiniteSet(primary)

LEMMA InitTypes == Init => TypeInv
  BY FS_EmptySet DEF Init, TypeInv, TypeOK

\* What mixing takes from the dictionaries, and what it adds to the pairs.
LEMMA TakeTypes ==
  ASSUME TypeInv, primary # {},
         NEW order \in Bijection(primary, 1..Cardinality(primary)),
         NEW S \in SUBSET secondary, Take(S, order)
  PROVE  /\ \A s \in S : Partner(s, order) \in primary
         /\ primary' \subseteq primary /\ secondary' \subseteq secondary
         /\ mixed' \subseteq Primaries \X Secondaries
         /\ IsFiniteSet(primary')
<1>1. \A s \in S : Partner(s, order) \in primary
  BY PartnerIsNearest, MixerAssumption DEF TypeInv, TypeOK
<1>2. primary' \subseteq primary /\ secondary' \subseteq secondary
  BY DEF Take
<1>3. mixed' \subseteq Primaries \X Secondaries
  BY <1>1 DEF Take, Pairs, TypeInv, TypeOK
<1>4. IsFiniteSet(primary')
  BY <1>2, FS_Subset DEF TypeInv
<1> QED
  BY <1>1, <1>2, <1>3, <1>4

\* One pass of mix: it takes some of the coincidences, all of them unless it
\* meets two secondary events with one partner.
LEMMA MixTakes ==
  ASSUME Mix, TypeInv
  PROVE  /\ pc = "mix" /\ UNCHANGED <<added, served>>
         /\ \E order \in Bijection(primary, 1..Cardinality(primary)) :
              \E S \in SUBSET Matching(order) :
                /\ Alone(S, order) /\ Take(S, order)
                /\ \/ S = Matching(order) /\ pc' = "serve"
                   \/ /\ \E s \in Matching(order) \ S : ~Alone(S \cup {s}, order)
                      /\ pc' = "dead"
<1>1. PICK order \in Bijection(primary, 1..Cardinality(primary)) :
        IF Alone(Matching(order), order)
        THEN Take(Matching(order), order) /\ pc' = "serve"
        ELSE \E S \in SUBSET Matching(order) :
               /\ Alone(S, order)
               /\ \E s \in Matching(order) \ S : ~Alone(S \cup {s}, order)
               /\ Take(S, order)
               /\ pc' = "dead"
  BY DEF Mix
<1>2. pc = "mix" /\ UNCHANGED <<added, served>>
  BY DEF Mix
<1> HIDE DEF Alone, Take, Matching
<1> QED
  BY <1>1, <1>2

LEMMA NextTypes == TypeInv /\ [Next]_vars => TypeInv'
<1> SUFFICES ASSUME TypeInv, [Next]_vars PROVE TypeInv'
  OBVIOUS
<1>1. ASSUME NEW events \in SUBSET Primaries, AddPrimaryEvents(events) PROVE TypeInv'
  <2>1. IsFiniteSet(primary')
    BY <1>1, FS_Union DEF AddPrimaryEvents, TypeInv
  <2>2. added' \in (SUBSET Primaries) \X (SUBSET Secondaries)
    BY <1>1 DEF AddPrimaryEvents, TypeInv, TypeOK
  <2> QED
    BY <1>1, <2>1, <2>2 DEF AddPrimaryEvents, TypeInv, TypeOK
<1>2. ASSUME NEW events \in SUBSET Secondaries, AddSecondaryEvents(events) PROVE TypeInv'
  <2>1. added' \in (SUBSET Primaries) \X (SUBSET Secondaries)
    BY <1>2 DEF AddSecondaryEvents, TypeInv, TypeOK
  <2> QED
    BY <1>2, <2>1 DEF AddSecondaryEvents, TypeInv, TypeOK
<1>3. CASE Mix
  <2>0. PICK order \in Bijection(primary, 1..Cardinality(primary)) :
          \E S \in SUBSET Matching(order) :
               Take(S, order) /\ pc' \in {"serve", "dead"}
    BY <1>3, MixTakes
  <2>1. PICK S \in SUBSET Matching(order) :
               Take(S, order) /\ pc' \in {"serve", "dead"}
    BY <2>0
  <2>2. S \subseteq secondary /\ (primary = {} => S = {})
    BY DEF Matching
  <2>3. CASE primary = {}
    <3>1. primary' = {} /\ secondary' \subseteq secondary /\ mixed' = mixed
      BY <2>1, <2>2, <2>3 DEF Take, Pairs
    <3> QED
      BY <1>3, <2>1, <2>3, <3>1, MixTakes DEF TypeInv, TypeOK
  <2>4. CASE primary # {}
    BY <1>3, <2>1, <2>2, <2>4, MixTakes, TakeTypes DEF TypeInv, TypeOK
  <2> QED
    BY <2>3, <2>4
<1>4. CASE Serve
  BY <1>4 DEF Serve, TypeInv, TypeOK
<1>5. CASE UNCHANGED vars
  BY <1>5 DEF vars, TypeInv, TypeOK
<1> QED
  BY <1>1, <1>2, <1>3, <1>4, <1>5 DEF Next

\* The dictionaries hold timestamps of their own detector, and the lists pairs.
THEOREM TypesKept == Spec => []TypeInv
  BY InitTypes, NextTypes, PTL DEF Spec

----------------------------------------------------------------------------
(* Each event once.                                                        *)

LEMMA NextOnce == TypeInv /\ EachEventOnce /\ [Next]_vars => EachEventOnce'
<1> SUFFICES ASSUME TypeInv, EachEventOnce, [Next]_vars PROVE EachEventOnce'
  OBVIOUS
<1> USE DEF EachEventOnce
<1>1. ASSUME NEW events \in SUBSET Primaries, AddPrimaryEvents(events)
      PROVE  EachEventOnce'
  <2>1. /\ added'[1] = added[1] \cup events /\ added'[2] = added[2]
        /\ events \cap added[1] = {} /\ primary' = primary \cup events
        /\ UNCHANGED <<secondary, mixed, served>>
    BY <1>1 DEF AddPrimaryEvents, TypeInv, TypeOK
  <2>2. \A a \in mixed \cup served : a[1] \notin events
    BY <2>1
  <2> QED
    BY <2>1, <2>2
<1>2. ASSUME NEW events \in SUBSET Secondaries, AddSecondaryEvents(events)
      PROVE  EachEventOnce'
  <2>1. /\ added'[2] = added[2] \cup events /\ added'[1] = added[1]
        /\ events \cap added[2] = {} /\ secondary' = secondary \cup events
        /\ UNCHANGED <<primary, mixed, served>>
    BY <1>2 DEF AddSecondaryEvents, TypeInv, TypeOK
  <2>2. \A a \in mixed \cup served : a[2] \notin events
    BY <2>1
  <2> QED
    BY <2>1, <2>2
<1>3. CASE Mix
  <2>0. PICK order \in Bijection(primary, 1..Cardinality(primary)) :
          \E S \in SUBSET Matching(order) : Alone(S, order) /\ Take(S, order)
    BY <1>3, MixTakes
  <2>1. PICK S \in SUBSET Matching(order) : Alone(S, order) /\ Take(S, order)
    BY <2>0
  <2>2. S \subseteq secondary /\ (primary = {} => S = {})
    BY DEF Matching
  <2>3. \A s \in S : Partner(s, order) \in primary
    BY <2>1, <2>2, TakeTypes
  <2> DEFINE new == Pairs(S, order)
  <2>4. /\ \A a \in new : a[1] \in primary /\ a[2] \in S /\ a[1] = Partner(a[2], order)
        /\ \A a \in new : a = <<a[1], a[2]>>
        /\ \A s \in S : <<Partner(s, order), s>> \in new
    BY <2>3 DEF Pairs
  <2>5. /\ mixed' = mixed \cup new /\ served' = served /\ added' = added
        /\ secondary' = secondary \ S
    BY <1>3, <2>1, MixTakes DEF Take
  <2>6. \A p : p \in primary' <=> p \in primary /\ \A a \in new : a[1] # p
    <3>1. \A p : p \in primary' <=> p \in primary /\ \A s \in S : Partner(s, order) # p
      BY <2>1 DEF Take
    <3>2. \A s \in S : \E a \in new : a[1] = Partner(s, order)
      BY <2>4
    <3>3. \A a \in new : \E s \in S : a[1] = Partner(s, order)
      BY <2>4
    <3> HIDE DEF new
    <3> QED
      BY <3>1, <3>2, <3>3
  <2>7. \A a, b \in new : a[1] = b[1] \/ a[2] = b[2] => a = b
    <3>1. \A s, t \in S : Partner(s, order) = Partner(t, order) => s = t
      BY <2>1 DEF Alone
    <3> QED
      BY <2>4, <3>1
  <2> HIDE DEF new
  <2>8. \A a \in new, b \in mixed \cup served : a[1] # b[1] /\ a[2] # b[2]
    BY <2>2, <2>4
  <2>9. (mixed \cap served = {})'
    BY <2>5, <2>8
  <2>10. (\A a, b \in mixed \cup served : a[1] = b[1] \/ a[2] = b[2] => a = b)'
    BY <2>5, <2>7, <2>8
  <2>11. (added[1] = primary \cup {a[1] : a \in mixed \cup served})'
    BY <2>4, <2>5, <2>6
  <2>12. (added[2] = secondary \cup {a[2] : a \in mixed \cup served})'
    <3>1. \A s \in S : \E a \in new : a[2] = s
      BY <2>4
    <3> QED
      BY <2>2, <2>4, <2>5, <3>1
  <2>13. (\A a \in mixed \cup served : a[1] \notin primary /\ a[2] \notin secondary)'
    BY <2>4, <2>5, <2>6
  <2> QED
    BY <2>9, <2>10, <2>11, <2>12, <2>13
<1>4. CASE Serve
  BY <1>4 DEF Serve
<1>5. CASE UNCHANGED vars
  BY <1>5 DEF vars
<1> QED
  BY <1>1, <1>2, <1>3, <1>4, <1>5 DEF Next

\* No event is in two four-channel events, none is lost and none is served
\* twice while the program lives, whatever the timestamps are and however they
\* are split over calls (events.py:229-272).
THEOREM EventsUsedOnce == Spec => []EachEventOnce
<1>1. Init => EachEventOnce
  BY DEF Init, EachEventOnce
<1> QED
  BY <1>1, NextOnce, TypesKept, PTL DEF Spec

----------------------------------------------------------------------------
(* Nothing is missed.                                                      *)

\* Matching passes over a secondary event only if no primary event is near it.
LEMMA NextComplete == TypeInv /\ NoCoincidenceLeft /\ [Next]_vars => NoCoincidenceLeft'
<1> SUFFICES ASSUME TypeInv, NoCoincidenceLeft, [Next]_vars PROVE NoCoincidenceLeft'
  OBVIOUS
<1> USE DEF NoCoincidenceLeft
<1>1. ASSUME NEW events, AddPrimaryEvents(events) \/ AddSecondaryEvents(events)
      PROVE  NoCoincidenceLeft'
  BY <1>1 DEF AddPrimaryEvents, AddSecondaryEvents
<1>2. CASE Mix
  <2>0. PICK order \in Bijection(primary, 1..Cardinality(primary)) :
          \E S \in SUBSET Matching(order) :
               /\ Take(S, order)
               /\ S = Matching(order) \/ pc' = "dead"
    BY <1>2, MixTakes
  <2>1. PICK S \in SUBSET Matching(order) :
               /\ Take(S, order)
               /\ S = Matching(order) \/ pc' = "dead"
    BY <2>0
  <2>2. SUFFICES ASSUME pc' # "dead", NEW p \in primary', NEW s \in secondary'
                 PROVE  ~Near(p, s)
    BY DEF Near
  <2>3. p \in primary /\ s \in secondary /\ s \notin Matching(order)
    BY <2>1, <2>2 DEF Take
  <2>4. ~Near(Partner(s, order), s)
    BY <2>3 DEF Matching
  <2>5. /\ Partner(s, order) \in primary
        /\ Distance(Partner(s, order), s) <= Distance(p, s)
    BY <2>3, PartnerIsNearest, MixerAssumption DEF TypeInv, TypeOK
  <2>6. Distance(p, s) \in Nat /\ Distance(Partner(s, order), s) \in Nat
    BY <2>3, <2>5, DistanceType, MixerAssumption DEF TypeInv, TypeOK
  <2> QED
    BY <2>4, <2>5, <2>6, MixerAssumption DEF Near
<1>3. CASE Serve
  BY <1>3 DEF Serve
<1>4. CASE UNCHANGED vars
  BY <1>4 DEF vars
<1> QED
  BY <1>1, <1>2, <1>3, <1>4 DEF Next

\* Once mix has returned no coincidence is left behind, whichever event came
\* first and however many calls ago (events.py:229-272).
THEOREM NothingMissed == Spec => []NoCoincidenceLeft
<1>1. Init => NoCoincidenceLeft
  BY DEF Init, NoCoincidenceLeft
<1> QED
  BY <1>1, NextComplete, TypesKept, PTL DEF Spec

----------------------------------------------------------------------------
(* Rivals.                                                                 *)

LEMMA NextRivals ==
  TypeInv /\ EachEventOnce /\ RaisesOnlyOnRivals /\ [Next]_vars => RaisesOnlyOnRivals'
<1> SUFFICES ASSUME TypeInv, EachEventOnce, RaisesOnlyOnRivals, [Next]_vars,
                    pc' = "dead"
             PROVE  (\E s, t \in added[2], p \in added[1] :
                       s # t /\ Near(p, s) /\ Near(p, t))'
  BY DEF RaisesOnlyOnRivals
<1>1. ASSUME NEW events, AddPrimaryEvents(events) \/ AddSecondaryEvents(events)
      PROVE  FALSE
  BY <1>1 DEF AddPrimaryEvents, AddSecondaryEvents
<1>2. CASE Mix
  <2>0. PICK order \in Bijection(primary, 1..Cardinality(primary)) :
          \E S \in SUBSET Matching(order) :
               /\ Alone(S, order)
               /\ \E s \in Matching(order) \ S : ~Alone(S \cup {s}, order)
    BY <1>2, MixTakes
  <2>1. PICK S \in SUBSET Matching(order) :
               /\ Alone(S, order)
               /\ \E s \in Matching(order) \ S : ~Alone(S \cup {s}, order)
    BY <2>0
  <2>2. PICK s, t \in Matching(order) : s # t /\ Partner(s, order) = Partner(t, order)
    BY <2>1 DEF Alone
  <2>3. /\ s \in secondary /\ t \in secondary /\ primary # {}
        /\ Near(Partner(s, order), s) /\ Near(Partner(s, order), t)
    BY <2>2 DEF Matching
  <2>4. Partner(s, order) \in primary
    BY <2>3, PartnerIsNearest, MixerAssumption DEF TypeInv, TypeOK
  <2>5. s \in added[2] /\ t \in added[2] /\ Partner(s, order) \in added[1]
    BY <2>3, <2>4 DEF EachEventOnce
  <2>6. added' = added
    BY <1>2, MixTakes
  <2> QED
    BY <2>2, <2>3, <2>5, <2>6 DEF Near
<1>3. CASE Serve
  BY <1>3 DEF Serve
<1>4. CASE UNCHANGED vars
  BY <1>4 DEF vars, RaisesOnlyOnRivals
<1> QED
  BY <1>1, <1>2, <1>3, <1>4 DEF Next

\* The mixer raises only when two events of the secondary are within reach of
\* one event of the primary (events.py:252-272).
THEOREM OnlyRivalsRaise == Spec => []RaisesOnlyOnRivals
<1>1. Init => RaisesOnlyOnRivals
  BY DEF Init, RaisesOnlyOnRivals
<1> QED
  BY <1>1, NextRivals, TypesKept, EventsUsedOnce, PTL DEF Spec
=============================================================================
