------------------------------- MODULE Mixer --------------------------------
(***************************************************************************)
(* The mixer of pysparc/events.py, which joins the events of a primary and *)
(* a secondary detector of one station to four-channel events.  The main   *)
(* thread adds what the two stews serve, mixes, and takes the mixed events *)
(* (PrimarySecondaryDataAcquisition.process_and_store_events).  An event   *)
(* is its ext_timestamp, the key of the mixer's dictionaries.              *)
(***************************************************************************)
EXTENDS Integers, FiniteSets, Functions

CONSTANTS
  Primaries,   \* ext_timestamps of the primary's events
  Secondaries, \* ext_timestamps of the secondary's events
  MaxDelay     \* MAX_FOUR_CHANNEL_DELAY

ASSUME MixerAssumption ==
  Primaries \subseteq Int /\ Secondaries \subseteq Int /\ MaxDelay \in Nat

VARIABLES
  primary,    \* _primary_events
  secondary,  \* _secondary_events
  mixed,      \* _mixed_events: pairs of a primary and a secondary event
  pc,         \* where the main thread is
  \* history
  added,      \* events added so far: <<of the primary, of the secondary>>
  served      \* pairs handed to the storage manager

vars == <<primary, secondary, mixed, pc, added, served>>

Distance(p, s) == IF p < s THEN s - p ELSE p - s

Near(p, s) == Distance(p, s) < MaxDelay

Init ==
  /\ primary = {} /\ secondary = {} /\ mixed = {} /\ served = {}
  /\ added = <<{}, {}>>
  /\ pc = "primary"

\* add_primary_events with what primary_stew.serve_events returned, a list
AddPrimaryEvents(events) ==
  /\ pc = "primary" /\ IsFiniteSet(events)
  /\ events \cap added[1] = {}
  /\ primary' = primary \cup events
  /\ added' = [added EXCEPT ![1] = @ \cup events]
  /\ pc' = "secondary"
  /\ UNCHANGED <<secondary, mixed, served>>

\* add_secondary_events
AddSecondaryEvents(events) ==
  /\ pc = "secondary" /\ IsFiniteSet(events)
  /\ events \cap added[2] = {}
  /\ secondary' = secondary \cup events
  /\ added' = [added EXCEPT ![2] = @ \cup events]
  /\ pc' = "mix"
  /\ UNCHANGED <<primary, mixed, served>>

Nearest(s) == {p \in primary : \A u \in primary : Distance(p, s) <= Distance(u, s)}

\* The first of the nearest primary events, in the order of keys().
Partner(s, order) ==
  CHOOSE p \in Nearest(s) : \A u \in Nearest(s) : order[p] <= order[u]

Pairs(S, order) == {<<Partner(s, order), s>> : s \in S}

\* Variant of Matching: the window is not checked.
MatchingAny(order) == IF primary = {} THEN {} ELSE secondary

Matching(order) ==
  IF primary = {} THEN {} ELSE {s \in secondary : Near(Partner(s, order), s)}

Alone(S, order) == \A s, t \in S : Partner(s, order) = Partner(t, order) => s = t

Take(S, order) ==
  /\ mixed' = mixed \cup Pairs(S, order)
  /\ secondary' = secondary \ S
  /\ primary' = primary \ {Partner(s, order) : s \in S}

\* Variant of Mix: the partner stays, free for another secondary event.
MixKeepsPartner ==
  /\ pc = "mix"
  /\ \E order \in Bijection(primary, 1..Cardinality(primary)) :
       /\ mixed' = mixed \cup Pairs(Matching(order), order)
       /\ secondary' = secondary \ Matching(order)
  /\ pc' = "serve"
  /\ UNCHANGED <<primary, added, served>>

\* Variant of Mix: secondary events whose primary was taken are skipped.
MixSkips ==
  /\ pc = "mix"
  /\ \E order \in Bijection(primary, 1..Cardinality(primary)) :
       \E S \in SUBSET Matching(order) :
         /\ Alone(S, order)
         /\ \A s \in Matching(order) \ S : ~Alone(S \cup {s}, order)
         /\ Take(S, order)
  /\ pc' = "serve"
  /\ UNCHANGED <<added, served>>

\* mix: the primary timestamps are listed once, before the loop.  A secondary
\* event whose nearest timestamp in that list has been taken by an earlier one
\* raises a KeyError, which nothing catches: the program ends there.
Mix ==
  /\ pc = "mix"
  /\ \E order \in Bijection(primary, 1..Cardinality(primary)) :
       IF Alone(Matching(order), order)
       THEN Take(Matching(order), order) /\ pc' = "serve"
       ELSE \E S \in SUBSET Matching(order) :
              /\ Alone(S, order)
              /\ \E s \in Matching(order) \ S : ~Alone(S \cup {s}, order)
              /\ Take(S, order)
              /\ pc' = "dead"
  /\ UNCHANGED <<added, served>>

\* serve_events; the mixer's drain does nothing, and nobody calls it.
Serve ==
  /\ pc = "serve"
  /\ served' = served \cup mixed
  /\ mixed' = {}
  /\ pc' = "primary"
  /\ UNCHANGED <<primary, secondary, added>>

Next ==
  \/ \E events \in SUBSET Primaries : AddPrimaryEvents(events)
  \/ \E events \in SUBSET Secondaries : AddSecondaryEvents(events)
  \/ Mix
  \/ Serve

Spec == Init /\ [][Next]_vars

----------------------------------------------------------------------------
(* Properties.                                                             *)

TypeOK ==
  /\ primary \subseteq Primaries /\ secondary \subseteq Secondaries
  /\ mixed \subseteq Primaries \X Secondaries /\ served \subseteq Primaries \X Secondaries
  /\ added \in (SUBSET Primaries) \X (SUBSET Secondaries)
  /\ pc \in {"primary", "secondary", "mix", "serve", "dead"}

\* Once mix has returned no coincidence is left behind, whichever of the two
\* events was served first and however many calls ago.
NoCoincidenceLeft ==
  pc \in {"serve", "primary"} =>
    \A p \in primary, s \in secondary : ~Near(p, s)

\* No event is in two four-channel events, none is both waiting and mixed, and
\* none is lost while the program lives: every event added is still waiting or
\* in exactly one pair, and no pair is served twice.
EachEventOnce ==
  /\ mixed \cap served = {}
  /\ \A a, b \in mixed \cup served : a[1] = b[1] \/ a[2] = b[2] => a = b
  /\ added[1] = primary \cup {a[1] : a \in mixed \cup served}
  /\ added[2] = secondary \cup {a[2] : a \in mixed \cup served}
  /\ \A a \in mixed \cup served : a[1] \notin primary /\ a[2] \notin secondary

\* mix raises only when the secondary sent two events so close together that
\* one primary event is within reach of both.
RaisesOnlyOnRivals ==
  pc = "dead" =>
    \E s, t \in added[2], p \in added[1] : s # t /\ Near(p, s) /\ Near(p, t)
=============================================================================
