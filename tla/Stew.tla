-------------------------------- MODULE Stew --------------------------------
(***************************************************************************)
(* The stew of pysparc/events.py: event messages wait in it for the three  *)
(* one-second messages that fix their trigger time.  The main thread adds  *)
(* messages in the order in which the hardware sends them, which is not    *)
(* always the order of their timestamps, and once a second stirs, serves   *)
(* and drains (DataAcquisition.process_and_store_events).                  *)
(*                                                                         *)
(* Seconds are GPS timestamps counted from 1.  An event message is a pair  *)
(* of its second and its tick within the second, which is what its         *)
(* ext_timestamp, the key of _event_messages, says.                        *)
(***************************************************************************)
EXTENDS Integers, FiniteSets

CONSTANTS
  Times,          \* timestamps the one-second messages may carry
  Events,         \* event messages the hardware may send: <<second, tick>>
  FreshnessTime,  \* FRESHNESS_TIME
  EventRateTime   \* EVENTRATE_TIME

ASSUME TimesAssumption == Times \subseteq Nat \ {0}

ASSUME EventsAssumption == Events \subseteq Times \X Nat

ASSUME FreshnessAssumption == FreshnessTime \in Nat /\ EventRateTime \in Nat

VARIABLES
  oneSecond,  \* timestamps in _one_second_messages
  noTicks,    \* those of them whose count_ticks_PPS is zero
  pending,    \* _event_messages
  cooked,     \* _events
  rates,      \* _event_rates, 0 where the dictionary has no entry
  latest,     \* _latest_timestamp
  pc,         \* where the main thread is
  \* history
  seen,       \* timestamps of the one-second messages received so far
  arrived,    \* event messages received so far; each comes once
  accepted,   \* those that were not ignored
  served      \* events handed to the storage manager, or to the mixer

pot     == <<oneSecond, noTicks>>
history == <<seen, arrived, accepted, served>>
vars    == <<pot, pending, cooked, rates, latest, pc, history>>

Second(e) == e[1]

\* Older than FRESHNESS_TIME, and old enough to be forgotten by event_rate.
Stale(t)    == latest - t > FreshnessTime
OffAvg(t)   == latest - t > EventRateTime

Needed(e) == {Second(e), Second(e) + 1, Second(e) + 2}

Init ==
  /\ oneSecond = {}
  /\ noTicks = {}
  /\ pending = {}
  /\ cooked = {}
  /\ rates = [t \in Times |-> 0]
  /\ latest = 0
  /\ pc = "read"
  /\ seen = {}
  /\ arrived = {}
  /\ accepted = {}
  /\ served = {}

----------------------------------------------------------------------------

\* Variant of AddOneSecond: a message that is out of order moves the clock back.
AddOneSecondBackwards(t, ticks) ==
  /\ pc = "read"
  /\ latest' = t
  /\ oneSecond' = oneSecond \cup {t}
  /\ noTicks' = IF ticks THEN noTicks \ {t} ELSE noTicks \cup {t}
  /\ seen' = seen \cup {t}
  /\ UNCHANGED <<pending, cooked, rates, pc, arrived, accepted, served>>

\* add_one_second_message: a message that is out of order is kept but does not
\* move the clock, any other does, however far ahead it is.
AddOneSecond(t, ticks) ==
  /\ pc = "read"
  /\ latest' = IF t - latest < 0 THEN latest ELSE t
  /\ oneSecond' = oneSecond \cup {t}
  /\ noTicks' = IF ticks THEN noTicks \ {t} ELSE noTicks \cup {t}
  /\ seen' = seen \cup {t}
  /\ UNCHANGED <<pending, cooked, rates, pc, arrived, accepted, served>>

\* add_event_message
AddEvent(e) ==
  /\ pc = "read"
  /\ e \notin arrived
  /\ arrived' = arrived \cup {e}
  /\ IF oneSecond = {}
     THEN UNCHANGED <<pending, rates, accepted>>
     ELSE /\ pending' = pending \cup {e}
          /\ rates' = [rates EXCEPT ![Second(e)] = @ + 1]
          /\ accepted' = accepted \cup {e}
  /\ UNCHANGED <<pot, cooked, latest, pc, seen, served>>

\* cook_event_msg finds its three one-second messages ...
Cookable == {e \in pending : Needed(e) \subseteq oneSecond}

\* ... and divides by the ticks of the second one.
Indigestible == {e \in Cookable : Second(e) + 1 \in noTicks}

\* Variant of Stir: cooked messages stay in the dictionary.
StirKeeps ==
  /\ pc = "read"
  /\ Indigestible = {}
  /\ cooked' = cooked \cup Cookable
  /\ pc' = "serve"
  /\ UNCHANGED <<pot, pending, rates, latest, history>>

\* Variant of Stir: one message at a time.
StirOne ==
  /\ pc = "read"
  /\ \E done \in SUBSET Cookable :
       /\ Cardinality(done) <= 1
       /\ cooked' = cooked \cup done
       /\ pending' = pending \ done
  /\ pc' = "serve"
  /\ UNCHANGED <<pot, rates, latest, history>>

\* stir: everything that can be cooked is.  A ZeroDivisionError is caught
\* nowhere: it ends the program, wherever the loop over the messages has got.
Stir ==
  /\ pc = "read"
  /\ IF Indigestible = {}
     THEN /\ cooked' = cooked \cup Cookable
          /\ pending' = pending \ Cookable
          /\ pc' = "serve"
     ELSE \E done \in SUBSET (Cookable \ Indigestible) :
            /\ cooked' = cooked \cup done
            /\ pending' = pending \ done
            /\ pc' = "dead"
  /\ UNCHANGED <<pot, rates, latest, history>>

\* serve_events, and the events go on their way.
Serve ==
  /\ pc = "serve"
  /\ served' = served \cup cooked
  /\ cooked' = {}
  /\ pc' = "drain"
  /\ UNCHANGED <<pot, pending, rates, latest, seen, arrived, accepted>>

\* Variant of Drain: one second too early.
DrainEarly ==
  /\ pc = "drain"
  /\ oneSecond' = {t \in oneSecond : latest - t < FreshnessTime}
  /\ noTicks' = {t \in noTicks : latest - t < FreshnessTime}
  /\ pending' = {e \in pending : latest - Second(e) < FreshnessTime}
  /\ rates' = [t \in Times |-> IF OffAvg(t) THEN 0 ELSE rates[t]]
  /\ pc' = "read"
  /\ UNCHANGED <<cooked, latest, history>>

\* Variant of Drain: the counts stay.
DrainKeepsCounts ==
  /\ pc = "drain"
  /\ oneSecond' = {t \in oneSecond : ~Stale(t)}
  /\ noTicks' = {t \in noTicks : ~Stale(t)}
  /\ pending' = {e \in pending : ~Stale(Second(e))}
  /\ pc' = "read"
  /\ UNCHANGED <<cooked, rates, latest, history>>

\* drain
Drain ==
  /\ pc = "drain"
  /\ oneSecond' = {t \in oneSecond : ~Stale(t)}
  /\ noTicks' = {t \in noTicks : ~Stale(t)}
  /\ pending' = {e \in pending : ~Stale(Second(e))}
  /\ rates' = [t \in Times |-> IF OffAvg(t) THEN 0 ELSE rates[t]]
  /\ pc' = "read"
  /\ UNCHANGED <<cooked, latest, history>>

Process == Stir \/ Serve \/ Drain

Next ==
  \/ \E t \in Times, ticks \in BOOLEAN : AddOneSecond(t, ticks)
  \/ \E e \in Events : AddEvent(e)
  \/ Process

Spec == Init /\ [][Next]_vars

\* The scheduler runs process_and_store_events every second.
FairSpec == Spec /\ WF_vars(Process)

----------------------------------------------------------------------------
(* Properties.                                                             *)

TypeOK ==
  /\ oneSecond \subseteq Times
  /\ noTicks \subseteq oneSecond
  /\ pending \subseteq Events /\ cooked \subseteq Events
  /\ rates \in [Times -> Nat]
  /\ latest \in Times \cup {0}
  /\ pc \in {"read", "serve", "drain", "dead"}
  /\ seen \subseteq Times
  /\ arrived \subseteq Events /\ accepted \subseteq arrived /\ served \subseteq Events

\* Draining never takes a one-second message that a fresh event may still
\* need, and never the latest one, so that once events are accepted none is
\* ignored any more ("No one-second messages yet").
FreshSecondsKept ==
  /\ latest # 0 => latest \in oneSecond
  /\ \A t \in seen : ~Stale(t) => t \in oneSecond

\* A fresh event is never lost: from its arrival until it has become stale it
\* is in the stew, cooked, or served.
FreshEventsKept ==
  \A e \in accepted : ~Stale(Second(e)) => e \in pending \cup cooked \cup served

\* An event that has received its three one-second messages while it was fresh
\* comes out of the very next stir, whatever the order in which the four
\* messages came.
FreshEventsAreCooked ==
  pc \in {"serve", "drain"} =>
    \A e \in accepted :
      ~Stale(Second(e)) /\ Needed(e) \subseteq seen => e \in cooked \cup served

\* An event leaves the stew once: it is served or pending, never two of them.
ServedOnce ==
  /\ pending \cap cooked = {} /\ pending \cap served = {} /\ cooked \cap served = {}

\* What event_rate sums, one member for each event counted, and the sum.
Counts     == UNION {{t} \X (1..rates[t]) : t \in Times}
EventCount == Cardinality(Counts)

InWindow == {e \in accepted : ~OffAvg(Second(e))}

\* event_rate sums all of _event_rates, whatever their age.  That sum is right
\* nevertheless: after each drain it is the number of accepted events of the
\* averaging window, whatever became of the events and whatever the order of
\* the messages, and until the next drain it grows by one for each event that is
\* accepted, and by nothing else (events.py:145, 196, 221-225).
SumIsExact ==
  [][EventCount' = IF pc = "drain"
                   THEN Cardinality(InWindow)'
                   ELSE EventCount + Cardinality(accepted' \ accepted)]_vars

\* A complete event is served, unless the program ends.
CompleteIsServed ==
  \A e \in Events :
    (e \in pending /\ Needed(e) \subseteq oneSecond) ~> (e \in served \/ pc = "dead")
=============================================================================
