------------------------------- MODULE Outbox -------------------------------
(***************************************************************************)
(* What pysparc's storage promises to one datastore (the docstrings of     *)
(* StorageManager.store_event and StorageWorker.store_event_by_key): every *)
(* event that is accepted waits in line, the datastore is offered the      *)
(* event at the front and no other, as often as it takes, and an event     *)
(* leaves the line only when the datastore has it.                         *)
(***************************************************************************)
EXTENDS Sequences

CONSTANT Keys

VARIABLES
  pending,   \* the events in line
  delivered  \* what the datastore has taken, repetitions included

Init == pending = << >> /\ delivered = << >>

Accept(k) == pending' = Append(pending, k) /\ UNCHANGED delivered

Deliver ==
  /\ pending # << >>
  /\ delivered' = Append(delivered, Head(pending))
  /\ UNCHANGED pending

Acknowledge ==
  /\ pending # << >>
  /\ delivered # << >> /\ delivered[Len(delivered)] = Head(pending)
  /\ pending' = Tail(pending)
  /\ UNCHANGED delivered

Next == (\E k \in Keys : Accept(k)) \/ Deliver \/ Acknowledge

Spec == Init /\ [][Next]_<<pending, delivered>>
=============================================================================
