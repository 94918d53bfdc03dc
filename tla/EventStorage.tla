---------------------------- MODULE EventStorage ----------------------------
(***************************************************************************)
(* The storage half of pysparc (pysparc/storage.py): one StorageManager,   *)
(* called by the main thread of bin/pysparc_daq, one StorageWorker thread  *)
(* per datastore, and the redis server they share.                         *)
(*                                                                         *)
(* Every redis command is one atomic step: the server executes commands    *)
(* one at a time, and nothing in the code groups two of them.  Events are  *)
(* their keys, because a key is the md5 of the pickled event: two events   *)
(* of equal content are one key.  The keys and queues in redis, and what   *)
(* the datastores hold, outlive the process; everything else does not.     *)
(***************************************************************************)
EXTENDS Integers, Sequences, FiniteSets

CONSTANTS
  Keys,        \* the keys of the events of this behaviour
  Queues,      \* names of the queues in the key-value store
  Workers,     \* StorageManager.workers: the queues in add_datastore order
  MaxCopies,   \* bound: how often each content may be handed to store_event
  MaxCrashes,  \* bound: how often the process is killed
  MaxStops,    \* bound: how often the operator interrupts the program
  MaxFaults    \* bound: redis errors and unexpected datastore exceptions

\* add_datastore's docstring asks for "a unique name for the queue", and the
\* daemon always adds the datastore at Nikhef.
ASSUME WorkersAssumption ==
  /\ Workers \in Seq(Queues) /\ Workers # << >>
  /\ \A i, j \in DOMAIN Workers : Workers[i] = Workers[j] => i = j

ASSUME BoundsAssumption ==
  /\ MaxCopies \in [Keys -> Nat] /\ MaxCrashes \in Nat
  /\ MaxStops \in Nat  /\ MaxFaults \in Nat

VARIABLES
  \* redis
  payload,   \* keys whose hash has an 'event' field
  count,     \* the 'count' field; redis reads a missing one as 0
  queue,     \* the list of keys under each queue name
  \* what each datastore has stored, in the order in which it did
  stored,
  \* the main thread inside StorageManager
  mgr,       \* program counter
  mgrKey,    \* the key store_event computed; meaningful while Storing
  pos,       \* position of add_datastore, store_event and close in Workers
  shutdown,  \* the threading.Event _must_shutdown
  \* the worker threads
  wpc, wkey,
  \* history and bounds
  submitted, \* number of store_event calls for each key
  accepted,  \* keys for which store_event returned normally
  uncounted, \* keys with a removal that store_event's counting missed
  crashes, stops, faults

redis   == <<payload, count, queue>>
main    == <<mgr, mgrKey, pos, shutdown>>
threads == <<wpc, wkey>>
calls   == <<submitted, accepted>>
bounds  == <<crashes, stops, faults>>
vars    == <<redis, stored, main, threads, calls, uncounted, bounds>>

----------------------------------------------------------------------------

MgrPcs == {"down", "adding", "idle", "hmset", "rpush", "hincrby", "joining"}

WorkerPcs == {"off", "check", "lindex", "hget", "store", "lpop",
              "decrement", "delete", "stopped", "dead"}

\* store_event is between computing the key and returning.
Storing == mgr \in {"hmset", "rpush", "hincrby"}

Queued(k) == \E q \in Queues : \E i \in DOMAIN queue[q] : queue[q][i] = k

\* A worker has taken k from its queue and not finished with its hash.
Removing(k) == \E q \in Queues : wkey[q] = k /\ wpc[q] \in {"decrement", "delete"}

\* The daemon starts with whatever the key-value store holds; a new
\* installation holds nothing.
Init ==
  /\ payload = {}
  /\ count = [k \in Keys |-> 0]
  /\ queue = [q \in Queues |-> << >>]
  /\ stored = [q \in Queues |-> << >>]
  /\ mgr = "down"
  /\ mgrKey \in Keys
  /\ pos = 1
  /\ shutdown = FALSE
  /\ wpc = [q \in Queues |-> "off"]
  /\ wkey \in [Queues -> Keys]
  /\ submitted = [k \in Keys |-> 0]
  /\ accepted = {}
  /\ uncounted = {}
  /\ crashes = 0
  /\ stops = 0
  /\ faults = 0

----------------------------------------------------------------------------
(* The main thread.                                                        *)

\* Variant of Start: the shutdown signal is shared by every StorageManager.
StartSharesSignal ==
  /\ mgr = "down"
  /\ mgr' = "adding"
  /\ pos' = 1
  /\ UNCHANGED <<redis, stored, mgrKey, shutdown, threads, calls, uncounted, bounds>>

\* DataAcquisition.__init__ creates the StorageManager.
Start ==
  /\ mgr = "down"
  /\ mgr' = "adding"
  /\ pos' = 1
  /\ shutdown' = FALSE
  /\ UNCHANGED <<redis, stored, mgrKey, threads, calls, uncounted, bounds>>

\* add_datastore: the new worker thread starts at once.
AddDatastore ==
  /\ mgr = "adding"
  /\ wpc' = [wpc EXCEPT ![Workers[pos]] = "check"]
  /\ pos' = pos + 1
  /\ mgr' = IF pos = Len(Workers) THEN "idle" ELSE "adding"
  /\ UNCHANGED <<redis, stored, mgrKey, shutdown, wkey, calls, uncounted, bounds>>

\* store_event up to its first redis command.
StoreEvent(k) ==
  /\ mgr = "idle"
  /\ submitted[k] < MaxCopies[k]
  /\ submitted' = [submitted EXCEPT ![k] = @ + 1]
  /\ mgr' = "hmset"
  /\ mgrKey' = k
  /\ pos' = 1
  /\ UNCHANGED <<redis, stored, shutdown, threads, accepted, uncounted, bounds>>

\* The answer to a redis command arrives, or the socket times out after the
\* server executed it.
Answered(reply) ==
  /\ reply \/ faults < MaxFaults
  /\ faults' = IF reply THEN faults ELSE faults + 1
  /\ UNCHANGED <<crashes, stops>>

\* An exception leaves store_event.  store_events logs it and goes on with
\* the next event; from store_config_event it ends run(), and close() runs.
StoreEventRaises ==
  /\ \/ mgr' = "idle" /\ UNCHANGED shutdown
     \/ mgr' = "joining" /\ shutdown' = TRUE
  /\ pos' = 1
  /\ UNCHANGED <<mgrKey, submitted, accepted>>

\* hmset key {'event': pickled_event, 'count': 0}
WritePayload(reply) ==
  /\ mgr = "hmset"
  /\ Answered(reply)
  /\ payload' = payload \cup {mgrKey}
  /\ count' = [count EXCEPT ![mgrKey] = 0]
  /\ uncounted' = IF reply /\ ~Queued(mgrKey) /\ ~Removing(mgrKey)
                  THEN uncounted ELSE uncounted \cup {mgrKey}
  /\ IF ~reply THEN StoreEventRaises
     ELSE mgr' = "rpush" /\ UNCHANGED <<mgrKey, pos, shutdown, calls>>
  /\ UNCHANGED <<queue, stored, threads>>

\* rpush queue key
PushKey(reply) ==
  /\ mgr = "rpush"
  /\ Answered(reply)
  /\ queue' = [queue EXCEPT ![Workers[pos]] = Append(@, mgrKey)]
  /\ uncounted' = IF reply THEN uncounted ELSE uncounted \cup {mgrKey}
  /\ IF reply THEN mgr' = "hincrby" /\ UNCHANGED <<mgrKey, pos, shutdown, calls>>
     ELSE StoreEventRaises
  /\ UNCHANGED <<payload, count, stored, threads>>

\* Variant of IncrementCount: the loop over the workers runs one turn too far.
IncrementCountOffByOne(reply) ==
  /\ mgr = "hincrby"
  /\ Answered(reply)
  /\ count' = [count EXCEPT ![mgrKey] = @ + 1]
  /\ uncounted' = IF reply THEN uncounted ELSE uncounted \cup {mgrKey}
  /\ IF ~reply THEN StoreEventRaises
     ELSE mgr' = "rpush" /\ pos' = pos + 1
          /\ UNCHANGED <<mgrKey, shutdown, calls>>
  /\ UNCHANGED <<payload, queue, stored, threads>>

\* hincrby key 'count' 1, and the next turn of the loop over the workers.
IncrementCount(reply) ==
  /\ mgr = "hincrby"
  /\ Answered(reply)
  /\ count' = [count EXCEPT ![mgrKey] = @ + 1]
  /\ uncounted' = IF reply THEN uncounted ELSE uncounted \cup {mgrKey}
  /\ IF ~reply THEN StoreEventRaises
     ELSE IF pos = Len(Workers)
     THEN mgr' = "idle" /\ accepted' = accepted \cup {mgrKey}
          /\ UNCHANGED <<mgrKey, pos, shutdown, submitted>>
     ELSE mgr' = "rpush" /\ pos' = pos + 1
          /\ UNCHANGED <<mgrKey, shutdown, calls>>
  /\ UNCHANGED <<payload, queue, stored, threads>>

\* The server refuses the connection: the command is not executed.
ManagerRefused ==
  /\ Storing
  /\ Answered(FALSE)
  /\ uncounted' = uncounted \cup {mgrKey}
  /\ StoreEventRaises
  /\ UNCHANGED <<redis, stored, threads>>

\* Variant of Interrupt: close() joins without setting the signal.
InterruptWithoutSignal ==
  /\ mgr = "idle" \/ Storing
  /\ stops < MaxStops
  /\ stops' = stops + 1
  /\ uncounted' = IF Storing THEN uncounted \cup {mgrKey} ELSE uncounted
  /\ mgr' = "joining"
  /\ pos' = 1
  /\ UNCHANGED <<redis, stored, mgrKey, shutdown, threads, calls, crashes, faults>>

\* KeyboardInterrupt in run(), wherever it finds the main thread: close()
\* sets the shutdown signal and begins to join the workers.
Interrupt ==
  /\ mgr = "idle" \/ Storing
  /\ stops < MaxStops
  /\ stops' = stops + 1
  /\ uncounted' = IF Storing THEN uncounted \cup {mgrKey} ELSE uncounted
  /\ shutdown' = TRUE
  /\ mgr' = "joining"
  /\ pos' = 1
  /\ UNCHANGED <<redis, stored, mgrKey, threads, calls, crashes, faults>>

\* worker.join(), for each worker in turn.
JoinWorker ==
  /\ mgr = "joining"
  /\ pos <= Len(Workers)
  /\ wpc[Workers[pos]] \in {"stopped", "dead"}
  /\ pos' = pos + 1
  /\ UNCHANGED <<redis, stored, mgr, mgrKey, shutdown, threads, calls, uncounted, bounds>>

\* close() returns, the datastores are closed and the process ends.
Exit ==
  /\ mgr = "joining"
  /\ pos > Len(Workers)
  /\ mgr' = "down"
  /\ wpc' = [q \in Queues |-> "off"]
  /\ UNCHANGED <<redis, stored, mgrKey, pos, shutdown, wkey, calls, uncounted, bounds>>

\* The process is killed: power cut, SIGKILL.  Redis keeps its data.
Crash ==
  /\ mgr # "down"
  /\ crashes < MaxCrashes
  /\ crashes' = crashes + 1
  /\ uncounted' = IF Storing THEN uncounted \cup {mgrKey} ELSE uncounted
  /\ mgr' = "down"
  /\ wpc' = [q \in Queues |-> "off"]
  /\ UNCHANGED <<redis, stored, mgrKey, pos, shutdown, wkey, calls, stops, faults>>

----------------------------------------------------------------------------
(* The worker thread of queue q.                                           *)

Goto(q, pc) == wpc' = [wpc EXCEPT ![q] = pc]

\* An exception that is no StorageError leaves run(): the thread is gone, and
\* nothing starts it again in this process.
GotoIfAnswered(q, reply, pc) == Goto(q, IF reply THEN pc ELSE "dead")

\* while not self._must_shutdown.is_set()
CheckShutdown(q) ==
  /\ wpc[q] = "check"
  /\ Goto(q, IF shutdown THEN "stopped" ELSE "lindex")
  /\ UNCHANGED <<redis, stored, main, wkey, calls, uncounted, bounds>>

\* Variant of PeekQueue: lindex -1, the other end of the list.
PeekQueueLast(q) ==
  /\ wpc[q] = "lindex"
  /\ IF queue[q] = << >>
     THEN Goto(q, "check") /\ UNCHANGED wkey
     ELSE Goto(q, "hget") /\ wkey' = [wkey EXCEPT ![q] = queue[q][Len(queue[q])]]
  /\ UNCHANGED <<redis, stored, main, calls, uncounted, bounds>>

\* get_key_from_queue; an empty queue sends the loop to sleep and round again.
PeekQueue(q) ==
  /\ wpc[q] = "lindex"
  /\ IF queue[q] = << >>
     THEN Goto(q, "check") /\ UNCHANGED wkey
     ELSE Goto(q, "hget") /\ wkey' = [wkey EXCEPT ![q] = Head(queue[q])]
  /\ UNCHANGED <<redis, stored, main, calls, uncounted, bounds>>

\* get_event_by_key; an empty event is dropped from the queue unstored.
FetchEvent(q) ==
  /\ wpc[q] = "hget"
  /\ Goto(q, IF wkey[q] \in payload THEN "store" ELSE "lpop")
  /\ UNCHANGED <<redis, stored, main, wkey, calls, uncounted, bounds>>

\* Variant of DatastoreStores: the event is not removed from the queue.
DatastoreStoresOnly(q) ==
  /\ wpc[q] = "store"
  /\ stored' = [stored EXCEPT ![q] = Append(@, wkey[q])]
  /\ Goto(q, "check")
  /\ UNCHANGED <<redis, main, wkey, calls, uncounted, bounds>>

\* datastore.store_event returns: the datastore has the event (or has, for
\* reasons of its own, decided that nobody wants it).
DatastoreStores(q) ==
  /\ wpc[q] = "store"
  /\ stored' = [stored EXCEPT ![q] = Append(@, wkey[q])]
  /\ Goto(q, "lpop")
  /\ UNCHANGED <<redis, main, wkey, calls, uncounted, bounds>>

\* Variant of DatastoreRefuses: an error is taken for success.
DatastoreRefusalIgnored(q) ==
  /\ wpc[q] = "store"
  /\ Goto(q, "lpop")
  /\ UNCHANGED <<redis, stored, main, wkey, calls, uncounted, bounds>>

\* StorageError or UploadError: run() logs it, sleeps and starts over.
DatastoreRefuses(q) ==
  /\ wpc[q] = "store"
  /\ Goto(q, "check")
  /\ UNCHANGED <<redis, stored, main, wkey, calls, uncounted, bounds>>

\* The event arrived, and the answer did not (a timeout of the POST, which is
\* an UploadError), or another exception ended the thread after the event was
\* written or before.
DatastoreFails(q) ==
  /\ wpc[q] = "store"
  /\ Answered(FALSE)
  /\ \/ stored' = [stored EXCEPT ![q] = Append(@, wkey[q])] /\ Goto(q, "check")
     \/ stored' = [stored EXCEPT ![q] = Append(@, wkey[q])] /\ Goto(q, "dead")
     \/ UNCHANGED stored /\ Goto(q, "dead")
  /\ UNCHANGED <<redis, main, wkey, calls, uncounted>>

\* remove_event_from_queue, lpop: another key than the expected one is an
\* IntegrityError, which run() catches.
PopKey(q, reply) ==
  /\ wpc[q] = "lpop"
  /\ Answered(reply)
  /\ queue' = [queue EXCEPT ![q] = IF @ = << >> THEN @ ELSE Tail(@)]
  /\ GotoIfAnswered(q, reply,
       IF queue[q] # << >> /\ Head(queue[q]) = wkey[q] THEN "decrement" ELSE "check")
  /\ UNCHANGED <<payload, count, stored, main, wkey, calls, uncounted>>

\* Variant of DecrementCount: whoever is first deletes the event.
DecrementAlwaysDeletes(q, reply) ==
  /\ wpc[q] = "decrement"
  /\ Answered(reply)
  /\ count' = [count EXCEPT ![wkey[q]] = @ - 1]
  /\ uncounted' = IF Storing /\ mgrKey = wkey[q]
                  THEN uncounted \cup {mgrKey} ELSE uncounted
  /\ GotoIfAnswered(q, reply, "delete")
  /\ UNCHANGED <<payload, queue, stored, main, wkey, calls>>

\* Variant of DecrementCount: the counter before the decrement is compared.
DecrementComparesOld(q, reply) ==
  /\ wpc[q] = "decrement"
  /\ Answered(reply)
  /\ count' = [count EXCEPT ![wkey[q]] = @ - 1]
  /\ uncounted' = IF Storing /\ mgrKey = wkey[q]
                  THEN uncounted \cup {mgrKey} ELSE uncounted
  /\ GotoIfAnswered(q, reply, IF count[wkey[q]] = 0 THEN "delete" ELSE "check")
  /\ UNCHANGED <<payload, queue, stored, main, wkey, calls>>

\* remove_event_from_queue, hincrby key 'count' -1
DecrementCount(q, reply) ==
  /\ wpc[q] = "decrement"
  /\ Answered(reply)
  /\ count' = [count EXCEPT ![wkey[q]] = @ - 1]
  /\ uncounted' = IF Storing /\ mgrKey = wkey[q]
                  THEN uncounted \cup {mgrKey} ELSE uncounted
  /\ GotoIfAnswered(q, reply, IF count[wkey[q]] = 1 THEN "delete" ELSE "check")
  /\ UNCHANGED <<payload, queue, stored, main, wkey, calls>>

\* remove_event_from_queue, del key
DeleteEvent(q, reply) ==
  /\ wpc[q] = "delete"
  /\ Answered(reply)
  /\ payload' = payload \ {wkey[q]}
  /\ count' = [count EXCEPT ![wkey[q]] = 0]
  /\ GotoIfAnswered(q, reply, "check")
  /\ UNCHANGED <<queue, stored, main, wkey, calls, uncounted>>

\* The server refuses the connection, or a read-only command times out.
WorkerRefused(q) ==
  /\ wpc[q] \in {"lindex", "hget", "lpop", "decrement", "delete"}
  /\ Answered(FALSE)
  /\ Goto(q, "dead")
  /\ UNCHANGED <<redis, stored, main, wkey, calls, uncounted>>

----------------------------------------------------------------------------

Command ==
  \E reply \in BOOLEAN : WritePayload(reply) \/ PushKey(reply) \/ IncrementCount(reply)

Manager == Start \/ AddDatastore \/ Command \/ JoinWorker \/ Exit

Removal(q) ==
  \E reply \in BOOLEAN : PopKey(q, reply) \/ DecrementCount(q, reply) \/ DeleteEvent(q, reply)

Worker(q) ==
  \/ CheckShutdown(q) \/ PeekQueue(q) \/ FetchEvent(q)
  \/ DatastoreStores(q) \/ DatastoreRefuses(q)
  \/ Removal(q)

Next ==
  \/ Manager
  \/ \E k \in Keys : StoreEvent(k)
  \/ ManagerRefused \/ Interrupt \/ Crash
  \/ \E q \in Queues : Worker(q) \/ DatastoreFails(q) \/ WorkerRefused(q)

Spec == Init /\ [][Next]_vars

\* The threads are scheduled fairly, supervisord (or the operator) starts the
\* program again after it ended, and a datastore that is tried over and over
\* accepts the event in the end.
Fairness ==
  /\ WF_vars(Manager)
  /\ \A q \in Queues : WF_vars(Worker(q)) /\ SF_vars(DatastoreStores(q))

FairSpec == Spec /\ Fairness

----------------------------------------------------------------------------
(* Properties.                                                             *)

TypeOK ==
  /\ payload \subseteq Keys
  /\ count \in [Keys -> Int]
  /\ queue \in [Queues -> Seq(Keys)]
  /\ stored \in [Queues -> Seq(Keys)]
  /\ mgr \in MgrPcs
  /\ mgrKey \in Keys
  /\ pos \in 1..Len(Workers) + 1
  /\ mgr \in {"adding", "hmset", "rpush", "hincrby"} => pos <= Len(Workers)
  /\ shutdown \in BOOLEAN
  /\ wpc \in [Queues -> WorkerPcs]
  /\ wkey \in [Queues -> Keys]
  /\ submitted \in [Keys -> Nat] /\ \A k \in Keys : submitted[k] <= MaxCopies[k]
  /\ accepted \subseteq Keys
  /\ uncounted \subseteq Keys
  /\ crashes \in 0..MaxCrashes
  /\ stops \in 0..MaxStops
  /\ faults \in 0..MaxFaults

\* "The first element in the queue is removed and compared to the expected
\* key" (remove_event_from_queue): from the moment a worker has looked at the
\* front of its queue until it pops, that key stays at the front, whatever
\* the manager, the other workers, crashes and redis errors do.  So the
\* IntegrityError is never raised and no worker removes an event it has not
\* dealt with.
NoIntegrityError ==
  \A q \in Queues :
    wpc[q] \in {"hget", "store", "lpop"} =>
      queue[q] # << >> /\ Head(queue[q]) = wkey[q]

\* An event for which store_event returned is in every queue or in every
\* datastore: "New events will also be stored in the supplied datastore".
NothingLost ==
  \A k \in accepted, i \in DOMAIN Workers :
    \/ \E n \in DOMAIN queue[Workers[i]] : queue[Workers[i]][n] = k
    \/ \E n \in DOMAIN stored[Workers[i]] : stored[Workers[i]][n] = k

\* A worker never pops the key of an event that its datastore does not have,
\* unless the event's counter went wrong: nothing else leads past the datastore,
\* not even a crash or redis error between looking the event up and popping it.
OnlyUncountedAreDropped ==
  [][\A q \in Queues :
       Len(queue'[q]) < Len(queue[q]) =>
         \/ \E n \in DOMAIN stored[q] : stored[q][n] = Head(queue[q])
         \/ Head(queue[q]) \in uncounted]_vars

\* The upload counter protects an event while any queue still holds it, as
\* long as store_event was through with the counting before a worker removed
\* the event, and no call for equal content came while it was queued.
CountedEventsKeepTheirData ==
  \A k \in Keys \ uncounted : Queued(k) => k \in payload

\* The other half of the counter's contract: without faults a counted event
\* leaves nothing behind once every queue and worker is through with it.
CountedEventsAreCleanedUp ==
  crashes + stops + faults = 0 =>
    \A k \in accepted \ uncounted :
      \/ Queued(k) \/ Removing(k) \/ (Storing /\ mgrKey = k)
      \/ k \notin payload /\ count[k] = 0

\* A datastore receives an event a second time only because the process died
\* or something failed between storing and removing it: never more repetitions
\* than crashes and faults.
RepetitionsNeedFaults ==
  \A q \in Queues, k \in Keys :
    Cardinality({n \in DOMAIN stored[q] : stored[q][n] = k})
      <= submitted[k] + crashes + faults

Box == INSTANCE Outbox WITH pending <- queue[Workers[1]],
                            delivered <- stored[Workers[1]]

\* With one datastore and no two events of equal content, StorageManager and
\* StorageWorker implement the outbox, through crashes, restarts, redis errors
\* and refused uploads.
ImplementsOutbox == Box!Spec

\* A queued event reaches its datastore, or the queue's worker has died of an
\* exception that is no StorageError.
QueuedIsDelivered ==
  \A q \in Queues, k \in Keys :
    (\E n \in DOMAIN queue[q] : queue[q][n] = k)
      ~> (\/ \E n \in DOMAIN stored[q] : stored[q][n] = k
          \/ wpc[q] = "dead")

\* close() comes back: setting the shutdown signal ends the process, with the
\* workers finding it between two events.
ShutdownCompletes == (mgr = "joining") ~> (mgr = "down")

\* "Catch all other exceptions, but reraise them as StorageErrors"
\* (store_event_by_key's docstring), which run() would survive: no exception
\* inside store_event_by_key ends the thread.
OtherErrorsAreReraised ==
  [][\A q \in Queues :
       wpc[q] \in {"hget", "store", "lpop", "decrement", "delete"}
         => wpc'[q] # "dead"]_vars

\* "If the upload counter for the event is zero, remove the event from the
\* key-value store" (remove_event_from_queue's docstring): when everything is
\* stored and every thread is at rest, the key-value store holds no event.
DrainedMeansEmpty ==
  /\ mgr = "idle"
  /\ \A q \in Queues : queue[q] = << >> /\ wpc[q] \in {"check", "lindex"}
  => payload = {}
=============================================================================
