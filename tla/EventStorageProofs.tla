------------------------- MODULE EventStorageProofs -------------------------
(* Proofs about EventStorage, for every set of keys and queues and every     *)
(* bound.                                                                    *)
EXTENDS EventStorage, FiniteSetTheorems, TLAPS

\* Every worker has a queue of its own.
LEMMA WorkerQueue == \A i \in 1..Len(Workers) : Workers[i] \in Queues
  BY WorkersAssumption

----------------------------------------------------------------------------
(* Type correctness.                                                         *)

LEMMA TypeInit == Init => TypeOK
<1> SUFFICES ASSUME Init PROVE TypeOK
  OBVIOUS
<1>1. Len(Workers) \in Nat
  BY WorkersAssumption
<1>2. QED
  <2>1. submitted \in [Keys -> Nat] /\ \A k \in Keys : submitted[k] <= MaxCopies[k]
    BY BoundsAssumption DEF Init
  <2>2. pos \in 1..Len(Workers) + 1
    BY <1>1 DEF Init
  <2>3. crashes \in 0..MaxCrashes /\ stops \in 0..MaxStops /\ faults \in 0..MaxFaults
    BY BoundsAssumption DEF Init
  <2>4. shutdown \in BOOLEAN
    BY DEF Init
  <2> QED
    BY <2>1, <2>2, <2>3, <2>4 DEF Init, TypeOK, MgrPcs, WorkerPcs

\* Wherever store_event is left by an exception, the main thread is idle or
\* closing.
LEMMA RaisesType ==
  StoreEventRaises =>
    mgr' \in {"idle", "joining"} /\ pos' = 1 /\ (shutdown \in BOOLEAN => shutdown' \in BOOLEAN)
  BY DEF StoreEventRaises

\* The fault counter stays within its bound.
LEMMA AnsweredType ==
  ASSUME TypeOK, NEW reply \in BOOLEAN, Answered(reply)
  PROVE  faults' \in 0..MaxFaults /\ crashes' = crashes /\ stops' = stops
  BY BoundsAssumption DEF TypeOK, Answered

LEMMA TypeNext == TypeOK /\ [Next]_vars => TypeOK'
<1> SUFFICES ASSUME TypeOK, [Next]_vars PROVE TypeOK'
  OBVIOUS
<1>0. Len(Workers) \in Nat \ {0} /\ \A i \in 1..Len(Workers) : Workers[i] \in Queues
  BY WorkersAssumption
<1> USE <1>0, BoundsAssumption DEF TypeOK, MgrPcs, WorkerPcs, vars, redis, main,
      threads, calls, bounds
<1>1. CASE Start
  <2>1. pos' = 1 /\ mgr' = "adding" /\ shutdown' = FALSE
    BY <1>1 DEF Start
  <2>2. pos' \in 1..Len(Workers) + 1 /\ pos' <= Len(Workers)
    BY <2>1
  <2>3. shutdown' \in BOOLEAN
    BY <2>1
  <2> QED
    BY <1>1, <2>1, <2>2, <2>3 DEF Start
<1>2. CASE AddDatastore
  BY <1>2 DEF AddDatastore
<1>3. ASSUME NEW k \in Keys, StoreEvent(k) PROVE TypeOK'
  BY <1>3 DEF StoreEvent
<1>4. ASSUME NEW reply \in BOOLEAN, WritePayload(reply) PROVE TypeOK'
  <2>1. Answered(reply)
    BY <1>4 DEF WritePayload
  <2>2. crashes' \in 0..MaxCrashes /\ stops' \in 0..MaxStops /\ faults' \in 0..MaxFaults
    BY <2>1, AnsweredType
  <2>3. payload' \subseteq Keys /\ count' \in [Keys -> Int] /\ queue' \in [Queues -> Seq(Keys)]
    BY <1>4 DEF WritePayload
  <2>4. /\ mgr' \in MgrPcs
        /\ pos' \in 1..Len(Workers) + 1
        /\ mgr' \in {"adding", "hmset", "rpush", "hincrby"} => pos' <= Len(Workers)
    BY <1>4, RaisesType DEF WritePayload
  <2>5. shutdown' \in BOOLEAN
    BY <1>4, RaisesType DEF WritePayload
  <2>6. /\ mgrKey' \in Keys
        /\ submitted' \in [Keys -> Nat] /\ \A k \in Keys : submitted'[k] <= MaxCopies[k]
    BY <1>4 DEF WritePayload, StoreEventRaises
  <2>7. accepted' \subseteq Keys /\ uncounted' \subseteq Keys
    BY <1>4 DEF WritePayload, StoreEventRaises
  <2> QED
    BY <1>4, <2>2, <2>3, <2>4, <2>5, <2>6, <2>7 DEF WritePayload
<1>5. ASSUME NEW reply \in BOOLEAN, PushKey(reply) PROVE TypeOK'
  <2>1. Answered(reply)
    BY <1>5 DEF PushKey
  <2>2. crashes' \in 0..MaxCrashes /\ stops' \in 0..MaxStops /\ faults' \in 0..MaxFaults
    BY <2>1, AnsweredType
  <2>3. payload' \subseteq Keys /\ count' \in [Keys -> Int] /\ queue' \in [Queues -> Seq(Keys)]
    BY <1>5 DEF PushKey
  <2>4. /\ mgr' \in MgrPcs
        /\ pos' \in 1..Len(Workers) + 1
        /\ mgr' \in {"adding", "hmset", "rpush", "hincrby"} => pos' <= Len(Workers)
    BY <1>5, RaisesType DEF PushKey
  <2>5. shutdown' \in BOOLEAN
    BY <1>5, RaisesType DEF PushKey
  <2>6. /\ mgrKey' \in Keys
        /\ submitted' \in [Keys -> Nat] /\ \A k \in Keys : submitted'[k] <= MaxCopies[k]
    BY <1>5 DEF PushKey, StoreEventRaises
  <2>7. accepted' \subseteq Keys /\ uncounted' \subseteq Keys
    BY <1>5 DEF PushKey, StoreEventRaises
  <2> QED
    BY <1>5, <2>2, <2>3, <2>4, <2>5, <2>6, <2>7 DEF PushKey
<1>6. ASSUME NEW reply \in BOOLEAN, IncrementCount(reply) PROVE TypeOK'
  <2>1. Answered(reply)
    BY <1>6 DEF IncrementCount
  <2>2. crashes' \in 0..MaxCrashes /\ stops' \in 0..MaxStops /\ faults' \in 0..MaxFaults
    BY <2>1, AnsweredType
  <2>3. payload' \subseteq Keys /\ count' \in [Keys -> Int] /\ queue' \in [Queues -> Seq(Keys)]
    BY <1>6 DEF IncrementCount
  <2>4. /\ mgr' \in MgrPcs
        /\ pos' \in 1..Len(Workers) + 1
        /\ mgr' \in {"adding", "hmset", "rpush", "hincrby"} => pos' <= Len(Workers)
    BY <1>6, RaisesType DEF IncrementCount
  <2>5. shutdown' \in BOOLEAN
    BY <1>6, RaisesType DEF IncrementCount
  <2>6. /\ mgrKey' \in Keys
        /\ submitted' \in [Keys -> Nat] /\ \A k \in Keys : submitted'[k] <= MaxCopies[k]
    BY <1>6 DEF IncrementCount, StoreEventRaises
  <2>7. accepted' \subseteq Keys /\ uncounted' \subseteq Keys
    BY <1>6 DEF IncrementCount, StoreEventRaises
  <2> QED
    BY <1>6, <2>2, <2>3, <2>4, <2>5, <2>6, <2>7 DEF IncrementCount
<1>7. CASE ManagerRefused
  <2>1. crashes' \in 0..MaxCrashes /\ stops' \in 0..MaxStops /\ faults' \in 0..MaxFaults
    BY <1>7, AnsweredType DEF ManagerRefused
  <2>2. /\ mgr' \in {"idle", "joining"} /\ pos' \in 1..Len(Workers) + 1
        /\ shutdown' \in BOOLEAN
    BY <1>7, RaisesType DEF ManagerRefused
  <2> QED
    BY <1>7, <2>1, <2>2 DEF ManagerRefused, StoreEventRaises
<1>8. CASE Interrupt
  BY <1>8 DEF Interrupt
<1>9. CASE JoinWorker
  BY <1>9 DEF JoinWorker
<1>10. CASE Exit
  BY <1>10 DEF Exit
<1>11. CASE Crash
  BY <1>11 DEF Crash
<1>12. ASSUME NEW q \in Queues, CheckShutdown(q) PROVE TypeOK'
  BY <1>12 DEF CheckShutdown, Goto
<1>13. ASSUME NEW q \in Queues, PeekQueue(q) PROVE TypeOK'
  <2>1. wpc' \in [Queues -> WorkerPcs]
    BY <1>13 DEF PeekQueue, Goto
  <2>2. queue[q] # << >> => Head(queue[q]) \in Keys
    OBVIOUS
  <2>3. wkey' \in [Queues -> Keys]
    BY <1>13, <2>2 DEF PeekQueue
  <2> QED
    BY <1>13, <2>1, <2>3 DEF PeekQueue
<1>14. ASSUME NEW q \in Queues, FetchEvent(q) PROVE TypeOK'
  BY <1>14 DEF FetchEvent, Goto
<1>15. ASSUME NEW q \in Queues, DatastoreStores(q) PROVE TypeOK'
  BY <1>15 DEF DatastoreStores, Goto
<1>16. ASSUME NEW q \in Queues, DatastoreRefuses(q) PROVE TypeOK'
  BY <1>16 DEF DatastoreRefuses, Goto
<1>17. ASSUME NEW q \in Queues, DatastoreFails(q) PROVE TypeOK'
  <2>1. crashes' \in 0..MaxCrashes /\ stops' \in 0..MaxStops /\ faults' \in 0..MaxFaults
    BY <1>17, AnsweredType DEF DatastoreFails
  <2>2. wpc' \in [Queues -> WorkerPcs]
    BY <1>17 DEF DatastoreFails, Goto
  <2>3. stored' \in [Queues -> Seq(Keys)]
    <3>1. Append(stored[q], wkey[q]) \in Seq(Keys)
      OBVIOUS
    <3> QED
      BY <1>17, <3>1 DEF DatastoreFails
  <2> QED
    BY <1>17, <2>1, <2>2, <2>3 DEF DatastoreFails
<1>18. ASSUME NEW q \in Queues, NEW reply \in BOOLEAN, PopKey(q, reply) PROVE TypeOK'
  BY <1>18 DEF PopKey, Goto, GotoIfAnswered, Answered
<1>19. ASSUME NEW q \in Queues, NEW reply \in BOOLEAN, DecrementCount(q, reply)
       PROVE TypeOK'
  BY <1>19 DEF DecrementCount, Goto, GotoIfAnswered, Answered
<1>20. ASSUME NEW q \in Queues, NEW reply \in BOOLEAN, DeleteEvent(q, reply)
       PROVE TypeOK'
  BY <1>20 DEF DeleteEvent, Goto, GotoIfAnswered, Answered
<1>21. ASSUME NEW q \in Queues, WorkerRefused(q) PROVE TypeOK'
  BY <1>21 DEF WorkerRefused, Goto, Answered
<1>22. CASE UNCHANGED vars
  BY <1>22
<1> QED
  BY <1>1, <1>2, <1>3, <1>4, <1>5, <1>6, <1>7, <1>8, <1>9, <1>10, <1>11, <1>12,
     <1>13, <1>14, <1>15, <1>16, <1>17, <1>18, <1>19, <1>20, <1>21, <1>22
     DEF Next, Manager, Command, Worker, Removal

\* Every variable keeps its type: in particular the loops over the workers
\* never leave the list of workers.
THEOREM TypeCorrect == Spec => []TypeOK
  BY TypeInit, TypeNext, PTL DEF Spec

----------------------------------------------------------------------------
(* The front of a queue belongs to its worker.                               *)

\* Appending a key leaves the front of a non-empty list alone.
LEMMA AppendKeepsHead ==
  ASSUME NEW s \in Seq(Keys), s # << >>, NEW k \in Keys
  PROVE  Append(s, k) # << >> /\ Head(Append(s, k)) = Head(s)
  OBVIOUS

LEMMA HeadNext ==
  TypeOK /\ NoIntegrityError /\ [Next]_vars => NoIntegrityError'
<1> SUFFICES ASSUME TypeOK, NoIntegrityError, [Next]_vars,
                    NEW p \in Queues, wpc'[p] \in {"hget", "store", "lpop"}
             PROVE  queue'[p] # << >> /\ Head(queue'[p]) = wkey'[p]
  BY DEF NoIntegrityError
<1>a. /\ queue \in [Queues -> Seq(Keys)]
      /\ wpc \in [Queues -> WorkerPcs] /\ wkey \in [Queues -> Keys]
      /\ mgrKey \in Keys
  BY DEF TypeOK
<1>b. wpc[p] \in {"hget", "store", "lpop"} =>
        queue[p] # << >> /\ Head(queue[p]) = wkey[p]
  BY DEF NoIntegrityError
<1> USE <1>a
<1> DEFINE Same == queue' = queue /\ wkey' = wkey
<1>c. CASE /\ Same
           /\ wpc'[p] \in {"hget", "store", "lpop"} => wpc[p] \in {"hget", "store", "lpop"}
  BY <1>b, <1>c
<1> USE DEF redis, main, threads, calls, bounds
<1>1. CASE Start \/ ManagerRefused \/ Interrupt \/ JoinWorker
  BY <1>1, <1>c DEF Start, ManagerRefused, Interrupt, JoinWorker
<1>2. CASE AddDatastore
  BY <1>2, <1>c DEF AddDatastore, WorkerPcs
<1>3. CASE Exit \/ Crash
  BY <1>3, <1>c DEF Exit, Crash
<1>4. ASSUME NEW k \in Keys, StoreEvent(k)
      PROVE  queue'[p] # << >> /\ Head(queue'[p]) = wkey'[p]
  BY <1>4, <1>c DEF StoreEvent
<1>5. ASSUME NEW reply \in BOOLEAN, WritePayload(reply) \/ IncrementCount(reply)
      PROVE  queue'[p] # << >> /\ Head(queue'[p]) = wkey'[p]
  BY <1>5, <1>c DEF WritePayload, IncrementCount
<1>6. ASSUME NEW reply \in BOOLEAN, PushKey(reply)
      PROVE  queue'[p] # << >> /\ Head(queue'[p]) = wkey'[p]
  <2>1. wpc' = wpc /\ wkey' = wkey
    BY <1>6 DEF PushKey
  <2>2. queue'[p] = queue[p] \/ queue'[p] = Append(queue[p], mgrKey)
    BY <1>6 DEF PushKey
  <2> QED
    BY <2>1, <2>2, <1>b, AppendKeepsHead
<1>7. ASSUME NEW q \in Queues, PeekQueue(q)
      PROVE  queue'[p] # << >> /\ Head(queue'[p]) = wkey'[p]
  <2>1. CASE p = q /\ queue[q] # << >>
    BY <1>7, <2>1 DEF PeekQueue
  <2>2. CASE p = q /\ queue[q] = << >>
    BY <1>7, <2>2 DEF PeekQueue, Goto
  <2>3. CASE p # q
    BY <1>7, <2>3, <1>b DEF PeekQueue, Goto
  <2> QED
    BY <2>1, <2>2, <2>3
<1>8. ASSUME NEW q \in Queues, NEW reply \in BOOLEAN, PopKey(q, reply)
      PROVE  queue'[p] # << >> /\ Head(queue'[p]) = wkey'[p]
  <2>1. p # q
    BY <1>8 DEF PopKey, Goto, GotoIfAnswered
  <2> QED
    BY <1>8, <2>1, <1>b DEF PopKey, Goto, GotoIfAnswered
<1>9. ASSUME NEW q \in Queues,
             CheckShutdown(q) \/ FetchEvent(q) \/ DatastoreStores(q)
               \/ DatastoreRefuses(q) \/ DatastoreFails(q) \/ WorkerRefused(q)
      PROVE  queue'[p] # << >> /\ Head(queue'[p]) = wkey'[p]
  BY <1>9, <1>c DEF CheckShutdown, FetchEvent, DatastoreStores, DatastoreRefuses,
                    DatastoreFails, WorkerRefused, Goto
<1>10. ASSUME NEW q \in Queues, NEW reply \in BOOLEAN,
              DecrementCount(q, reply) \/ DeleteEvent(q, reply)
       PROVE  queue'[p] # << >> /\ Head(queue'[p]) = wkey'[p]
  BY <1>10, <1>c DEF DecrementCount, DeleteEvent, Goto, GotoIfAnswered
<1>11. CASE UNCHANGED vars
  BY <1>11, <1>c DEF vars
<1> QED
  BY <1>1, <1>2, <1>3, <1>4, <1>5, <1>6, <1>7, <1>8, <1>9, <1>10, <1>11
     DEF Next, Manager, Command, Worker, Removal

\* Whatever the number of queues and keys, and however often the process is
\* killed, interrupted and started again or redis fails: the key a worker is
\* busy with stays at the front of its queue, so that remove_event_from_queue
\* never removes another.
THEOREM HeadStable == Spec => []NoIntegrityError
<1>1. Init => NoIntegrityError
  BY DEF Init, NoIntegrityError
<1> QED
  BY <1>1, HeadNext, TypeCorrect, PTL DEF Spec

----------------------------------------------------------------------------
(***************************************************************************)
(* With one datastore and distinct events, EventStorage loses nothing and  *)
(* implements Outbox, for every set of events and through any number of    *)
(* crashes, interrupts and faults.                                         *)
(***************************************************************************)

\* The daemon's default configuration (store_data_in_file is off), and no two
\* events of equal content.
OneDatastore ==
  /\ Len(Workers) = 1
  /\ Queues = {Workers[1]}
  /\ \A k \in Keys : MaxCopies[k] <= 1

W == Workers[1]

----------------------------------------------------------------------------
(* Facts about lists.                                                        *)

InList(s, k) == \E n \in DOMAIN s : s[n] = k

NoRepeats(s) == \A m, n \in DOMAIN s : s[m] = s[n] => m = n

LEMMA InAppend ==
  ASSUME NEW s \in Seq(Keys), NEW k \in Keys, NEW j \in Keys
  PROVE  InList(Append(s, k), j) <=> InList(s, j) \/ j = k
  BY DEF InList

LEMMA InTail ==
  ASSUME NEW s \in Seq(Keys), s # << >>, NEW j \in Keys
  PROVE  InList(s, j) <=> j = Head(s) \/ InList(Tail(s), j)
<1>1. ASSUME NEW n \in DOMAIN s, s[n] = j, n # 1 PROVE InList(Tail(s), j)
  <2>1. n - 1 \in DOMAIN Tail(s) /\ Tail(s)[n - 1] = j
    BY <1>1
  <2> QED
    BY <2>1 DEF InList
<1>2. ASSUME NEW n \in DOMAIN Tail(s), Tail(s)[n] = j PROVE InList(s, j)
  <2>1. n + 1 \in DOMAIN s /\ s[n + 1] = j
    BY <1>2
  <2> QED
    BY <2>1 DEF InList
<1>3. 1 \in DOMAIN s /\ s[1] = Head(s)
  OBVIOUS
<1> QED
  BY <1>1, <1>2, <1>3 DEF InList

LEMMA OnceAppend ==
  ASSUME NEW s \in Seq(Keys), NEW k \in Keys, NoRepeats(s), ~InList(s, k)
  PROVE  NoRepeats(Append(s, k))
  BY DEF NoRepeats, InList

LEMMA OnceTail ==
  ASSUME NEW s \in Seq(Keys), s # << >>, NoRepeats(s)
  PROVE  NoRepeats(Tail(s)) /\ ~InList(Tail(s), Head(s))
<1>1. \A n \in DOMAIN Tail(s) : n + 1 \in DOMAIN s /\ Tail(s)[n] = s[n + 1]
  OBVIOUS
<1>2. 1 \in DOMAIN s /\ s[1] = Head(s)
  OBVIOUS
<1>3. DOMAIN Tail(s) \subseteq Nat \ {0}
  OBVIOUS
<1> QED
  BY <1>1, <1>2, <1>3 DEF NoRepeats, InList

----------------------------------------------------------------------------
(* The inductive invariant.                                                  *)

InLine(k) == InList(queue[W], k)

Delivered(k) == InList(stored[W], k)

\* Neither queued nor in the hands of the worker that removed it.
Unseen(k) == ~InLine(k) /\ ~(wkey[W] = k /\ wpc[W] \in {"decrement", "delete"})

\* store_event has not yet queued the key it is working on.
Fresh ==
  /\ \A k \in Keys : submitted[k] = 0 => Unseen(k)
  /\ mgr \in {"hmset", "rpush"} => submitted[mgrKey] # 0 /\ Unseen(mgrKey)

\* A queued event has its data, and a removed one is not queued elsewhere, so
\* that deleting its data hurts no one.
HasData ==
  /\ NoRepeats(queue[W])
  /\ \A k \in Keys : InLine(k) => k \in payload
  /\ mgr = "rpush" => mgrKey \in payload
  /\ wpc[W] \in {"decrement", "delete"} => ~InLine(wkey[W])

\* The worker pops only what it has stored.
Taken ==
  wpc[W] = "lpop" => stored[W] # << >> /\ stored[W][Len(stored[W])] = wkey[W]

Kept ==
  /\ \A k \in accepted : InLine(k) \/ Delivered(k)
  /\ mgr = "hincrby" => pos = 1 /\ (InLine(mgrKey) \/ Delivered(mgrKey))

Inv == TypeOK /\ NoIntegrityError /\ Fresh /\ HasData /\ Taken /\ Kept

LEMMA InvInit == OneDatastore /\ Init => Inv
<1> SUFFICES ASSUME OneDatastore, Init PROVE Inv
  OBVIOUS
<1>1. TypeOK /\ NoIntegrityError
  BY TypeInit DEF Init, NoIntegrityError
<1>2. W \in Queues
  BY DEF OneDatastore, W
<1>3. queue[W] = << >> /\ wpc[W] = "off" /\ mgr = "down" /\ accepted = {}
  BY <1>2 DEF Init
<1>4. \A k : ~InList(<< >>, k)
  BY DEF InList
<1>5. NoRepeats(<< >>)
  BY DEF NoRepeats
<1> QED
  BY <1>1, <1>3, <1>4, <1>5 DEF Inv, Fresh, HasData, Taken, Kept, InLine, Unseen

\* A step that leaves the queue, the data and the datastore alone, starts no
\* storing and moves the worker to no pop or removal keeps the invariant.
LEMMA QuietStep ==
  ASSUME Inv, TypeOK', NoIntegrityError',
         UNCHANGED <<payload, queue, stored, accepted>>,
         mgr' \in {"hmset", "rpush", "hincrby"} => UNCHANGED <<mgr, mgrKey, pos, submitted>>,
         \A k \in Keys : submitted'[k] = 0 => submitted[k] = 0,
         wpc'[W] \in {"lpop", "decrement", "delete"} =>
           /\ wkey'[W] = wkey[W]
           /\ \/ wpc'[W] = wpc[W]
              \/ wpc[W] = "decrement" /\ wpc'[W] = "delete"
  PROVE  Inv'
<1>1. Fresh'
  BY DEF Inv, Fresh, Unseen, InLine, TypeOK
<1>2. HasData'
  BY DEF Inv, HasData, InLine
<1>3. Taken'
  BY DEF Inv, Taken
<1>4. Kept'
  BY DEF Inv, Kept, InLine, Delivered
<1> QED
  BY <1>1, <1>2, <1>3, <1>4 DEF Inv

\* What there is to know of the one worker's queue and thread.
LEMMA Types ==
  ASSUME OneDatastore, Inv
  PROVE  /\ W \in Queues /\ \A q \in Queues : q = W
         /\ queue \in [Queues -> Seq(Keys)] /\ queue[W] \in Seq(Keys)
         /\ stored \in [Queues -> Seq(Keys)] /\ stored[W] \in Seq(Keys)
         /\ wpc \in [Queues -> WorkerPcs] /\ wkey \in [Queues -> Keys] /\ wkey[W] \in Keys
         /\ mgrKey \in Keys /\ submitted \in [Keys -> Nat] /\ accepted \subseteq Keys
         /\ payload \subseteq Keys
  BY DEF OneDatastore, W, Inv, TypeOK

\* The main thread's steps.
LEMMA ManagerKeepsInv ==
  ASSUME OneDatastore, Inv, TypeOK', NoIntegrityError',
         \/ Start \/ AddDatastore \/ JoinWorker \/ Exit \/ Crash \/ Interrupt
         \/ ManagerRefused \/ Command \/ \E k \in Keys : StoreEvent(k)
  PROVE  Inv'
<1> USE DEF redis, main, threads, calls, bounds
<1>a. StoreEventRaises => mgr' \in {"idle", "joining"} /\ UNCHANGED <<submitted, accepted>>
  BY DEF StoreEventRaises
<1>b. /\ W \in Queues /\ queue[W] \in Seq(Keys) /\ mgrKey \in Keys
      /\ wpc \in [Queues -> WorkerPcs] /\ submitted \in [Keys -> Nat]
      /\ queue \in [Queues -> Seq(Keys)]
  BY Types
<1>1. CASE Start \/ JoinWorker \/ Interrupt \/ ManagerRefused
  BY <1>1, <1>a, QuietStep DEF Start, JoinWorker, Interrupt, ManagerRefused
<1>2. CASE AddDatastore
  <2>1. wpc'[W] \in {wpc[W], "check"}
    BY <1>2, <1>b DEF AddDatastore
  <2>2. mgr' \in {"idle", "adding"}
    BY <1>2 DEF AddDatastore
  <2> QED
    BY <1>2, <2>1, <2>2, QuietStep DEF AddDatastore
<1>3. CASE Exit \/ Crash
  BY <1>3, <1>b, QuietStep DEF Exit, Crash
<1>4. ASSUME NEW k \in Keys, StoreEvent(k) PROVE Inv'
  <2>1. submitted[k] = 0 /\ submitted'[k] # 0
    BY <1>4, <1>b, BoundsAssumption DEF StoreEvent, OneDatastore
  <2>2. \A j \in Keys : submitted'[j] = 0 => submitted[j] = 0
    BY <1>4, <1>b DEF StoreEvent
  <2>3. /\ \A j : Unseen(j)' <=> Unseen(j)
        /\ \A j : InLine(j)' <=> InLine(j)
        /\ \A j : Delivered(j)' <=> Delivered(j)
    BY <1>4 DEF StoreEvent, Unseen, InLine, Delivered
  <2>4. Fresh'
    BY <1>4, <2>1, <2>2, <2>3 DEF StoreEvent, Inv, Fresh
  <2>5. HasData' /\ Taken' /\ Kept'
    BY <1>4, <2>3 DEF StoreEvent, Inv, HasData, Taken, Kept
  <2> QED
    BY <2>4, <2>5 DEF Inv
<1>5. ASSUME NEW reply \in BOOLEAN, WritePayload(reply) PROVE Inv'
  <2>1. mgr' \in {"rpush", "idle", "joining"} /\ UNCHANGED <<submitted, accepted>>
    BY <1>5, <1>a DEF WritePayload
  <2>2. /\ \A j : Unseen(j)' <=> Unseen(j)
        /\ \A j : InLine(j)' <=> InLine(j)
        /\ \A j : Delivered(j)' <=> Delivered(j)
    BY <1>5 DEF WritePayload, Unseen, InLine, Delivered
  <2>3. mgr' = "rpush" => mgrKey' = mgrKey
    BY <1>5, <1>a DEF WritePayload
  <2>4. Fresh'
    BY <1>5, <2>1, <2>2, <2>3 DEF WritePayload, Inv, Fresh
  <2>5. HasData'
    BY <1>5, <2>1, <2>2, <2>3 DEF WritePayload, Inv, HasData
  <2>6. Taken' /\ Kept'
    BY <1>5, <2>1, <2>2 DEF WritePayload, Inv, Taken, Kept
  <2> QED
    BY <2>4, <2>5, <2>6 DEF Inv
<1>6. ASSUME NEW reply \in BOOLEAN, PushKey(reply) PROVE Inv'
  <2>1. /\ mgr' \in {"hincrby", "idle", "joining"}
        /\ UNCHANGED <<submitted, accepted, payload, stored, wpc, wkey>>
        /\ mgr' = "hincrby" => mgrKey' = mgrKey /\ pos' = pos
    BY <1>6, <1>a DEF PushKey
  <2>2. pos = 1 /\ Workers[pos] = W /\ mgr = "rpush"
    BY <1>6 DEF PushKey, Inv, TypeOK, OneDatastore, W
  <2>3. queue'[W] = Append(queue[W], mgrKey)
    BY <1>6, <1>b, <2>2 DEF PushKey
  <2>4. \A j \in Keys : InLine(j)' <=> InLine(j) \/ j = mgrKey
    BY <2>3, <1>b, InAppend DEF InLine
  <2>5. submitted[mgrKey] # 0 /\ Unseen(mgrKey) /\ mgrKey \in payload
    BY <2>2 DEF Inv, Fresh, HasData
  <2>6. Fresh'
    BY <2>1, <2>4, <2>5, <1>b DEF Inv, Fresh, Unseen
  <2>7. HasData'
    <3>1. NoRepeats(queue'[W])
      BY <2>3, <2>5, <1>b, OnceAppend DEF Unseen, InLine, Inv, HasData
    <3>2. \A j \in Keys : InLine(j)' => j \in payload'
      BY <2>1, <2>4, <2>5 DEF Inv, HasData
    <3>3. wpc'[W] \in {"decrement", "delete"} => ~InLine(wkey[W])'
      BY <2>1, <2>4, <2>5, Types DEF Inv, HasData, Unseen
    <3> QED
      BY <3>1, <3>2, <3>3, <2>1 DEF HasData, InLine
  <2>8. Taken'
    BY <2>1 DEF Inv, Taken
  <2>9. Kept'
    <3>1. \A k \in accepted' : InLine(k)' \/ Delivered(k)'
      BY <2>1, <2>4, Types DEF Inv, Kept, Delivered
    <3> QED
      BY <3>1, <2>1, <2>2, <2>4, <1>b DEF Kept, InLine
  <2> QED
    BY <2>6, <2>7, <2>8, <2>9 DEF Inv
<1>7. ASSUME NEW reply \in BOOLEAN, IncrementCount(reply) PROVE Inv'
  <2>1. pos = 1 /\ pos = Len(Workers) /\ mgr = "hincrby" /\ mgrKey \in Keys
    BY <1>7, <1>b DEF IncrementCount, Inv, Kept, OneDatastore
  <2>2. /\ mgr' \in {"idle", "joining"} /\ accepted' \subseteq accepted \cup {mgrKey}
        /\ UNCHANGED <<submitted, payload, queue, stored, wpc, wkey>>
    BY <1>7, <1>a, <2>1 DEF IncrementCount
  <2>3. /\ \A j : Unseen(j)' <=> Unseen(j)
        /\ \A j : InLine(j)' <=> InLine(j)
        /\ \A j : Delivered(j)' <=> Delivered(j)
    BY <2>2 DEF Unseen, InLine, Delivered
  <2>4. Fresh' /\ HasData' /\ Taken'
    BY <2>2, <2>3 DEF Inv, Fresh, HasData, Taken
  <2>5. Kept'
    BY <2>1, <2>2, <2>3 DEF Inv, Kept
  <2> QED
    BY <2>4, <2>5 DEF Inv
<1> QED
  BY <1>1, <1>2, <1>3, <1>4, <1>5, <1>6, <1>7 DEF Command

\* The worker's steps.
LEMMA WorkerKeepsInv ==
  ASSUME OneDatastore, Inv, TypeOK', NoIntegrityError', NEW q \in Queues,
         Worker(q) \/ DatastoreFails(q) \/ WorkerRefused(q)
  PROVE  Inv'
<1> USE DEF redis, main, threads, calls, bounds
<1>b. /\ q = W /\ W \in Queues /\ queue[W] \in Seq(Keys) /\ stored[W] \in Seq(Keys)
      /\ wpc \in [Queues -> WorkerPcs] /\ wkey \in [Queues -> Keys] /\ wkey[W] \in Keys
      /\ queue \in [Queues -> Seq(Keys)] /\ stored \in [Queues -> Seq(Keys)]
      /\ accepted \subseteq Keys /\ mgrKey \in Keys
  BY Types
<1>c. wpc[W] \in {"hget", "store", "lpop"} => queue[W] # << >> /\ Head(queue[W]) = wkey[W]
  BY <1>b DEF Inv, NoIntegrityError
<1>1. CASE CheckShutdown(q) \/ PeekQueue(q) \/ DatastoreRefuses(q) \/ WorkerRefused(q)
  <2>1. wpc'[W] \notin {"lpop", "decrement", "delete"}
    BY <1>1, <1>b DEF CheckShutdown, PeekQueue, DatastoreRefuses, WorkerRefused, Goto
  <2> QED
    BY <1>1, <2>1, QuietStep DEF CheckShutdown, PeekQueue, DatastoreRefuses, WorkerRefused
<1>2. CASE FetchEvent(q)
  <2>1. wkey[W] \in payload
    BY <1>2, <1>b, <1>c, InTail DEF FetchEvent, Inv, HasData, InLine
  <2>2. wpc'[W] = "store"
    BY <1>2, <1>b, <2>1 DEF FetchEvent, Goto
  <2> QED
    BY <1>2, <2>2, QuietStep DEF FetchEvent
<1>3. CASE DatastoreStores(q) \/ DatastoreFails(q)
  <2>1. /\ wpc[W] = "store" /\ wpc'[W] \in {"lpop", "check", "dead"}
        /\ UNCHANGED <<payload, queue, mgr, mgrKey, pos, wkey, submitted, accepted>>
    BY <1>3, <1>b DEF DatastoreStores, DatastoreFails, Goto
  <2>2. \/ stored'[W] = stored[W] /\ wpc'[W] # "lpop"
        \/ stored'[W] = Append(stored[W], wkey[W])
    BY <1>3, <1>b DEF DatastoreStores, DatastoreFails, Goto
  <2>3. Fresh' /\ HasData'
    BY <2>1 DEF Inv, Fresh, HasData, Unseen, InLine
  <2>4. Taken'
    BY <2>1, <2>2, <1>b DEF Taken
  <2>5. \A j \in Keys : Delivered(j) => Delivered(j)'
    <3>1. ASSUME NEW j \in Keys
          PROVE  InList(Append(stored[W], wkey[W]), j) <=> InList(stored[W], j) \/ j = wkey[W]
      BY <1>b, InAppend
    <3> QED
      BY <2>2, <3>1 DEF Delivered
  <2>6. Kept'
    BY <2>1, <2>5, <1>b DEF Inv, Kept, InLine
  <2> QED
    BY <2>3, <2>4, <2>6 DEF Inv
<1>4. ASSUME NEW reply \in BOOLEAN, PopKey(q, reply) PROVE Inv'
  <2>1. /\ wpc[W] = "lpop" /\ wpc'[W] \in {"decrement", "dead"}
        /\ queue[W] # << >> /\ Head(queue[W]) = wkey[W]
        /\ queue'[W] = Tail(queue[W])
        /\ UNCHANGED <<payload, stored, mgr, mgrKey, pos, wkey, submitted, accepted>>
    BY <1>4, <1>b, <1>c DEF PopKey, Goto, GotoIfAnswered
  <2>2. \A j \in Keys : InLine(j) <=> j = wkey[W] \/ InLine(j)'
    BY <2>1, <1>b, InTail DEF InLine
  <2>3. NoRepeats(queue'[W]) /\ ~InLine(wkey[W])'
    BY <2>1, <1>b, OnceTail DEF Inv, HasData, InLine
  <2>4. Delivered(wkey[W])
    <3>1. stored[W] # << >> /\ stored[W][Len(stored[W])] = wkey[W]
      BY <2>1 DEF Inv, Taken
    <3>2. Len(stored[W]) \in DOMAIN stored[W]
      BY <3>1, <1>b
    <3> QED
      BY <3>1, <3>2 DEF Delivered, InList
  <2>5. Fresh'
    BY <2>1, <2>2, <1>b DEF Inv, Fresh, Unseen
  <2>6. HasData'
    <3>1. \A j \in Keys : InLine(j)' => j \in payload'
      BY <2>1, <2>2 DEF Inv, HasData
    <3> QED
      BY <2>1, <2>3, <3>1, <1>b DEF Inv, HasData, InLine
  <2>7. Taken'
    BY <2>1 DEF Taken
  <2>8. \A j \in Keys : Delivered(j)' <=> Delivered(j)
    BY <2>1 DEF Delivered
  <2>9. Kept'
    BY <2>1, <2>2, <2>4, <2>8, <1>b DEF Inv, Kept
  <2> QED
    BY <2>5, <2>6, <2>7, <2>9 DEF Inv
<1>5. ASSUME NEW reply \in BOOLEAN, DecrementCount(q, reply) PROVE Inv'
  <2>1. wpc[W] = "decrement" /\ wpc'[W] \in {"delete", "check", "dead"}
    BY <1>5, <1>b DEF DecrementCount, Goto, GotoIfAnswered
  <2> QED
    BY <1>5, <2>1, QuietStep DEF DecrementCount
<1>6. ASSUME NEW reply \in BOOLEAN, DeleteEvent(q, reply) PROVE Inv'
  <2>1. /\ wpc[W] = "delete" /\ wpc'[W] \in {"check", "dead"}
        /\ payload' = payload \ {wkey[W]}
        /\ UNCHANGED <<queue, stored, mgr, mgrKey, pos, wkey, submitted, accepted>>
    BY <1>6, <1>b DEF DeleteEvent, Goto, GotoIfAnswered
  <2>2. /\ \A j : InLine(j)' <=> InLine(j)
        /\ \A j : Delivered(j)' <=> Delivered(j)
    BY <2>1 DEF InLine, Delivered
  <2>3. Fresh'
    BY <2>1, <2>2 DEF Inv, Fresh, Unseen
  <2>4. mgr = "rpush" => mgrKey # wkey[W]
    BY <2>1 DEF Inv, Fresh, Unseen
  <2>5. HasData' /\ Taken' /\ Kept'
    BY <2>1, <2>2, <2>4 DEF Inv, HasData, Taken, Kept
  <2> QED
    BY <2>3, <2>5 DEF Inv
<1> QED
  BY <1>1, <1>2, <1>3, <1>4, <1>5, <1>6 DEF Worker, Removal

LEMMA InvNext == OneDatastore /\ Inv /\ [Next]_vars => Inv'
<1> SUFFICES ASSUME OneDatastore, Inv, [Next]_vars PROVE Inv'
  OBVIOUS
<1>1. TypeOK' /\ NoIntegrityError'
  BY TypeNext, HeadNext DEF Inv
<1>2. CASE UNCHANGED vars
  BY <1>1, <1>2, QuietStep DEF vars, redis, main, threads, calls, bounds
<1> QED
  BY <1>1, <1>2, ManagerKeepsInv, WorkerKeepsInv DEF Next, Manager

----------------------------------------------------------------------------
(* What follows.                                                             *)

\* With one datastore and distinct events, an event that store_event has
\* accepted is in the queue or in the datastore, for good.
THEOREM AcceptedIsKept == OneDatastore => (Spec => []NothingLost)
<1> SUFFICES ASSUME OneDatastore PROVE Spec => []NothingLost
  OBVIOUS
<1>1. Inv => NothingLost
  BY DEF Inv, Kept, NothingLost, InLine, Delivered, InList, OneDatastore, W
<1>2. Init => Inv
  BY InvInit
<1>3. Inv /\ [Next]_vars => Inv'
  BY InvNext
<1> QED
  BY <1>1, <1>2, <1>3, PTL DEF Spec

\* Every step of the manager and the worker is a step of the outbox or leaves
\* it alone.
LEMMA OutboxStep ==
  OneDatastore /\ Inv /\ [Next]_vars => [Box!Next]_<<queue[W], stored[W]>>
<1> SUFFICES ASSUME OneDatastore, Inv, [Next]_vars,
                    ~ UNCHANGED <<queue[W], stored[W]>>
             PROVE  Box!Next
  OBVIOUS
<1> USE DEF redis, main, threads, calls, bounds, W
<1>b. /\ W \in Queues /\ \A q \in Queues : q = W
      /\ queue[W] \in Seq(Keys) /\ stored[W] \in Seq(Keys) /\ mgrKey \in Keys
      /\ queue \in [Queues -> Seq(Keys)] /\ stored \in [Queues -> Seq(Keys)]
  BY Types
<1>c. wpc[W] \in {"hget", "store", "lpop"} => queue[W] # << >> /\ Head(queue[W]) = wkey[W]
  BY <1>b DEF Inv, NoIntegrityError
<1>1. ASSUME NEW reply \in BOOLEAN, PushKey(reply) PROVE Box!Next
  <2>1. queue'[W] = Append(queue[W], mgrKey) /\ stored' = stored
    BY <1>1, <1>b DEF PushKey, OneDatastore, Inv, TypeOK
  <2> QED
    BY <2>1, <1>b DEF Box!Next, Box!Accept
<1>2. ASSUME NEW q \in Queues, DatastoreStores(q) \/ DatastoreFails(q) PROVE Box!Next
  <2>1. /\ wpc[W] = "store" /\ queue' = queue
        /\ stored'[W] = Append(stored[W], wkey[W])
    BY <1>2, <1>b DEF DatastoreStores, DatastoreFails
  <2> QED
    BY <2>1, <1>c DEF Box!Next, Box!Deliver
<1>3. ASSUME NEW q \in Queues, NEW reply \in BOOLEAN, PopKey(q, reply) PROVE Box!Next
  <2>1. /\ wpc[W] = "lpop" /\ stored' = stored
        /\ queue'[W] = IF queue[W] = << >> THEN queue[W] ELSE Tail(queue[W])
    BY <1>3, <1>b DEF PopKey
  <2> QED
    BY <2>1, <1>c DEF Box!Next, Box!Acknowledge, Inv, Taken
<1>4. CASE queue' = queue /\ stored' = stored
  BY <1>4
<1> QED
  BY <1>1, <1>2, <1>3, <1>4
     DEF Next, Manager, Command, Worker, Removal, vars, Start, AddDatastore, StoreEvent,
         WritePayload, IncrementCount, ManagerRefused, Interrupt, JoinWorker, Exit, Crash,
         CheckShutdown, PeekQueue, FetchEvent, DatastoreRefuses, WorkerRefused,
         DecrementCount, DeleteEvent

\* With one datastore and distinct events, StorageManager, StorageWorker and
\* redis together implement the outbox.
THEOREM Refinement == OneDatastore => (Spec => ImplementsOutbox)
<1> SUFFICES ASSUME OneDatastore PROVE Spec => ImplementsOutbox
  OBVIOUS
<1>1. Init => Box!Init
  BY DEF Init, Box!Init, OneDatastore
<1>2. Init => Inv
  BY InvInit
<1>3. Inv /\ [Next]_vars => Inv'
  BY InvNext
<1>4. Inv /\ [Next]_vars => [Box!Next]_<<queue[Workers[1]], stored[Workers[1]]>>
  BY OutboxStep DEF W
<1> QED
  BY <1>1, <1>2, <1>3, <1>4, PTL DEF Spec, ImplementsOutbox, Box!Spec

----------------------------------------------------------------------------
(* The upload counter of an event, for any number of datastores: as long as  *)
(* its counting was not disturbed it covers every queue that holds the       *)
(* event, through crashes, interrupts, redis errors and refused uploads.     *)
(* And what the datastores receive: no event without its data unless the     *)
(* counting was disturbed, and none again but for a crash or a fault.        *)

Occurs(s, k) == \E n \in DOMAIN s : s[n] = k

Once(s, k) == \A m, n \in DOMAIN s : s[m] = k /\ s[n] = k => m = n

\* A queue still counts for a key until its worker has decremented the counter.
Holds(q, k) == Occurs(queue[q], k) \/ (wpc[q] = "decrement" /\ wkey[q] = k)

Holders(k) == {i \in 1..Len(Workers) : Holds(Workers[i], k)}

Counting(k) == mgr \in {"rpush", "hincrby"} /\ mgrKey = k

\* The positions the loop of store_event has pushed to.
Pushed == IF mgr = "rpush" THEN 1..(pos - 1) ELSE 1..pos

Deleting(k) == \E q \in Queues : wpc[q] = "delete" /\ wkey[q] = k

Faultless == crashes = 0 /\ stops = 0 /\ faults = 0

\* Only the queues of workers are ever used, a process starts with none of them
\* running, and nothing closes by itself.
OwnersInv ==
  /\ \A q \in Queues :
       queue[q] # << >> \/ wpc[q] # "off" => \E i \in 1..Len(Workers) : Workers[i] = q
  /\ mgr = "down" => \A q \in Queues : wpc[q] = "off"
  /\ mgr = "adding" => \A i \in pos..Len(Workers) : wpc[Workers[i]] = "off"
  /\ mgr = "hmset" => pos = 1
  /\ mgr = "joining" => ~Faultless

\* A key is in a queue once, and no more when its worker has popped it.
OnceInv(k) ==
  \A q \in Queues :
    /\ Once(queue[q], k)
    /\ wpc[q] \in {"decrement", "delete"} /\ wkey[q] = k => ~Occurs(queue[q], k)

\* The counter is at least the number of queues that hold the key, and exactly
\* that if nothing fails; while store_event counts, it is what was counted.
CountInv(k) ==
  /\ Counting(k) =>
       /\ count[k] = pos - 1
       /\ Holders(k) \subseteq Pushed /\ (Faultless => Holders(k) = Pushed)
  /\ ~Counting(k) =>
       /\ Cardinality(Holders(k)) <= count[k]
       /\ Faultless => Cardinality(Holders(k)) = count[k]

\* The data go when the last queue has let go of the key, and not before.
DataInv(k) ==
  /\ Counting(k) \/ Holders(k) # {} => k \in payload /\ ~Deleting(k)
  /\ Faultless /\ k \in accepted /\ ~Counting(k) /\ Holders(k) = {} /\ ~Deleting(k)
       => k \notin payload

CounterInv ==
  OwnersInv /\ \A k \in Keys \ uncounted : OnceInv(k) /\ CountInv(k) /\ DataInv(k)

\* What a worker is about to pop is stored, or went wrong.
DroppedInv ==
  \A q \in Queues :
    wpc[q] = "lpop" => Occurs(stored[q], wkey[q]) \/ wkey[q] \in uncounted

----------------------------------------------------------------------------
(* Sequences.                                                              *)

LEMMA OccursAppend ==
  ASSUME NEW s \in Seq(Keys), NEW x \in Keys, NEW k
  PROVE  /\ Occurs(Append(s, x), k) <=> Occurs(s, k) \/ x = k
         /\ Once(s, k) /\ ~(x = k /\ Occurs(s, k)) => Once(Append(s, x), k)
<1>1. /\ DOMAIN s = 1..Len(s) /\ Len(s) \in Nat
      /\ DOMAIN Append(s, x) = 1..(Len(s) + 1)
      /\ Append(s, x)[Len(s) + 1] = x
      /\ \A i \in 1..Len(s) : Append(s, x)[i] = s[i]
  OBVIOUS
<1> DEFINE t == Append(s, x)
<1> HIDE DEF t
<1>2. Occurs(t, k) <=> Occurs(s, k) \/ x = k
  BY <1>1 DEF Occurs, t
<1>3. Once(s, k) /\ ~(x = k /\ Occurs(s, k)) => Once(t, k)
  BY <1>1 DEF Occurs, Once, t
<1> QED
  BY <1>2, <1>3 DEF t

LEMMA OccursTail ==
  ASSUME NEW s \in Seq(Keys), s # << >>, NEW k
  PROVE  /\ Head(s) # k => (Occurs(Tail(s), k) <=> Occurs(s, k))
         /\ Once(s, k) /\ Head(s) = k => ~Occurs(Tail(s), k)
         /\ Once(s, k) => Once(Tail(s), k)
<1> DEFINE t == Tail(s)
<1>1. /\ DOMAIN s = 1..Len(s) /\ Len(s) \in Nat \ {0} /\ Head(s) = s[1]
      /\ DOMAIN t = 1..(Len(s) - 1)
      /\ \A i \in 1..(Len(s) - 1) : t[i] = s[i + 1]
  OBVIOUS
<1> HIDE DEF t
<1>2. ASSUME Head(s) # k, Occurs(s, k) PROVE Occurs(t, k)
  <2>1. PICK n \in 1..Len(s) : s[n] = k
    BY <1>1, <1>2 DEF Occurs
  <2>2. n - 1 \in 1..(Len(s) - 1) /\ t[n - 1] = k
    BY <1>1, <1>2, <2>1
  <2> QED
    BY <1>1, <2>2 DEF Occurs
<1>3. ASSUME Occurs(t, k) PROVE \E n \in 2..Len(s) : s[n] = k
  <2>1. PICK n \in 1..(Len(s) - 1) : t[n] = k
    BY <1>1, <1>3 DEF Occurs
  <2>2. n + 1 \in 2..Len(s) /\ s[n + 1] = k
    BY <1>1, <2>1
  <2> QED
    BY <2>2
<1>4. Occurs(t, k) => Occurs(s, k)
  BY <1>1, <1>3 DEF Occurs
<1>5. Once(s, k) /\ Head(s) = k => ~Occurs(t, k)
  BY <1>1, <1>3 DEF Once
<1>6. ASSUME Once(s, k) PROVE Once(t, k)
  <2> SUFFICES ASSUME NEW m \in DOMAIN t, NEW n \in DOMAIN t, t[m] = k, t[n] = k
               PROVE  m = n
    BY DEF Once
  <2>1. m + 1 \in DOMAIN s /\ n + 1 \in DOMAIN s /\ s[m + 1] = k /\ s[n + 1] = k
    BY <1>1
  <2>2. m + 1 = n + 1
    BY <1>6, <2>1 DEF Once
  <2> QED
    BY <1>1, <2>2
<1> QED
  BY <1>2, <1>4, <1>5, <1>6 DEF t

----------------------------------------------------------------------------
(* The queues that hold a key.                                             *)

LEMMA HoldersFinite ==
  ASSUME NEW k
  PROVE  /\ Holders(k) \subseteq 1..Len(Workers) /\ IsFiniteSet(Holders(k))
         /\ Cardinality(Holders(k)) \in Nat
         /\ Cardinality(Holders(k)) = 0 <=> Holders(k) = {}
<1>1. Len(Workers) \in Nat
  BY WorkersAssumption
<1>2. IsFiniteSet(1..Len(Workers))
  BY <1>1, FS_Interval
<1>3. Holders(k) \subseteq 1..Len(Workers)
  BY DEF Holders
<1>4. IsFiniteSet(Holders(k))
  BY <1>2, <1>3, FS_Subset
<1> QED
  BY <1>3, <1>4, FS_CardinalityType, FS_EmptySet

\* Part of an interval.
LEMMA PartOfInterval ==
  ASSUME NEW n \in Nat, NEW S, S \subseteq 1..n
  PROVE  Cardinality(S) <= n /\ (S = 1..n => Cardinality(S) = n)
<1>1. IsFiniteSet(1..n) /\ Cardinality(1..n) = n
  BY FS_Interval
<1> QED
  BY <1>1, FS_Subset

\* What a step leaves alone that has nothing to do with the counter of k.
Aside(k) ==
  /\ count'[k] = count[k] /\ (k \in payload' <=> k \in payload)
  /\ Counting(k)' <=> Counting(k)
  /\ Counting(k) => mgr' = mgr /\ pos' = pos
  /\ k \in accepted' => k \in accepted

\* A step that moves nothing, or loses a worker to a fault, keeps the counter.
LEMMA Carried ==
  ASSUME NEW k \in Keys, TypeOK, CountInv(k), DataInv(k), Aside(k),
         \/ /\ Holders(k)' = Holders(k) /\ (Deleting(k)' <=> Deleting(k))
            /\ Faultless' => Faultless
         \/ /\ Holders(k)' \subseteq Holders(k) /\ (Deleting(k)' => Deleting(k))
            /\ ~Faultless'
  PROVE  CountInv(k)' /\ DataInv(k)'
<1>1. /\ Holders(k)' \subseteq Holders(k) /\ (Deleting(k)' => Deleting(k))
      /\ Faultless' => Faultless /\ Holders(k)' = Holders(k) /\ (Deleting(k)' <=> Deleting(k))
  OBVIOUS
<1>2. /\ Cardinality(Holders(k)') <= Cardinality(Holders(k))
      /\ Cardinality(Holders(k)') \in Nat /\ Cardinality(Holders(k)) \in Nat
  BY <1>1, HoldersFinite, FS_Subset, FS_CardinalityType
<1>3. Counting(k) => Pushed' = Pushed
  BY DEF Aside, Pushed
<1>4. count[k] \in Int
  BY DEF TypeOK
<1>5. CountInv(k)'
  <2>1. CASE Counting(k)
    BY <1>1, <1>3, <2>1 DEF CountInv, Aside
  <2>2. CASE ~Counting(k)
    BY <1>1, <1>2, <1>4, <2>2 DEF CountInv, Aside
  <2> QED
    BY <2>1, <2>2
<1>6. DataInv(k)'
  BY <1>1 DEF DataInv, Aside
<1> QED
  BY <1>5, <1>6

----------------------------------------------------------------------------
(* Which queues are in use.                                                *)

LEMMA OwnersInit == Init => OwnersInv
  BY DEF Init, OwnersInv

LEMMA UncountedGrows == Next => uncounted \subseteq uncounted'
  BY DEF Next, Manager, Command, Worker, Removal, Start, AddDatastore, StoreEvent,
     WritePayload, PushKey, IncrementCount, ManagerRefused, Interrupt, JoinWorker, Exit,
     Crash, CheckShutdown, PeekQueue, FetchEvent, DatastoreStores, DatastoreRefuses,
     DatastoreFails, PopKey, DecrementCount, DeleteEvent, WorkerRefused

\* Faults are not forgotten.
LEMMA FaultsStay ==
  ASSUME TypeOK, Next
  PROVE  Faultless' => Faultless
<1>1. crashes \in Nat /\ stops \in Nat /\ faults \in Nat
  BY BoundsAssumption DEF TypeOK
<1>2. crashes' \in {crashes, crashes + 1} /\ stops' \in {stops, stops + 1}
      /\ faults' \in {faults, faults + 1}
  BY DEF Next, Manager, Command, Worker, Removal, Start, AddDatastore, StoreEvent,
     WritePayload, PushKey, IncrementCount, ManagerRefused, Interrupt, JoinWorker, Exit,
     Crash, CheckShutdown, PeekQueue, FetchEvent, DatastoreStores, DatastoreRefuses,
     DatastoreFails, PopKey, DecrementCount, DeleteEvent, WorkerRefused, Answered, bounds
<1> QED
  BY <1>1, <1>2 DEF Faultless

\* A command without an answer is a fault.
LEMMA UnansweredIsFault ==
  ASSUME TypeOK, NEW reply \in BOOLEAN, Answered(reply), Faultless'
  PROVE  reply = TRUE
  BY BoundsAssumption DEF Answered, Faultless, TypeOK

\* The steps of the worker of one queue.
LEMMA WorkerStep ==
  ASSUME NEW q \in Queues, TypeOK,
         Worker(q) \/ DatastoreFails(q) \/ WorkerRefused(q)
  PROVE  /\ UNCHANGED main /\ wpc[q] \notin {"off", "stopped", "dead"}
         /\ \A p \in Queues \ {q} : wpc'[p] = wpc[p] /\ wkey'[p] = wkey[p] /\ queue'[p] = queue[p]
         /\ \A p \in Queues : queue[p] = << >> => queue'[p] = << >>
  BY DEF Worker, Removal, CheckShutdown, PeekQueue, FetchEvent, DatastoreStores,
     DatastoreRefuses, DatastoreFails, PopKey, DecrementCount, DeleteEvent, WorkerRefused,
     Goto, GotoIfAnswered, TypeOK, redis, main

LEMMA OwnersNext == TypeOK /\ OwnersInv /\ [Next]_vars => OwnersInv'
<1> SUFFICES ASSUME TypeOK, OwnersInv, [Next]_vars PROVE OwnersInv'
  OBVIOUS
<1> USE DEF OwnersInv
<1>0. /\ Len(Workers) \in Nat /\ \A i \in 1..Len(Workers) : Workers[i] \in Queues
      /\ \A i, j \in 1..Len(Workers) : Workers[i] = Workers[j] => i = j
  BY WorkersAssumption
<1>a. /\ wpc \in [Queues -> WorkerPcs] /\ queue \in [Queues -> Seq(Keys)]
      /\ pos \in 1..Len(Workers) + 1
      /\ mgr \in {"adding", "hmset", "rpush", "hincrby"} => pos <= Len(Workers)
  BY DEF TypeOK
<1>1. CASE Start
  BY <1>0, <1>1 DEF Start, redis, threads, bounds, Faultless
<1>2. CASE AddDatastore
  <2>1. /\ mgr = "adding" /\ queue' = queue /\ pos' = pos + 1
        /\ wpc' = [wpc EXCEPT ![Workers[pos]] = "check"] /\ mgr' \in {"idle", "adding"}
    BY <1>2 DEF AddDatastore, redis
  <2>2. \A i \in pos'..Len(Workers) : wpc'[Workers[i]] = "off"
    BY <1>0, <1>a, <2>1
  <2>3. \A q \in Queues : wpc'[q] # "off" => \E i \in 1..Len(Workers) : Workers[i] = q
    BY <1>0, <1>a, <2>1
  <2> QED
    BY <2>1, <2>2, <2>3
<1>3. ASSUME NEW k \in Keys, StoreEvent(k) PROVE OwnersInv'
  BY <1>3 DEF StoreEvent, redis, threads, bounds, Faultless
<1>4. ASSUME NEW reply \in BOOLEAN,
             WritePayload(reply) \/ PushKey(reply) \/ IncrementCount(reply)
      PROVE  OwnersInv'
  <2>1. /\ mgr' \in {"idle", "joining", "rpush", "hincrby"} /\ wpc' = wpc
        /\ mgr' = "joining" => ~reply
    BY <1>4 DEF WritePayload, PushKey, IncrementCount, StoreEventRaises, threads
  <2>2. mgr' = "joining" => ~Faultless'
    <3>1. Answered(reply)
      BY <1>4 DEF WritePayload, PushKey, IncrementCount
    <3> QED
      BY <2>1, <3>1, UnansweredIsFault
  <2>3. \A q \in Queues : queue'[q] = queue[q] \/ \E i \in 1..Len(Workers) : Workers[i] = q
    <3>1. queue' = queue \/ (pos <= Len(Workers)
                             /\ queue' = [queue EXCEPT ![Workers[pos]] = Append(@, mgrKey)])
      BY <1>4, <1>a DEF WritePayload, PushKey, IncrementCount
    <3> QED
      BY <1>0, <1>a, <3>1
  <2> QED
    BY <2>1, <2>2, <2>3
<1>5. CASE ManagerRefused
  <2>1. ~Faultless'
    BY <1>5, UnansweredIsFault DEF ManagerRefused
  <2> QED
    BY <1>5, <2>1 DEF ManagerRefused, StoreEventRaises, redis, threads
<1>6. CASE Interrupt
  <2>1. stops' # 0
    BY <1>6, BoundsAssumption DEF Interrupt, TypeOK
  <2> QED
    BY <1>6, <2>1 DEF Interrupt, redis, threads, Faultless
<1>7. CASE JoinWorker
  BY <1>7 DEF JoinWorker, redis, threads, bounds, Faultless
<1>8. CASE Exit \/ Crash
  BY <1>8 DEF Exit, Crash, redis
<1>9. ASSUME NEW q \in Queues, Worker(q) \/ DatastoreFails(q) \/ WorkerRefused(q)
      PROVE  OwnersInv'
  <2>1. Next
    BY <1>9 DEF Next
  <2>2. PICK i \in 1..Len(Workers) : Workers[i] = q
    BY <1>9, WorkerStep
  <2>3. mgr = "down" => FALSE
    BY <1>9, WorkerStep
  <2>4. /\ UNCHANGED <<mgr, pos>> /\ wpc[q] # "off"
        /\ \A p \in Queues \ {q} : wpc'[p] = wpc[p] /\ queue'[p] = queue[p]
    BY <1>9, WorkerStep DEF main
  <2>5. mgr = "adding" => \A j \in pos..Len(Workers) : wpc'[Workers[j]] = "off"
    BY <1>0, <1>a, <2>4
  <2>6. \A p \in Queues : queue'[p] # << >> \/ wpc'[p] # "off" =>
          \E j \in 1..Len(Workers) : Workers[j] = p
    BY <2>2, <2>4
  <2>7. mgr = "joining" => ~Faultless'
    BY <2>1, FaultsStay
  <2> QED
    BY <2>3, <2>4, <2>5, <2>6, <2>7
<1>10. CASE UNCHANGED vars
  BY <1>10 DEF vars, redis, main, threads, bounds, Faultless
<1> QED
  BY <1>1, <1>2, <1>3, <1>4, <1>5, <1>6, <1>7, <1>8, <1>9, <1>10
     DEF Next, Manager, Command

----------------------------------------------------------------------------
(* The counter of one key, step by step.                                   *)

KeyInv(k) == OnceInv(k) /\ CountInv(k) /\ DataInv(k)

\* A step that concerns neither the counting nor any holder of k.
LEMMA Untouched ==
  ASSUME NEW k \in Keys, TypeOK, KeyInv(k), Aside(k), Faultless' => Faultless,
         \A q \in Queues :
           /\ Occurs(queue'[q], k) <=> Occurs(queue[q], k)
           /\ Once(queue[q], k) => Once(queue'[q], k)
           /\ wpc'[q] = "decrement" /\ wkey'[q] = k <=> wpc[q] = "decrement" /\ wkey[q] = k
           /\ wpc'[q] = "delete" /\ wkey'[q] = k <=> wpc[q] = "delete" /\ wkey[q] = k
  PROVE  KeyInv(k)'
<1>1. \A i \in 1..Len(Workers) : Holds(Workers[i], k)' <=> Holds(Workers[i], k)
  BY WorkerQueue DEF Holds
<1>2. Holders(k)' = Holders(k)
  BY <1>1 DEF Holders
<1>3. Deleting(k)' <=> Deleting(k)
  BY DEF Deleting
<1>4. OnceInv(k)'
  BY DEF KeyInv, OnceInv
<1> QED
  BY <1>2, <1>3, <1>4, Carried DEF KeyInv

\* A step after which some workers are gone, or have let go of a key without
\* counting.
LEMMA LetGo ==
  ASSUME NEW k \in Keys, TypeOK, KeyInv(k), Aside(k), ~Faultless', queue' = queue,
         \A q \in Queues :
           wpc'[q] \in {"decrement", "delete"} => wpc'[q] = wpc[q] /\ wkey'[q] = wkey[q]
  PROVE  KeyInv(k)'
<1>1. \A i \in 1..Len(Workers) : Holds(Workers[i], k)' => Holds(Workers[i], k)
  BY WorkerQueue DEF Holds
<1>2. Holders(k)' \subseteq Holders(k)
  BY <1>1 DEF Holders
<1>3. Deleting(k)' => Deleting(k)
  BY DEF Deleting
<1>4. OnceInv(k)'
  BY DEF KeyInv, OnceInv
<1> QED
  BY <1>2, <1>3, <1>4, Carried DEF KeyInv

\* hmset: nothing holds the key, or it would have become uncounted.
LEMMA KeyWritten ==
  ASSUME NEW k \in Keys, TypeOK, OwnersInv, KeyInv(k),
         NEW reply \in BOOLEAN, WritePayload(reply), mgrKey = k, k \notin uncounted'
  PROVE  KeyInv(k)'
<1>1. /\ reply = TRUE /\ ~Queued(k) /\ ~Removing(k)
      /\ payload' = payload \cup {k} /\ count' = [count EXCEPT ![k] = 0]
      /\ mgr' = "rpush" /\ pos' = 1 /\ mgrKey' = k
      /\ queue' = queue /\ wpc' = wpc /\ wkey' = wkey
  BY DEF WritePayload, OwnersInv, threads
<1>2. \A q \in Queues : ~Occurs(queue[q], k) /\ ~(wpc[q] \in {"decrement", "delete"} /\ wkey[q] = k)
  BY <1>1 DEF Queued, Removing, Occurs
<1>3. Holders(k)' = {} /\ ~Deleting(k)'
  BY <1>1, <1>2, WorkerQueue DEF Holders, Holds, Deleting
<1>4. Counting(k)' /\ Pushed' = {}
  BY <1>1 DEF Counting, Pushed
<1>5. OnceInv(k)'
  BY <1>1 DEF KeyInv, OnceInv
<1>6. count'[k] = 0
  BY <1>1 DEF TypeOK
<1>7. CountInv(k)'
  BY <1>1, <1>3, <1>4, <1>6 DEF CountInv
<1>8. DataInv(k)'
  BY <1>1, <1>3, <1>4 DEF DataInv
<1> QED
  BY <1>5, <1>7, <1>8 DEF KeyInv

\* rpush: the queue at this turn of the loop becomes a holder.
LEMMA KeyPushed ==
  ASSUME NEW k \in Keys, TypeOK, OwnersInv, KeyInv(k), Faultless' => Faultless,
         NEW reply \in BOOLEAN, PushKey(reply), mgrKey = k, k \notin uncounted'
  PROVE  KeyInv(k)'
<1>1. /\ reply = TRUE /\ mgr = "rpush" /\ mgr' = "hincrby"
      /\ queue' = [queue EXCEPT ![Workers[pos]] = Append(@, k)]
      /\ UNCHANGED <<payload, count, wpc, wkey, mgrKey, pos, accepted>>
  BY DEF PushKey, threads, calls
<1>2. /\ pos \in 1..Len(Workers) /\ Workers[pos] \in Queues
      /\ \A i, j \in 1..Len(Workers) : Workers[i] = Workers[j] => i = j
      /\ queue \in [Queues -> Seq(Keys)] /\ wpc \in [Queues -> WorkerPcs]
  <2>1. pos \in 1..Len(Workers) + 1 /\ pos <= Len(Workers) /\ Len(Workers) \in Nat
    BY <1>1, WorkersAssumption DEF TypeOK
  <2>2. /\ \A i \in 1..Len(Workers) : Workers[i] \in Queues
        /\ \A i, j \in 1..Len(Workers) : Workers[i] = Workers[j] => i = j
    BY WorkersAssumption
  <2>3. queue \in [Queues -> Seq(Keys)] /\ wpc \in [Queues -> WorkerPcs]
    BY DEF TypeOK
  <2>4. pos \in 1..Len(Workers)
    BY <2>1
  <2> QED
    BY <2>2, <2>3, <2>4
<1>3. Counting(k) /\ Counting(k)' /\ Pushed = 1..(pos - 1) /\ Pushed' = 1..pos
  BY <1>1 DEF Counting, Pushed
<1>4. Holders(k) \subseteq 1..(pos - 1) /\ ~Deleting(k) /\ k \in payload
  BY <1>3 DEF KeyInv, CountInv, DataInv
<1>5. ~Holds(Workers[pos], k)
  BY <1>2, <1>4 DEF Holders
<1>6. /\ Occurs(queue'[Workers[pos]], k) /\ Once(queue'[Workers[pos]], k)
      /\ ~(wpc[Workers[pos]] \in {"decrement", "delete"} /\ wkey[Workers[pos]] = k)
  <2>1. ~Occurs(queue[Workers[pos]], k) /\ Once(queue[Workers[pos]], k)
    BY <1>2, <1>5 DEF Holds, KeyInv, OnceInv
  <2>2. queue'[Workers[pos]] = Append(queue[Workers[pos]], k)
    BY <1>1, <1>2
  <2> QED
    BY <1>2, <1>4, <1>5, <2>1, <2>2, OccursAppend DEF Holds, Deleting
<1>7. \A q \in Queues \ {Workers[pos]} : queue'[q] = queue[q]
  BY <1>1, <1>2
<1>8. \A i \in 1..Len(Workers) : Holds(Workers[i], k)' <=> Holds(Workers[i], k) \/ i = pos
  BY <1>1, <1>2, <1>6, <1>7, WorkerQueue DEF Holds
<1>9. Holders(k)' = Holders(k) \cup {pos} /\ ~Deleting(k)'
  BY <1>1, <1>2, <1>4, <1>8 DEF Holders, Deleting
<1>10. OnceInv(k)'
  BY <1>1, <1>6, <1>7 DEF KeyInv, OnceInv
<1>11. CountInv(k)'
  BY <1>1, <1>2, <1>3, <1>9 DEF KeyInv, CountInv
<1>12. DataInv(k)'
  BY <1>1, <1>3, <1>4, <1>9 DEF DataInv
<1> QED
  BY <1>10, <1>11, <1>12 DEF KeyInv

\* hincrby: what was pushed is counted.
LEMMA KeyCounted ==
  ASSUME NEW k \in Keys, TypeOK, OwnersInv, KeyInv(k), Faultless' => Faultless,
         NEW reply \in BOOLEAN, IncrementCount(reply), mgrKey = k, k \notin uncounted'
  PROVE  KeyInv(k)'
<1>1. /\ reply = TRUE /\ mgr = "hincrby" /\ count' = [count EXCEPT ![k] = @ + 1]
      /\ UNCHANGED <<payload, queue, wpc, wkey, mgrKey>>
      /\ \/ mgr' = "idle" /\ pos = Len(Workers) /\ pos' = pos
         \/ mgr' = "rpush" /\ pos' = pos + 1
  BY DEF IncrementCount, threads
<1>2. pos \in 1..Len(Workers) /\ Len(Workers) \in Nat
  BY <1>1, WorkersAssumption DEF TypeOK
<1>3. Counting(k) /\ Pushed = 1..pos
  BY <1>1 DEF Counting, Pushed
<1>4. /\ Holders(k) \subseteq 1..pos /\ (Faultless => Holders(k) = 1..pos)
      /\ ~Deleting(k) /\ k \in payload /\ count[k] = pos - 1
  BY <1>3 DEF KeyInv, CountInv, DataInv
<1>5. Holders(k)' = Holders(k) /\ (Deleting(k)' <=> Deleting(k))
  BY <1>1 DEF Holders, Holds, Deleting
<1>6. count'[k] = pos
  BY <1>1, <1>2, <1>4 DEF TypeOK
<1>7. OnceInv(k)'
  BY <1>1 DEF KeyInv, OnceInv
<1>8. CASE mgr' = "idle"
  <2>1. ~Counting(k)'
    BY <1>8 DEF Counting
  <2>2. Cardinality(Holders(k)) <= pos /\ (Faultless => Cardinality(Holders(k)) = pos)
    BY <1>2, <1>4, PartOfInterval
  <2>3. CountInv(k)'
    BY <1>5, <1>6, <2>1, <2>2 DEF CountInv
  <2>4. Faultless => Holders(k) # {}
    BY <1>2, <1>4
  <2>5. DataInv(k)'
    BY <1>1, <1>4, <1>5, <2>1, <2>4 DEF DataInv
  <2> QED
    BY <1>7, <2>3, <2>5 DEF KeyInv
<1>9. CASE mgr' = "rpush" /\ pos' = pos + 1
  <2>1. Counting(k)' /\ Pushed' = 1..pos
    BY <1>1, <1>2, <1>9 DEF Counting, Pushed
  <2>2. CountInv(k)'
    BY <1>2, <1>4, <1>5, <1>6, <1>9, <2>1 DEF CountInv
  <2>3. DataInv(k)'
    BY <1>1, <1>4, <1>5, <2>1 DEF DataInv
  <2> QED
    BY <1>7, <2>2, <2>3 DEF KeyInv
<1> QED
  BY <1>1, <1>8, <1>9

\* lpop: a queue whose worker has popped the key still counts; it lets go
\* without counting if the answer was lost.
LEMMA KeyPopped ==
  ASSUME NEW k \in Keys, TypeOK, OwnersInv, NoIntegrityError, KeyInv(k), Faultless' => Faultless,
         NEW q \in Queues, NEW reply \in BOOLEAN, PopKey(q, reply), wkey[q] = k
  PROVE  KeyInv(k)'
<1>1. /\ wpc[q] = "lpop" /\ queue[q] # << >> /\ Head(queue[q]) = k
      /\ queue' = [queue EXCEPT ![q] = Tail(@)]
      /\ wpc' = [wpc EXCEPT ![q] = IF reply THEN "decrement" ELSE "dead"]
      /\ UNCHANGED <<payload, count, wkey, mgr, mgrKey, pos, accepted>>
  BY DEF PopKey, GotoIfAnswered, Goto, NoIntegrityError, main, calls
<1>2. queue \in [Queues -> Seq(Keys)] /\ wpc \in [Queues -> WorkerPcs]
  BY DEF TypeOK
<1>3. /\ queue'[q] = Tail(queue[q]) /\ \A p \in Queues \ {q} : queue'[p] = queue[p]
      /\ wpc'[q] = (IF reply THEN "decrement" ELSE "dead")
      /\ \A p \in Queues \ {q} : wpc'[p] = wpc[p]
  BY <1>1, <1>2
<1>4. Once(queue[q], k) /\ Occurs(queue[q], k)
  <2>1. 1 \in DOMAIN queue[q] /\ queue[q][1] = k
    BY <1>1, <1>2
  <2> QED
    BY <2>1 DEF KeyInv, OnceInv, Occurs
<1>5. ~Occurs(queue'[q], k) /\ Once(queue'[q], k)
  BY <1>1, <1>2, <1>3, <1>4, OccursTail
<1>6. OnceInv(k)'
  BY <1>1, <1>3, <1>5 DEF KeyInv, OnceInv
<1>7. Deleting(k)' <=> Deleting(k)
  BY <1>1, <1>3 DEF Deleting
<1>8. Aside(k)
  BY <1>1 DEF Aside, Counting
<1>9. CASE reply
  <2>1. \A p \in Queues : Holds(p, k)' <=> Holds(p, k)
    BY <1>1, <1>3, <1>4, <1>5, <1>9 DEF Holds
  <2>2. Holders(k)' = Holders(k)
    BY <2>1, WorkerQueue DEF Holders
  <2> QED
    BY <1>6, <1>7, <1>8, <2>2, Carried DEF KeyInv
<1>10. CASE ~reply
  <2>1. \A p \in Queues : Holds(p, k)' => Holds(p, k)
    BY <1>1, <1>3, <1>4, <1>5, <1>10 DEF Holds
  <2>2. Holders(k)' \subseteq Holders(k)
    BY <2>1, WorkerQueue DEF Holders
  <2>3. ~Faultless'
    BY <1>10, UnansweredIsFault DEF PopKey
  <2> QED
    BY <1>6, <1>7, <1>8, <2>2, <2>3, Carried DEF KeyInv
<1> QED
  BY <1>9, <1>10

\* hincrby -1: one holder less, and the last one goes on to delete.
LEMMA KeyReleased ==
  ASSUME NEW k \in Keys, TypeOK, OwnersInv, KeyInv(k), Faultless' => Faultless,
         NEW q \in Queues, NEW reply \in BOOLEAN, DecrementCount(q, reply), wkey[q] = k,
         k \notin uncounted'
  PROVE  KeyInv(k)'
<1> DEFINE next == IF ~reply THEN "dead" ELSE IF count[k] = 1 THEN "delete" ELSE "check"
<1>1. /\ wpc[q] = "decrement" /\ ~Counting(k) /\ Answered(reply)
      /\ count' = [count EXCEPT ![k] = @ - 1]
      /\ wpc' = [wpc EXCEPT ![q] = next]
      /\ UNCHANGED <<payload, queue, wkey, mgr, mgrKey, pos, accepted>>
  BY DEF DecrementCount, GotoIfAnswered, Goto, main, calls, Counting, Storing
<1>2. wpc \in [Queues -> WorkerPcs] /\ count \in [Keys -> Int]
  BY DEF TypeOK
<1>3. wpc'[q] = next /\ \A p \in Queues \ {q} : wpc'[p] = wpc[p]
  BY <1>1, <1>2
<1>4. count[k] \in Int /\ count'[k] = count[k] - 1
  BY <1>1, <1>2
<1>5. PICK i \in 1..Len(Workers) : Workers[i] = q
  BY <1>1 DEF OwnersInv
<1>6. \A j \in 1..Len(Workers) : j # i => Workers[j] # q
  BY <1>5, WorkersAssumption
<1>7. ~Occurs(queue[q], k)
  BY <1>1 DEF KeyInv, OnceInv
<1>8. Holds(q, k) /\ ~Holds(q, k)'
  BY <1>1, <1>3, <1>7 DEF Holds
<1>9. \A p \in Queues \ {q} : Holds(p, k)' <=> Holds(p, k)
  BY <1>1, <1>3 DEF Holds
<1>10. Holders(k)' = Holders(k) \ {i} /\ i \in Holders(k)
  BY <1>5, <1>6, <1>8, <1>9, WorkerQueue DEF Holders
<1>11. Cardinality(Holders(k)') = Cardinality(Holders(k)) - 1
  BY <1>10, HoldersFinite, FS_RemoveElement
<1>12. /\ Cardinality(Holders(k)) \in Nat /\ Cardinality(Holders(k)) <= count[k]
       /\ Faultless => Cardinality(Holders(k)) = count[k]
  BY <1>1, HoldersFinite DEF KeyInv, CountInv
<1>13. ~Counting(k)'
  BY <1>1 DEF Counting
<1>14. CountInv(k)'
  BY <1>4, <1>11, <1>12, <1>13 DEF CountInv
<1>15. ~Deleting(k) /\ k \in payload
  BY <1>10 DEF KeyInv, DataInv
<1>16. Deleting(k)' => count[k] = 1
  BY <1>1, <1>3, <1>15 DEF Deleting
<1>17. Holders(k)' # {} => ~Deleting(k)'
  <2>1. IsFiniteSet(Holders(k)')
    BY <1>10, HoldersFinite, FS_Subset
  <2>2. Holders(k)' # {} => Cardinality(Holders(k)') # 0 /\ Cardinality(Holders(k)') \in Nat
    BY <2>1, FS_EmptySet, FS_CardinalityType
  <2> QED
    BY <1>4, <1>11, <1>12, <1>16, <2>2
<1>18. Faultless' /\ Holders(k)' = {} => Deleting(k)'
  <2> SUFFICES ASSUME Faultless', Holders(k)' = {} PROVE Deleting(k)'
    OBVIOUS
  <2>1. reply = TRUE
    BY <1>1, UnansweredIsFault
  <2>2. Cardinality(Holders(k)') = 0
    BY FS_EmptySet
  <2>3. count[k] = 1
    BY <1>4, <1>11, <1>12, <2>2
  <2> QED
    BY <1>1, <1>3, <2>1, <2>3 DEF Deleting
<1>19. DataInv(k)'
  BY <1>1, <1>13, <1>15, <1>17, <1>18 DEF DataInv
<1>20. OnceInv(k)'
  BY <1>1, <1>3, <1>7 DEF KeyInv, OnceInv
<1> QED
  BY <1>14, <1>19, <1>20 DEF KeyInv

\* del: nobody holds the key any more.
LEMMA KeyDeleted ==
  ASSUME NEW k \in Keys, TypeOK, OwnersInv, KeyInv(k),
         NEW q \in Queues, NEW reply \in BOOLEAN, DeleteEvent(q, reply), wkey[q] = k
  PROVE  KeyInv(k)'
<1>1. /\ wpc[q] = "delete" /\ payload' = payload \ {k}
      /\ count' = [count EXCEPT ![k] = 0]
      /\ wpc' = [wpc EXCEPT ![q] = IF reply THEN "check" ELSE "dead"]
      /\ UNCHANGED <<queue, wkey, mgr, mgrKey, pos, accepted>>
  BY DEF DeleteEvent, GotoIfAnswered, Goto, main, calls
<1>2. wpc \in [Queues -> WorkerPcs] /\ count \in [Keys -> Int]
  BY DEF TypeOK
<1>3. /\ wpc'[q] \in {"check", "dead"} /\ \A p \in Queues \ {q} : wpc'[p] = wpc[p]
      /\ count'[k] = 0
  BY <1>1, <1>2
<1>4. Holders(k) = {} /\ ~Counting(k)
  BY <1>1 DEF KeyInv, DataInv, Deleting
<1>5. \A p \in Queues : Holds(p, k)' <=> Holds(p, k)
  BY <1>1, <1>3 DEF Holds
<1>6. Holders(k)' = {} /\ ~Counting(k)'
  BY <1>1, <1>4, <1>5, WorkerQueue DEF Holders, Counting
<1>7. CountInv(k)'
  <2>1. Cardinality(Holders(k)') = 0
    BY <1>6, FS_EmptySet
  <2> QED
    BY <1>3, <1>6, <2>1 DEF CountInv
<1>8. DataInv(k)'
  BY <1>1, <1>6 DEF DataInv
<1>9. OnceInv(k)'
  BY <1>1, <1>3 DEF KeyInv, OnceInv
<1> QED
  BY <1>7, <1>8, <1>9 DEF KeyInv

----------------------------------------------------------------------------
(* The counter of every key.                                               *)

\* The main thread's steps.
LEMMA ManagerKeeps ==
  ASSUME NEW k \in Keys, TypeOK, OwnersInv, KeyInv(k), k \notin uncounted',
         \/ Manager \/ ManagerRefused \/ Interrupt \/ Crash
         \/ \E e \in Keys : StoreEvent(e)
  PROVE  KeyInv(k)'
<1>0. Faultless' => Faultless
  BY FaultsStay DEF Next
<1> USE DEF redis, main, threads, calls, bounds
<1>1. CASE Start \/ JoinWorker \/ ManagerRefused \/ Interrupt \/ \E e \in Keys : StoreEvent(e)
  <2>1. UNCHANGED <<payload, count, queue, wpc, wkey>> /\ accepted' = accepted
    BY <1>1 DEF Start, JoinWorker, ManagerRefused, StoreEventRaises, Interrupt, StoreEvent
  <2>2. ~Counting(k) /\ ~Counting(k)'
    BY <1>1 DEF Start, JoinWorker, ManagerRefused, StoreEventRaises, Interrupt, StoreEvent,
       Counting, Storing
  <2>3. Aside(k)
    BY <2>1, <2>2 DEF Aside
  <2> QED
    BY <1>0, <2>1, <2>3, Untouched
<1>2. CASE AddDatastore
  <2>1. /\ UNCHANGED <<payload, count, queue, wkey, accepted>> /\ mgr = "adding"
        /\ mgr' \in {"idle", "adding"} /\ wpc' = [wpc EXCEPT ![Workers[pos]] = "check"]
    BY <1>2 DEF AddDatastore
  <2>2. pos \in 1..Len(Workers) /\ wpc[Workers[pos]] = "off"
    <3>1. pos \in 1..Len(Workers) + 1 /\ pos <= Len(Workers) /\ Len(Workers) \in Nat
      BY <2>1, WorkersAssumption DEF TypeOK
    <3> QED
      BY <2>1, <3>1 DEF OwnersInv
  <2>3. \A q \in Queues : wpc'[q] = wpc[q] \/ (wpc[q] = "off" /\ wpc'[q] = "check")
    <3>1. wpc \in [Queues -> WorkerPcs]
      BY DEF TypeOK
    <3> QED
      BY <2>1, <2>2, <3>1, WorkerQueue
  <2>4. Aside(k)
    BY <2>1 DEF Aside, Counting
  <2> QED
    BY <1>0, <2>1, <2>3, <2>4, Untouched
<1>3. ASSUME NEW reply \in BOOLEAN,
             WritePayload(reply) \/ PushKey(reply) \/ IncrementCount(reply)
      PROVE  KeyInv(k)'
  <2>1. CASE mgrKey = k
    BY <1>0, <1>3, <2>1, KeyWritten, KeyPushed, KeyCounted
  <2>2. CASE mgrKey # k
    <3>1. UNCHANGED <<wpc, wkey, mgrKey>> /\ (k \in accepted' => k \in accepted)
      BY <1>3, <2>2 DEF WritePayload, PushKey, IncrementCount, StoreEventRaises
    <3>2. (k \in payload' <=> k \in payload) /\ count'[k] = count[k]
      BY <1>3, <2>2 DEF WritePayload, PushKey, IncrementCount, TypeOK
    <3>3. Aside(k)
      BY <2>2, <3>1, <3>2 DEF Aside, Counting
    <3>4. \A q \in Queues : /\ Occurs(queue'[q], k) <=> Occurs(queue[q], k)
                            /\ Once(queue[q], k) => Once(queue'[q], k)
      <4> TAKE q \in Queues
      <4>1. queue'[q] = queue[q] \/ queue'[q] = Append(queue[q], mgrKey)
        BY <1>3 DEF WritePayload, PushKey, IncrementCount, TypeOK
      <4>2. queue[q] \in Seq(Keys) /\ mgrKey \in Keys
        BY DEF TypeOK
      <4> QED
        <5>1. CASE queue'[q] = queue[q]
          BY <5>1
        <5>2. CASE queue'[q] = Append(queue[q], mgrKey)
          BY <2>2, <4>2, <5>2, OccursAppend
        <5> QED
          BY <4>1, <5>1, <5>2
    <3> QED
      BY <1>0, <3>1, <3>3, <3>4, Untouched
  <2> QED
    BY <2>1, <2>2
<1>4. CASE Exit \/ Crash
  <2>1. /\ UNCHANGED <<payload, count, queue, wkey, accepted>> /\ mgr' = "down"
        /\ \A q \in Queues : wpc'[q] = "off"
    BY <1>4 DEF Exit, Crash
  <2>2. ~Counting(k) /\ ~Counting(k)'
    BY <1>4 DEF Exit, Crash, Counting, Storing
  <2>3. ~Faultless'
    <3>1. CASE Exit
      BY <3>1, <1>0 DEF Exit, OwnersInv
    <3>2. CASE Crash
      BY <3>2, BoundsAssumption DEF Crash, Faultless, TypeOK
    <3> QED
      BY <1>4, <3>1, <3>2
  <2>4. Aside(k)
    BY <2>1, <2>2 DEF Aside
  <2> QED
    BY <2>1, <2>3, <2>4, LetGo
<1> QED
  BY <1>1, <1>2, <1>3, <1>4 DEF Manager, Command

\* A worker's steps.
LEMMA WorkerKeeps ==
  ASSUME NEW k \in Keys, TypeOK, OwnersInv, NoIntegrityError, KeyInv(k), k \notin uncounted',
         NEW q \in Queues, Worker(q) \/ DatastoreFails(q) \/ WorkerRefused(q)
  PROVE  KeyInv(k)'
<1>0. Faultless' => Faultless
  BY FaultsStay DEF Next
<1> USE DEF redis, main, threads, calls, bounds
<1>1. CASE \/ CheckShutdown(q) \/ PeekQueue(q) \/ FetchEvent(q) \/ DatastoreStores(q)
           \/ DatastoreRefuses(q) \/ DatastoreFails(q)
  <2>1. /\ UNCHANGED <<payload, count, queue, mgr, mgrKey, pos, accepted>>
        /\ wpc[q] \notin {"decrement", "delete"} /\ wpc'[q] \notin {"decrement", "delete"}
        /\ \A p \in Queues \ {q} : wpc'[p] = wpc[p] /\ wkey'[p] = wkey[p]
    BY <1>1 DEF CheckShutdown, PeekQueue, FetchEvent, DatastoreStores, DatastoreRefuses,
       DatastoreFails, Goto, TypeOK
  <2>2. Aside(k)
    BY <2>1 DEF Aside, Counting
  <2> QED
    BY <1>0, <2>1, <2>2, Untouched
<1>2. ASSUME NEW reply \in BOOLEAN, PopKey(q, reply) PROVE KeyInv(k)'
  <2>1. CASE wkey[q] = k
    BY <1>0, <1>2, <2>1, KeyPopped
  <2>2. CASE wkey[q] # k
    <3>1. /\ UNCHANGED <<payload, count, wkey, mgr, mgrKey, pos, accepted>>
          /\ queue[q] # << >> /\ Head(queue[q]) = wkey[q] /\ queue'[q] = Tail(queue[q])
          /\ \A p \in Queues \ {q} : wpc'[p] = wpc[p] /\ queue'[p] = queue[p]
      BY <1>2 DEF PopKey, GotoIfAnswered, Goto, NoIntegrityError, TypeOK
    <3>2. Aside(k)
      BY <3>1 DEF Aside, Counting
    <3>3. /\ Occurs(queue'[q], k) <=> Occurs(queue[q], k)
          /\ Once(queue[q], k) => Once(queue'[q], k)
      BY <2>2, <3>1, OccursTail DEF TypeOK
    <3> QED
      BY <1>0, <2>2, <3>1, <3>2, <3>3, Untouched
  <2> QED
    BY <2>1, <2>2
<1>3. ASSUME NEW reply \in BOOLEAN, DecrementCount(q, reply) \/ DeleteEvent(q, reply)
      PROVE  KeyInv(k)'
  <2>1. CASE wkey[q] = k
    BY <1>0, <1>3, <2>1, KeyReleased, KeyDeleted
  <2>2. CASE wkey[q] # k
    <3>1. /\ UNCHANGED <<queue, wkey, mgr, mgrKey, pos, accepted>>
          /\ \A p \in Queues \ {q} : wpc'[p] = wpc[p]
      BY <1>3 DEF DecrementCount, DeleteEvent, GotoIfAnswered, Goto, TypeOK
    <3>2. (k \in payload' <=> k \in payload) /\ count'[k] = count[k]
      BY <1>3, <2>2 DEF DecrementCount, DeleteEvent, TypeOK
    <3>3. Aside(k)
      BY <3>1, <3>2 DEF Aside, Counting
    <3> QED
      BY <1>0, <2>2, <3>1, <3>3, Untouched
  <2> QED
    BY <2>1, <2>2
<1>4. CASE WorkerRefused(q)
  <2>1. /\ UNCHANGED <<payload, count, queue, wkey, mgr, mgrKey, pos, accepted>>
        /\ wpc'[q] = "dead" /\ \A p \in Queues \ {q} : wpc'[p] = wpc[p]
    BY <1>4 DEF WorkerRefused, Goto, TypeOK
  <2>2. ~Faultless'
    BY <1>4, UnansweredIsFault DEF WorkerRefused
  <2>3. Aside(k)
    BY <2>1 DEF Aside, Counting
  <2> QED
    BY <2>1, <2>2, <2>3, LetGo
<1> QED
  BY <1>1, <1>2, <1>3, <1>4 DEF Worker, Removal

LEMMA CounterInit == Init => CounterInv
<1> SUFFICES ASSUME Init, NEW k \in Keys PROVE OnceInv(k) /\ CountInv(k) /\ DataInv(k)
  BY OwnersInit DEF CounterInv
<1>1. OnceInv(k) /\ ~Counting(k) /\ ~Deleting(k)
  BY DEF Init, OnceInv, Once, Counting, Deleting
<1>2. Holders(k) = {}
  BY WorkerQueue DEF Init, Holders, Holds, Occurs
<1>3. count[k] = 0 /\ k \notin payload
  BY DEF Init
<1> QED
  BY <1>1, <1>2, <1>3, FS_EmptySet DEF CountInv, DataInv

LEMMA CounterNext ==
  TypeOK /\ NoIntegrityError /\ CounterInv /\ [Next]_vars => CounterInv'
<1> SUFFICES ASSUME TypeOK, NoIntegrityError, CounterInv, [Next]_vars PROVE CounterInv'
  OBVIOUS
<1>1. OwnersInv'
  BY OwnersNext DEF CounterInv
<1>2. ASSUME Next, NEW k \in Keys \ uncounted' PROVE KeyInv(k)'
  <2>1. KeyInv(k)
    BY <1>2, UncountedGrows DEF CounterInv, KeyInv
  <2> QED
    BY <1>2, <2>1, ManagerKeeps, WorkerKeeps DEF Next, CounterInv
<1>3. ASSUME UNCHANGED vars, NEW k \in Keys \ uncounted' PROVE KeyInv(k)'
  BY <1>3 DEF vars, redis, main, threads, calls, bounds, CounterInv, KeyInv, OnceInv,
     CountInv, DataInv, Counting, Pushed, Deleting, Holders, Holds, Faultless
<1> QED
  BY <1>1, <1>2, <1>3 DEF CounterInv, KeyInv

LEMMA CounterKept == Spec => []CounterInv
  BY CounterInit, CounterNext, TypeCorrect, HeadStable, PTL DEF Spec

\* The upload counter protects an event while any queue still holds it, with
\* any number of datastores and through any faults, as long as the counting
\* itself was not disturbed (storage.py, StorageManager and StorageWorker).
THEOREM CounterProtects == Spec => []CountedEventsKeepTheirData
<1>1. CounterInv => CountedEventsKeepTheirData
  <2> SUFFICES ASSUME CounterInv, NEW k \in Keys \ uncounted, Queued(k) PROVE k \in payload
    BY DEF CountedEventsKeepTheirData
  <2>1. PICK q \in Queues : Occurs(queue[q], k)
    BY DEF Queued, Occurs
  <2>2. PICK i \in 1..Len(Workers) : Workers[i] = q
    BY <2>1 DEF CounterInv, OwnersInv, Occurs
  <2>3. Holders(k) # {}
    BY <2>1, <2>2 DEF Holders, Holds
  <2> QED
    BY <2>3 DEF CounterInv, DataInv
<1> QED
  BY <1>1, CounterKept, PTL

\* Without faults a counted event leaves nothing behind once every queue and
\* worker is through with it (remove_event_from_queue).
THEOREM CounterCleansUp == Spec => []CountedEventsAreCleanedUp
<1>1. TypeOK /\ CounterInv => CountedEventsAreCleanedUp
  <2> SUFFICES ASSUME TypeOK, CounterInv, crashes + stops + faults = 0,
                      NEW k \in accepted \ uncounted,
                      ~Queued(k), ~Removing(k), ~(Storing /\ mgrKey = k)
               PROVE  k \notin payload /\ count[k] = 0
    BY DEF CountedEventsAreCleanedUp
  <2>1. k \in Keys
    BY DEF TypeOK
  <2>2. Faultless
    BY BoundsAssumption DEF TypeOK, Faultless
  <2>3. ~Counting(k) /\ ~Deleting(k)
    BY DEF Counting, Storing, Deleting, Removing
  <2>4. Holders(k) = {}
    BY WorkerQueue DEF Holders, Holds, Occurs, Queued, Removing
  <2> QED
    BY <2>1, <2>2, <2>3, <2>4, FS_EmptySet DEF CounterInv, CountInv, DataInv
<1> QED
  BY <1>1, CounterKept, TypeCorrect, PTL

----------------------------------------------------------------------------
(* What is dropped from a queue.                                           *)

LEMMA DroppedNext ==
  TypeOK /\ NoIntegrityError /\ CountedEventsKeepTheirData /\ DroppedInv /\ [Next]_vars
    => DroppedInv'
<1> SUFFICES ASSUME TypeOK, NoIntegrityError, CountedEventsKeepTheirData, DroppedInv,
                    [Next]_vars, NEW p \in Queues, wpc'[p] = "lpop"
             PROVE  Occurs(stored'[p], wkey'[p]) \/ wkey'[p] \in uncounted'
  BY DEF DroppedInv
<1>1. uncounted \subseteq uncounted'
  BY UncountedGrows DEF vars
<1>2. ASSUME wpc[p] = "lpop", wkey'[p] = wkey[p], stored'[p] = stored[p]
      PROVE  Occurs(stored'[p], wkey'[p]) \/ wkey'[p] \in uncounted'
  BY <1>1, <1>2 DEF DroppedInv
<1> USE DEF redis, main, threads, calls, bounds
<1>3. CASE Manager \/ ManagerRefused \/ Interrupt \/ Crash \/ \E e \in Keys : StoreEvent(e)
  <2>1. stored' = stored /\ wkey' = wkey
    BY <1>3 DEF Manager, Command, Start, AddDatastore, WritePayload, PushKey, IncrementCount,
       JoinWorker, Exit, ManagerRefused, Interrupt, Crash, StoreEvent
  <2>2. wpc[p] = "lpop"
    BY <1>3 DEF Manager, Command, Start, AddDatastore, WritePayload, PushKey, IncrementCount,
       JoinWorker, Exit, ManagerRefused, Interrupt, Crash, StoreEvent, TypeOK
  <2> QED
    BY <1>2, <2>1, <2>2
<1>4. ASSUME NEW q \in Queues, FetchEvent(q), q = p
      PROVE  Occurs(stored'[p], wkey'[p]) \/ wkey'[p] \in uncounted'
  <2>1. wpc[p] = "hget" /\ wkey[p] \notin payload /\ wkey' = wkey /\ wkey[p] \in Keys
    BY <1>4 DEF FetchEvent, Goto, TypeOK
  <2>2. Queued(wkey[p])
    <3>1. queue[p] # << >> /\ Head(queue[p]) = wkey[p] /\ queue[p] \in Seq(Keys)
      BY <2>1 DEF NoIntegrityError, TypeOK
    <3>2. 1 \in DOMAIN queue[p] /\ queue[p][1] = wkey[p]
      BY <3>1
    <3> QED
      BY <3>2 DEF Queued
  <2> QED
    BY <1>1, <2>1, <2>2 DEF CountedEventsKeepTheirData
<1>5. ASSUME NEW q \in Queues, DatastoreStores(q), q = p
      PROVE  Occurs(stored'[p], wkey'[p])
  <2>1. stored'[p] = Append(stored[p], wkey[p]) /\ wkey' = wkey
    BY <1>5 DEF DatastoreStores, TypeOK
  <2>2. stored[p] \in Seq(Keys) /\ wkey[p] \in Keys
    BY DEF TypeOK
  <2> QED
    BY <2>1, <2>2, OccursAppend
<1>6. ASSUME NEW q \in Queues, Worker(q) \/ DatastoreFails(q) \/ WorkerRefused(q), q # p
      PROVE  Occurs(stored'[p], wkey'[p]) \/ wkey'[p] \in uncounted'
  <2>1. stored'[p] = stored[p]
    BY <1>6 DEF Worker, Removal, CheckShutdown, PeekQueue, FetchEvent, DatastoreStores,
       DatastoreRefuses, DatastoreFails, PopKey, DecrementCount, DeleteEvent, WorkerRefused,
       TypeOK
  <2> QED
    BY <1>2, <1>6, <2>1, WorkerStep
<1>7. ASSUME NEW q \in Queues, q = p,
             \/ CheckShutdown(q) \/ PeekQueue(q) \/ DatastoreRefuses(q)
             \/ Removal(q) \/ DatastoreFails(q) \/ WorkerRefused(q)
      PROVE  FALSE
  BY <1>7 DEF Removal, CheckShutdown, PeekQueue, DatastoreRefuses, DatastoreFails, PopKey,
     DecrementCount, DeleteEvent, WorkerRefused, Goto, GotoIfAnswered, TypeOK
<1>8. CASE UNCHANGED vars
  BY <1>2, <1>8 DEF vars
<1> QED
  BY <1>3, <1>4, <1>5, <1>6, <1>7, <1>8 DEF Next, Worker

\* A worker never pops the key of an event that its datastore does not have,
\* unless the event's counter went wrong (process_queue, get_event_by_key).
THEOREM DropsAreStored == Spec => OnlyUncountedAreDropped
<1>1. Init => DroppedInv
  BY DEF Init, DroppedInv
<1>2. Spec => []DroppedInv
  BY <1>1, DroppedNext, TypeCorrect, HeadStable, CounterProtects, PTL DEF Spec
<1>3. ASSUME TypeOK, NoIntegrityError, DroppedInv, Next, NEW q \in Queues,
             Len(queue'[q]) < Len(queue[q])
      PROVE  \/ \E n \in DOMAIN stored[q] : stored[q][n] = Head(queue[q])
             \/ Head(queue[q]) \in uncounted
  <2>1. wpc[q] = "lpop"
    <3>1. queue[q] \in Seq(Keys) /\ mgrKey \in Keys
      BY <1>3 DEF TypeOK
    <3>2. ~(queue'[q] = queue[q])
      BY <1>3
    <3>3. ~(queue'[q] = Append(queue[q], mgrKey))
      BY <1>3, <3>1
    <3>4. CASE Manager \/ ManagerRefused \/ Interrupt \/ Crash \/ \E e \in Keys : StoreEvent(e)
      BY <1>3, <3>2, <3>3, <3>4 DEF Manager, Command, Start, AddDatastore, WritePayload, PushKey,
         IncrementCount, JoinWorker, Exit, ManagerRefused, Interrupt, Crash, StoreEvent, redis,
         TypeOK
    <3>5. ASSUME NEW p \in Queues, Worker(p) \/ DatastoreFails(p) \/ WorkerRefused(p)
          PROVE  wpc[q] = "lpop"
      BY <1>3, <3>2, <3>5 DEF Worker, Removal, CheckShutdown, PeekQueue, FetchEvent,
         DatastoreStores, DatastoreRefuses, DatastoreFails, PopKey, DecrementCount,
         DeleteEvent, WorkerRefused, redis, TypeOK
    <3> QED
      BY <1>3, <3>4, <3>5 DEF Next
  <2> QED
    BY <1>3, <2>1 DEF NoIntegrityError, DroppedInv, Occurs
<1>4. TypeOK /\ NoIntegrityError /\ DroppedInv /\ [Next]_vars
        => [\A q \in Queues :
              Len(queue'[q]) < Len(queue[q]) =>
                \/ \E n \in DOMAIN stored[q] : stored[q][n] = Head(queue[q])
                \/ Head(queue[q]) \in uncounted]_vars
  BY <1>3
<1> QED
  BY <1>2, <1>4, TypeCorrect, HeadStable, PTL DEF Spec, OnlyUncountedAreDropped

----------------------------------------------------------------------------
(* How often a datastore receives an event.                                *)

Positions(s, k) == {n \in DOMAIN s : s[n] = k}

Copies(s, k) == Cardinality(Positions(s, k))

\* store_event has still to push the key to queue q.
LeftToPush(q, k) ==
  /\ mgrKey = k
  /\ \E i \in 1..Len(Workers) :
       /\ Workers[i] = q
       /\ \/ mgr \in {"hmset", "rpush"} /\ i >= pos
          \/ mgr = "hincrby" /\ i > pos

\* The worker of q is through with the front of its queue and about to pop it.
Popping(q, k) == wpc[q] = "lpop" /\ wkey[q] = k

OneIf(b) == IF b THEN 1 ELSE 0

\* The copies that the datastore of q has or can still get, if nothing more
\* goes wrong ...
Deliveries(q, k) ==
  Copies(stored[q], k) + Copies(queue[q], k)
    + OneIf(LeftToPush(q, k)) - OneIf(Popping(q, k))

\* ... and those that are accounted for.
Budget(k) == submitted[k] + crashes + faults

\* close() has waited for the workers it passed.
JoinedInv ==
  mgr = "joining" => \A i \in 1..(pos - 1) : wpc[Workers[i]] \in {"stopped", "dead"}

CopiesInv == \A q \in Queues, k \in Keys : Deliveries(q, k) <= Budget(k)

LEMMA CopiesNat ==
  ASSUME NEW s \in Seq(Keys), NEW k
  PROVE  IsFiniteSet(Positions(s, k)) /\ Copies(s, k) \in Nat
<1>1. IsFiniteSet(1..Len(s)) /\ Positions(s, k) \subseteq 1..Len(s)
  BY FS_Interval DEF Positions
<1> QED
  BY <1>1, FS_Subset, FS_CardinalityType DEF Copies

LEMMA CopiesAppend ==
  ASSUME NEW s \in Seq(Keys), NEW x \in Keys, NEW k
  PROVE  Copies(Append(s, x), k) = Copies(s, k) + OneIf(x = k)
<1> DEFINE t == Append(s, x)
<1>1. /\ DOMAIN s = 1..Len(s) /\ Len(s) \in Nat
      /\ DOMAIN t = 1..(Len(s) + 1) /\ t[Len(s) + 1] = x
      /\ \A i \in 1..Len(s) : t[i] = s[i]
  OBVIOUS
<1> HIDE DEF t
<1>2. CASE x = k
  <2>1. Positions(t, k) = Positions(s, k) \cup {Len(s) + 1}
    BY <1>1, <1>2 DEF Positions
  <2>2. Len(s) + 1 \notin Positions(s, k)
    BY <1>1 DEF Positions
  <2>3. Copies(t, k) = Copies(s, k) + 1
    BY <2>1, <2>2, CopiesNat, FS_AddElement DEF Copies
  <2> QED
    BY <1>2, <2>3 DEF t, OneIf
<1>3. CASE x # k
  <2>1. Positions(t, k) = Positions(s, k)
    BY <1>1, <1>3 DEF Positions
  <2> QED
    BY <1>3, <2>1, CopiesNat DEF t, OneIf, Copies
<1> QED
  BY <1>2, <1>3

LEMMA CopiesTail ==
  ASSUME NEW s \in Seq(Keys), s # << >>, NEW k
  PROVE  Copies(Tail(s), k) = Copies(s, k) - OneIf(Head(s) = k)
<1> DEFINE t == Tail(s)
           P == Positions(s, k) \ {1}
           shift == [n \in Positions(t, k) |-> n + 1]
<1>1. /\ DOMAIN s = 1..Len(s) /\ Len(s) \in Nat \ {0} /\ Head(s) = s[1]
      /\ t \in Seq(Keys) /\ DOMAIN t = 1..(Len(s) - 1)
      /\ \A i \in 1..(Len(s) - 1) : t[i] = s[i + 1]
  OBVIOUS
<1> HIDE DEF t
<1>2. \A n \in Positions(t, k) : n \in Nat /\ n + 1 \in P
  BY <1>1 DEF Positions
<1>3. ASSUME NEW m \in P PROVE m - 1 \in Positions(t, k) /\ (m - 1) + 1 = m
  <2>1. m \in 2..Len(s) /\ s[m] = k
    BY <1>1, <1>3 DEF Positions
  <2>2. m - 1 \in 1..(Len(s) - 1) /\ (m - 1) + 1 = m
    BY <1>1, <2>1
  <2> QED
    BY <1>1, <2>1, <2>2 DEF Positions
<1>4. shift \in Bijection(Positions(t, k), P)
  <2>1. shift \in Injection(Positions(t, k), P)
    BY <1>2 DEF Injection, IsInjective
  <2>2. \A m \in P : \E n \in Positions(t, k) : shift[n] = m
    BY <1>3
  <2> QED
    BY <2>1, <2>2 DEF Bijection, Injection, Surjection
<1>5. Cardinality(P) = Copies(t, k)
  BY <1>1, <1>4, CopiesNat, FS_Bijection DEF ExistsBijection, Copies
<1>6. Cardinality(P) = Copies(s, k) - OneIf(1 \in Positions(s, k))
  <2>1. IsFiniteSet(Positions(s, k)) /\ Copies(s, k) \in Nat
    BY CopiesNat
  <2>2. Cardinality(P) = IF 1 \in Positions(s, k) THEN Cardinality(Positions(s, k)) - 1
                         ELSE Cardinality(Positions(s, k))
    BY <2>1, FS_RemoveElement
  <2> QED
    BY <2>1, <2>2 DEF Copies, OneIf
<1>7. 1 \in Positions(s, k) <=> Head(s) = k
  BY <1>1 DEF Positions
<1> QED
  BY <1>5, <1>6, <1>7 DEF t, OneIf

LEMMA JoinedNext == TypeOK /\ JoinedInv /\ [Next]_vars => JoinedInv'
<1> SUFFICES ASSUME TypeOK, JoinedInv, [Next]_vars PROVE JoinedInv'
  OBVIOUS
<1>0. /\ Len(Workers) \in Nat /\ \A i \in 1..Len(Workers) : Workers[i] \in Queues
      /\ pos \in 1..Len(Workers) + 1
  BY WorkersAssumption DEF TypeOK
<1>1. CASE mgr' # "joining" \/ pos' = 1
  BY <1>1 DEF JoinedInv
<1>2. CASE Manager
  <2>1. CASE JoinWorker
    <3>1. /\ mgr = "joining" /\ wpc[Workers[pos]] \in {"stopped", "dead"}
          /\ pos' = pos + 1 /\ wpc' = wpc
      BY <2>1 DEF JoinWorker, threads
    <3>2. \A i \in 1..pos : i \in 1..(pos - 1) \/ i = pos
      BY <1>0
    <3>3. pos' - 1 = pos
      BY <1>0, <3>1
    <3> QED
      BY <3>1, <3>2, <3>3 DEF JoinedInv
  <2>2. CASE Command
    BY <1>1, <2>2 DEF Command, WritePayload, PushKey, IncrementCount, StoreEventRaises
  <2> QED
    BY <1>1, <1>2, <2>1, <2>2 DEF Manager, Start, AddDatastore, Exit
<1>3. ASSUME NEW e \in Keys, StoreEvent(e) PROVE JoinedInv'
  BY <1>1, <1>3 DEF StoreEvent
<1>4. CASE ManagerRefused \/ Interrupt \/ Crash
  BY <1>1, <1>4 DEF ManagerRefused, StoreEventRaises, Interrupt, Crash
<1>5. ASSUME NEW q \in Queues, Worker(q) \/ DatastoreFails(q) \/ WorkerRefused(q)
      PROVE  JoinedInv'
  <2>1. /\ UNCHANGED <<mgr, pos>> /\ wpc[q] \notin {"stopped", "dead"}
        /\ \A p \in Queues \ {q} : wpc'[p] = wpc[p]
    BY <1>5, WorkerStep DEF main
  <2> QED
    BY <1>0, <2>1 DEF JoinedInv
<1>6. CASE UNCHANGED vars
  BY <1>6 DEF vars, main, threads, JoinedInv
<1> QED
  BY <1>2, <1>3, <1>4, <1>5, <1>6 DEF Next

\* No budget is ever taken away.
LEMMA BudgetGrows ==
  ASSUME TypeOK, Next, NEW k \in Keys
  PROVE  /\ Budget(k) \in Nat /\ Budget(k)' \in Nat /\ Budget(k) <= Budget(k)'
         /\ crashes' # crashes \/ faults' # faults => Budget(k) + 1 <= Budget(k)'
<1>1. crashes \in Nat /\ faults \in Nat /\ submitted[k] \in Nat
  BY BoundsAssumption DEF TypeOK
<1>2. crashes' \in {crashes, crashes + 1} /\ faults' \in {faults, faults + 1}
  BY DEF Next, Manager, Command, Worker, Removal, Start, AddDatastore, StoreEvent,
     WritePayload, PushKey, IncrementCount, ManagerRefused, Interrupt, JoinWorker, Exit,
     Crash, CheckShutdown, PeekQueue, FetchEvent, DatastoreStores, DatastoreRefuses,
     DatastoreFails, PopKey, DecrementCount, DeleteEvent, WorkerRefused, Answered, bounds
<1>3. submitted'[k] \in {submitted[k], submitted[k] + 1}
  <2>1. submitted' = submitted \/ \E e \in Keys : StoreEvent(e)
    BY DEF Next, Manager, Command, Worker, Removal, Start, AddDatastore, StoreEventRaises,
     WritePayload, PushKey, IncrementCount, ManagerRefused, Interrupt, JoinWorker, Exit,
     Crash, CheckShutdown, PeekQueue, FetchEvent, DatastoreStores, DatastoreRefuses,
     DatastoreFails, PopKey, DecrementCount, DeleteEvent, WorkerRefused, calls
  <2> QED
    BY <2>1 DEF StoreEvent, TypeOK
<1> QED
  BY <1>1, <1>2, <1>3 DEF Budget

\* A step that leaves what is stored and queued alone owes no more than before.
LEMMA Quiet ==
  ASSUME TypeOK, TypeOK', Next, NEW q \in Queues, NEW k \in Keys,
         Deliveries(q, k) <= Budget(k),
         stored'[q] = stored[q], queue'[q] = queue[q],
         LeftToPush(q, k)' => LeftToPush(q, k),
         \/ Popping(q, k) => Popping(q, k)'
         \/ crashes' # crashes \/ faults' # faults
  PROVE  Deliveries(q, k)' <= Budget(k)'
<1> DEFINE c == Copies(stored[q], k)
           d == Copies(queue[q], k)
<1>1. c \in Nat /\ d \in Nat
  BY CopiesNat DEF TypeOK
<1>2. Deliveries(q, k) = c + d + OneIf(LeftToPush(q, k)) - OneIf(Popping(q, k))
  BY DEF Deliveries
<1>3. Deliveries(q, k)' = c + d + OneIf(LeftToPush(q, k)') - OneIf(Popping(q, k)')
  BY DEF Deliveries, Copies, Positions, OneIf
<1>4. /\ OneIf(LeftToPush(q, k)') \in 0..1 /\ OneIf(LeftToPush(q, k)) \in 0..1
      /\ OneIf(Popping(q, k)') \in 0..1 /\ OneIf(Popping(q, k)) \in 0..1
  BY DEF OneIf
<1>5. OneIf(LeftToPush(q, k)') <= OneIf(LeftToPush(q, k))
  BY DEF OneIf
<1>6. \/ OneIf(Popping(q, k)) <= OneIf(Popping(q, k)')
      \/ Budget(k) + 1 <= Budget(k)'
  BY BudgetGrows DEF OneIf
<1>7. Budget(k) \in Nat /\ Budget(k)' \in Nat /\ Budget(k) <= Budget(k)'
  BY BudgetGrows
<1> HIDE DEF c, d
<1> DEFINE u == OneIf(LeftToPush(q, k))
           v == OneIf(LeftToPush(q, k)')
           x == OneIf(Popping(q, k))
           y == OneIf(Popping(q, k)')
<1>8. /\ c + d + u - x <= Budget(k) /\ u \in 0..1 /\ v \in 0..1 /\ x \in 0..1 /\ y \in 0..1
      /\ v <= u /\ (x <= y \/ Budget(k) + 1 <= Budget(k)')
  BY <1>2, <1>4, <1>5, <1>6
<1> HIDE DEF u, v, x, y
<1>9. c + d + v - y <= Budget(k)'
  BY <1>1, <1>7, <1>8
<1> QED
  BY <1>3, <1>9 DEF v, y

\* The manager's part: what store_event has still to push is on the account of
\* the call, and goes to the queue once.
LEMMA CopiesManager ==
  ASSUME TypeOK, TypeOK', OwnersInv, JoinedInv,
         NEW q \in Queues, NEW k \in Keys, Deliveries(q, k) <= Budget(k),
         \/ Manager \/ ManagerRefused \/ Interrupt \/ Crash
         \/ \E e \in Keys : StoreEvent(e)
  PROVE  Deliveries(q, k)' <= Budget(k)'
<1>0. /\ Len(Workers) \in Nat /\ \A i \in 1..Len(Workers) : Workers[i] \in Queues
      /\ \A i, j \in 1..Len(Workers) : Workers[i] = Workers[j] => i = j
  BY WorkersAssumption
<1>a. /\ wpc \in [Queues -> WorkerPcs] /\ queue \in [Queues -> Seq(Keys)]
      /\ stored \in [Queues -> Seq(Keys)] /\ mgrKey \in Keys
      /\ pos \in 1..Len(Workers) + 1
      /\ mgr \in {"adding", "hmset", "rpush", "hincrby"} => pos <= Len(Workers)
  BY DEF TypeOK
<1>b. Next
  BY DEF Next
<1>c. mgr' \notin {"hmset", "rpush", "hincrby"} => ~LeftToPush(q, k)'
  BY DEF LeftToPush
<1>1. CASE Start \/ JoinWorker \/ ManagerRefused \/ Interrupt
  <2>1. /\ UNCHANGED <<stored, queue, wpc, wkey>>
        /\ mgr' \in {"adding", "idle", "joining"}
    BY <1>1 DEF Start, JoinWorker, ManagerRefused, StoreEventRaises, Interrupt, redis, threads
  <2>2. Popping(q, k)' <=> Popping(q, k)
    BY <2>1 DEF Popping
  <2> QED
    BY <1>b, <1>c, <2>1, <2>2, Quiet
<1>2. CASE AddDatastore
  <2>1. /\ UNCHANGED <<stored, queue, wkey>> /\ mgr = "adding"
        /\ mgr' \in {"adding", "idle"} /\ wpc' = [wpc EXCEPT ![Workers[pos]] = "check"]
    BY <1>2 DEF AddDatastore, redis
  <2>2. wpc[Workers[pos]] = "off"
    BY <1>0, <1>a, <2>1 DEF OwnersInv
  <2>3. Popping(q, k) => Popping(q, k)'
    BY <1>a, <2>1, <2>2 DEF Popping
  <2> QED
    BY <1>b, <1>c, <2>1, <2>3, Quiet
<1>3. CASE Exit
  <2>1. /\ UNCHANGED <<stored, queue>> /\ mgr' = "down" /\ mgr = "joining"
        /\ pos > Len(Workers)
    BY <1>3 DEF Exit, redis
  <2>2. ~Popping(q, k)
    <3>1. SUFFICES ASSUME wpc[q] = "lpop" PROVE FALSE
      BY DEF Popping
    <3>2. PICK i \in 1..Len(Workers) : Workers[i] = q
      BY <3>1 DEF OwnersInv
    <3>3. i \in 1..(pos - 1)
      BY <1>0, <1>a, <2>1
    <3> QED
      BY <2>1, <3>1, <3>2, <3>3 DEF JoinedInv
  <2> QED
    BY <1>b, <1>c, <2>1, <2>2, Quiet
<1>4. CASE Crash
  <2>1. /\ UNCHANGED <<stored, queue>> /\ mgr' = "down" /\ crashes' = crashes + 1
    BY <1>4 DEF Crash, redis
  <2>2. crashes' # crashes
    BY <2>1, BoundsAssumption DEF TypeOK
  <2> QED
    BY <1>b, <1>c, <2>1, <2>2, Quiet
<1>5. ASSUME NEW e \in Keys, StoreEvent(e) PROVE Deliveries(q, k)' <= Budget(k)'
  <2>1. /\ UNCHANGED <<stored, queue, wpc, wkey, crashes, faults>> /\ mgr = "idle"
        /\ mgrKey' = e /\ submitted' = [submitted EXCEPT ![e] = @ + 1]
    BY <1>5 DEF StoreEvent, redis, threads, bounds
  <2>2. Popping(q, k)' <=> Popping(q, k)
    BY <2>1 DEF Popping
  <2>3. CASE e # k
    BY <1>b, <2>1, <2>2, <2>3, Quiet DEF LeftToPush
  <2>4. CASE e = k
    <3> DEFINE d == Copies(stored[q], k) + Copies(queue[q], k)
               x == OneIf(Popping(q, k))
    <3>1. /\ Copies(stored[q], k) \in Nat /\ Copies(queue[q], k) \in Nat
          /\ x \in 0..1 /\ OneIf(LeftToPush(q, k)') <= 1
          /\ OneIf(LeftToPush(q, k)') \in 0..1
      BY <1>a, CopiesNat DEF OneIf
    <3>2. Deliveries(q, k) = d - x
      BY <2>1, <3>1 DEF Deliveries, LeftToPush, OneIf
    <3>3. Deliveries(q, k)' = d + OneIf(LeftToPush(q, k)') - x
      BY <2>1, <2>2 DEF Deliveries, OneIf, Copies, Positions
    <3>4. Budget(k)' = Budget(k) + 1 /\ Budget(k) \in Nat
      <4>1. submitted'[k] = submitted[k] + 1 /\ submitted[k] \in Nat
        BY <2>1, <2>4 DEF TypeOK
      <4>2. crashes \in Nat /\ faults \in Nat
        BY BoundsAssumption DEF TypeOK
      <4> QED
        BY <2>1, <4>1, <4>2 DEF Budget
    <3> DEFINE v == OneIf(LeftToPush(q, k)')
    <3>5. d \in Nat /\ x \in 0..1 /\ v \in 0..1 /\ d - x <= Budget(k)
      BY <3>1, <3>2
    <3> HIDE DEF d, x, v
    <3>6. d + v - x <= Budget(k)'
      BY <3>4, <3>5
    <3> QED
      BY <3>3, <3>6 DEF v
  <2> QED
    BY <2>3, <2>4
<1>6. ASSUME NEW reply \in BOOLEAN, WritePayload(reply) \/ IncrementCount(reply)
      PROVE  Deliveries(q, k)' <= Budget(k)'
  <2>1. UNCHANGED <<stored, queue, wpc, wkey>>
    BY <1>6 DEF WritePayload, IncrementCount, threads
  <2>2. Popping(q, k)' <=> Popping(q, k)
    BY <2>1 DEF Popping
  <2>3. \/ mgr' \in {"idle", "joining"}
        \/ mgr = "hmset" /\ mgr' = "rpush" /\ mgrKey' = mgrKey /\ pos' = pos
        \/ mgr = "hincrby" /\ mgr' = "rpush" /\ mgrKey' = mgrKey /\ pos' = pos + 1
    BY <1>6 DEF WritePayload, IncrementCount, StoreEventRaises
  <2>4. \A i \in 1..Len(Workers) : i >= pos + 1 => i > pos
    BY <1>a
  <2>5. LeftToPush(q, k)' => LeftToPush(q, k)
    BY <2>3, <2>4 DEF LeftToPush
  <2> QED
    BY <1>b, <2>1, <2>2, <2>5, Quiet
<1>7. ASSUME NEW reply \in BOOLEAN, PushKey(reply) PROVE Deliveries(q, k)' <= Budget(k)'
  <2>1. /\ UNCHANGED <<stored, wpc, wkey>> /\ mgr = "rpush" /\ pos <= Len(Workers)
        /\ queue' = [queue EXCEPT ![Workers[pos]] = Append(@, mgrKey)]
        /\ \/ mgr' \in {"idle", "joining"}
           \/ mgr' = "hincrby" /\ mgrKey' = mgrKey /\ pos' = pos
    BY <1>7, <1>a DEF PushKey, StoreEventRaises, threads
  <2>2. Popping(q, k)' <=> Popping(q, k)
    BY <2>1 DEF Popping
  <2>3. LeftToPush(q, k)' => LeftToPush(q, k)
    <3>1. \A i \in 1..Len(Workers) : i > pos => i >= pos
      BY <1>a
    <3> QED
      BY <2>1, <3>1 DEF LeftToPush
  <2>4. CASE q # Workers[pos] \/ mgrKey # k
    <3>1. CASE q # Workers[pos]
      <4>1. queue'[q] = queue[q]
        BY <1>a, <2>1, <3>1
      <4> QED
        BY <1>b, <2>1, <2>2, <2>3, <4>1, Quiet
    <3>2. CASE q = Workers[pos] /\ mgrKey # k
      <4>1. Copies(queue'[q], k) = Copies(queue[q], k)
        <5>1. queue'[q] = Append(queue[q], mgrKey)
          BY <1>a, <2>1, <3>2
        <5> QED
          BY <1>a, <3>2, <5>1, CopiesAppend, CopiesNat DEF OneIf
      <4>2. ~LeftToPush(q, k)'
        BY <2>1, <3>2, <1>c DEF LeftToPush
      <4>3. Deliveries(q, k)' = Deliveries(q, k)
        BY <2>1, <2>2, <3>2, <4>1, <4>2 DEF Deliveries, LeftToPush, OneIf, Copies, Positions
      <4>4. Deliveries(q, k) \in Int
        BY <1>a, CopiesNat DEF Deliveries, OneIf
      <4> QED
        BY <1>b, <4>3, <4>4, BudgetGrows
    <3> QED
      BY <2>4, <3>1, <3>2
  <2>5. CASE q = Workers[pos] /\ mgrKey = k
    <3>1. Copies(queue'[q], k) = Copies(queue[q], k) + 1
      <4>1. queue'[q] = Append(queue[q], mgrKey)
        BY <1>a, <2>1, <2>5
      <4> QED
        BY <1>a, <2>5, <4>1, CopiesAppend DEF OneIf
    <3>2. LeftToPush(q, k) /\ ~LeftToPush(q, k)'
      <4>1. pos \in 1..Len(Workers) /\ pos >= pos /\ ~(pos > pos)
        BY <1>a, <2>1
      <4> QED
        BY <1>0, <1>c, <2>1, <2>5, <4>1 DEF LeftToPush
    <3>3. Copies(stored[q], k) \in Nat /\ Copies(queue[q], k) \in Nat
      BY <1>a, CopiesNat
    <3>4. Copies(stored'[q], k) = Copies(stored[q], k)
      BY <2>1
    <3>5. OneIf(Popping(q, k)') = OneIf(Popping(q, k)) /\ OneIf(Popping(q, k)) \in 0..1
      BY <2>2 DEF OneIf
    <3>6. Deliveries(q, k)' = Copies(stored'[q], k) + Copies(queue'[q], k) + 0
                                - OneIf(Popping(q, k)')
      BY <3>2 DEF Deliveries, OneIf, Copies, Positions
    <3>7. Deliveries(q, k) = Copies(stored[q], k) + Copies(queue[q], k) + 1
                               - OneIf(Popping(q, k))
      BY <3>2 DEF Deliveries, OneIf
    <3>8. Deliveries(q, k)' = Deliveries(q, k) /\ Deliveries(q, k) \in Int
      BY <3>1, <3>3, <3>4, <3>5, <3>6, <3>7
    <3> QED
      BY <1>b, <3>8, BudgetGrows
  <2> QED
    BY <2>4, <2>5
<1> QED
  BY <1>1, <1>2, <1>3, <1>4, <1>5, <1>6, <1>7 DEF Manager, Command

\* The workers' part: a copy is popped once it is stored, or a fault is to blame.
LEMMA CopiesWorker ==
  ASSUME TypeOK, TypeOK', NoIntegrityError,
         NEW q \in Queues, NEW k \in Keys, Deliveries(q, k) <= Budget(k),
         NEW p \in Queues, Worker(p) \/ DatastoreFails(p) \/ WorkerRefused(p)
  PROVE  Deliveries(q, k)' <= Budget(k)'
<1>a. /\ wpc \in [Queues -> WorkerPcs] /\ queue \in [Queues -> Seq(Keys)]
      /\ stored \in [Queues -> Seq(Keys)] /\ wkey \in [Queues -> Keys]
  BY DEF TypeOK
<1>b. Next
  BY DEF Next
<1>c. LeftToPush(q, k)' <=> LeftToPush(q, k)
  BY WorkerStep DEF LeftToPush, main
<1> DEFINE c == Copies(stored[q], k)
           d == Copies(queue[q], k)
           u == OneIf(LeftToPush(q, k))
           x == OneIf(Popping(q, k))
           y == OneIf(Popping(q, k)')
<1>d. /\ c \in Nat /\ d \in Nat /\ u \in 0..1 /\ x \in 0..1 /\ y \in 0..1
      /\ c + d + u - x <= Budget(k)
  BY <1>a, CopiesNat DEF Deliveries, OneIf
<1>e. Deliveries(q, k)' = Copies(stored'[q], k) + Copies(queue'[q], k) + u - y
  BY <1>c DEF Deliveries, OneIf, Copies, Positions
<1>f. Budget(k) \in Nat /\ Budget(k)' \in Nat /\ Budget(k) <= Budget(k)'
  BY <1>b, BudgetGrows
<1> HIDE DEF c, d, u, x, y
<1>1. CASE p # q
  <2>1. stored'[q] = stored[q]
    BY <1>a, <1>1 DEF Worker, Removal, CheckShutdown, PeekQueue, FetchEvent, DatastoreStores,
       DatastoreRefuses, DatastoreFails, PopKey, DecrementCount, DeleteEvent, WorkerRefused
  <2>2. wpc'[q] = wpc[q] /\ wkey'[q] = wkey[q] /\ queue'[q] = queue[q]
    BY <1>1, WorkerStep
  <2>3. Popping(q, k)' <=> Popping(q, k)
    BY <2>2 DEF Popping
  <2> QED
    BY <1>b, <1>c, <2>1, <2>2, <2>3, Quiet
<1>2. CASE /\ p = q
           /\ \/ CheckShutdown(q) \/ PeekQueue(q) \/ FetchEvent(q) \/ DatastoreRefuses(q)
              \/ \E reply \in BOOLEAN : DecrementCount(q, reply) \/ DeleteEvent(q, reply)
  <2>1. UNCHANGED <<stored, queue>> /\ wpc[q] # "lpop"
    BY <1>2 DEF CheckShutdown, PeekQueue, FetchEvent, DatastoreRefuses, DecrementCount,
       DeleteEvent, redis
  <2> QED
    BY <1>b, <1>c, <2>1, Quiet DEF Popping
<1>3. CASE p = q /\ WorkerRefused(q)
  <2>1. UNCHANGED <<stored, queue>> /\ faults' = faults + 1
    BY <1>3 DEF WorkerRefused, Answered, redis
  <2>2. faults' # faults
    BY <2>1, BoundsAssumption DEF TypeOK
  <2> QED
    BY <1>b, <1>c, <2>1, <2>2, Quiet
<1>4. CASE p = q /\ DatastoreStores(q)
  <2>1. /\ wpc[q] = "store" /\ stored'[q] = Append(stored[q], wkey[q])
        /\ queue' = queue /\ wkey' = wkey /\ wpc'[q] = "lpop"
    BY <1>a, <1>4 DEF DatastoreStores, Goto, redis
  <2>2. Copies(stored'[q], k) = c + y /\ x = 0
    BY <1>a, <2>1, CopiesAppend DEF c, x, y, Popping, OneIf
  <2>3. Copies(queue'[q], k) = d
    BY <2>1 DEF d
  <2> QED
    BY <1>d, <1>e, <1>f, <2>2, <2>3
<1>5. CASE p = q /\ DatastoreFails(q)
  <2>1. /\ stored'[q] \in {stored[q], Append(stored[q], wkey[q])} /\ wpc[q] = "store"
        /\ queue' = queue /\ faults' = faults + 1
    BY <1>a, <1>5 DEF DatastoreFails, Answered, redis
  <2>2. Copies(stored'[q], k) \in {c, c + 1} /\ x = 0
    <3>1. x = 0
      BY <2>1 DEF x, Popping, OneIf
    <3>2. CASE stored'[q] = stored[q]
      BY <3>1, <3>2 DEF c
    <3>3. CASE stored'[q] = Append(stored[q], wkey[q])
      <4>1. Copies(stored'[q], k) = c + OneIf(wkey[q] = k)
        BY <1>a, <3>3, CopiesAppend DEF c
      <4> QED
        BY <1>d, <3>1, <4>1 DEF OneIf
    <3> QED
      BY <2>1, <3>2, <3>3
  <2>3. Copies(queue'[q], k) = d
    BY <2>1 DEF d
  <2>4. Budget(k) + 1 <= Budget(k)'
    <3>1. faults' # faults
      BY <2>1, BoundsAssumption DEF TypeOK
    <3> QED
      BY <1>b, <3>1, BudgetGrows
  <2> QED
    BY <1>d, <1>e, <1>f, <2>2, <2>3, <2>4
<1>6. ASSUME p = q, NEW reply \in BOOLEAN, PopKey(q, reply)
      PROVE  Deliveries(q, k)' <= Budget(k)'
  <2>1. /\ wpc[q] = "lpop" /\ stored' = stored /\ wpc'[q] # "lpop"
        /\ queue' = [queue EXCEPT ![q] = IF @ = << >> THEN @ ELSE Tail(@)]
    BY <1>a, <1>6 DEF PopKey, GotoIfAnswered, Goto
  <2>2. queue[q] # << >> /\ Head(queue[q]) = wkey[q]
    BY <2>1 DEF NoIntegrityError
  <2>3. queue'[q] = Tail(queue[q])
    BY <1>a, <2>1, <2>2
  <2>4. Copies(queue'[q], k) = d - x /\ y = 0
    BY <1>a, <2>1, <2>2, <2>3, CopiesTail DEF d, x, y, Popping, OneIf
  <2>5. Copies(stored'[q], k) = c
    BY <2>1 DEF c
  <2> QED
    BY <1>d, <1>e, <1>f, <2>4, <2>5
<1> QED
  BY <1>1, <1>2, <1>3, <1>4, <1>5, <1>6 DEF Worker, Removal

LEMMA CopiesNext ==
  /\ TypeOK /\ TypeOK' /\ NoIntegrityError /\ OwnersInv /\ JoinedInv
  /\ CopiesInv /\ [Next]_vars
  => CopiesInv'
<1> SUFFICES ASSUME TypeOK, TypeOK', NoIntegrityError, OwnersInv, JoinedInv, CopiesInv,
                    [Next]_vars, NEW q \in Queues, NEW k \in Keys
             PROVE  Deliveries(q, k)' <= Budget(k)'
  BY DEF CopiesInv
<1>0. Deliveries(q, k) <= Budget(k)
  BY DEF CopiesInv
<1>1. CASE \/ Manager \/ ManagerRefused \/ Interrupt \/ Crash
           \/ \E e \in Keys : StoreEvent(e)
  BY <1>0, <1>1, CopiesManager
<1>2. ASSUME NEW p \in Queues, Worker(p) \/ DatastoreFails(p) \/ WorkerRefused(p)
      PROVE  Deliveries(q, k)' <= Budget(k)'
  BY <1>0, <1>2, CopiesWorker
<1>3. CASE UNCHANGED vars
  <2>1. UNCHANGED <<stored, queue, wpc, wkey, mgr, mgrKey, pos, submitted, crashes, faults>>
    BY <1>3 DEF vars, redis, main, threads, calls, bounds
  <2>2. Deliveries(q, k)' = Deliveries(q, k) /\ Budget(k)' = Budget(k)
    BY <2>1 DEF Deliveries, Budget, LeftToPush, Popping, Copies, Positions, OneIf
  <2> QED
    BY <1>0, <2>2
<1> QED
  BY <1>1, <1>2, <1>3 DEF Next

LEMMA CopiesInit == Init => JoinedInv /\ CopiesInv
<1> SUFFICES ASSUME Init PROVE JoinedInv /\ CopiesInv
  OBVIOUS
<1>1. JoinedInv
  BY DEF Init, JoinedInv
<1>2. ASSUME NEW q \in Queues, NEW k \in Keys PROVE Deliveries(q, k) <= Budget(k)
  <2>1. Positions(stored[q], k) = {} /\ Positions(queue[q], k) = {}
    BY DEF Init, Positions
  <2>2. Copies(stored[q], k) = 0 /\ Copies(queue[q], k) = 0
    BY <2>1, FS_EmptySet DEF Copies
  <2>3. ~LeftToPush(q, k) /\ ~Popping(q, k) /\ Budget(k) = 0
    BY DEF Init, LeftToPush, Popping, Budget
  <2> QED
    BY <2>2, <2>3 DEF Deliveries, OneIf
<1> QED
  BY <1>1, <1>2 DEF CopiesInv

\* However many datastores there are: a datastore receives an event again only
\* because the process died or something failed between storing and removing
\* it (storage.py:230-266).
THEOREM RepetitionsAreExplained == Spec => []RepetitionsNeedFaults
<1>1. Spec => [](JoinedInv /\ CopiesInv)
  <2>1. Spec => []JoinedInv
    BY CopiesInit, JoinedNext, TypeCorrect, PTL DEF Spec
  <2>2. Spec => []OwnersInv
    BY OwnersInit, OwnersNext, TypeCorrect, PTL DEF Spec
  <2> QED
    BY <2>1, <2>2, CopiesInit, CopiesNext, TypeCorrect, HeadStable, PTL DEF Spec
<1>2. ASSUME TypeOK, NoIntegrityError, CopiesInv, NEW q \in Queues, NEW k \in Keys
      PROVE  Copies(stored[q], k) <= submitted[k] + crashes + faults
  <2>1. stored[q] \in Seq(Keys) /\ queue[q] \in Seq(Keys) /\ wkey[q] \in Keys
    BY <1>2 DEF TypeOK
  <2>2. Copies(stored[q], k) \in Nat /\ Copies(queue[q], k) \in Nat
    BY <2>1, CopiesNat
  <2>3. OneIf(Popping(q, k)) <= Copies(queue[q], k)
    <3>1. CASE Popping(q, k)
      <4>1. queue[q] # << >> /\ Head(queue[q]) = k
        BY <1>2, <3>1 DEF NoIntegrityError, Popping
      <4>2. Tail(queue[q]) \in Seq(Keys)
        BY <2>1, <4>1
      <4>3. Copies(Tail(queue[q]), k) \in Nat
        BY <4>2, CopiesNat
      <4>4. Copies(Tail(queue[q]), k) = Copies(queue[q], k) - 1
        BY <2>1, <4>1, CopiesTail DEF OneIf
      <4> QED
        BY <2>2, <3>1, <4>3, <4>4 DEF OneIf
    <3>2. CASE ~Popping(q, k)
      BY <2>2, <3>2 DEF OneIf
    <3> QED
      BY <3>1, <3>2
  <2>4. OneIf(LeftToPush(q, k)) \in 0..1 /\ OneIf(Popping(q, k)) \in 0..1
    BY DEF OneIf
  <2>5. Deliveries(q, k) <= Budget(k)
    BY <1>2 DEF CopiesInv
  <2>6. Budget(k) \in Nat
    BY <1>2, BoundsAssumption DEF Budget, TypeOK
  <2>7. Copies(stored[q], k) <= Budget(k)
    BY <2>2, <2>3, <2>4, <2>5, <2>6 DEF Deliveries
  <2> QED
    BY <2>7 DEF Budget
<1>3. TypeOK /\ NoIntegrityError /\ CopiesInv => RepetitionsNeedFaults
  BY <1>2 DEF RepetitionsNeedFaults, Copies, Positions
<1> QED
  BY <1>1, <1>3, TypeCorrect, HeadStable, PTL

=============================================================================
