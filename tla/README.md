# pysparc in TLA+

pysparc reads the electronics of a HiSPARC cosmic-ray station over USB, makes
events of the messages, and uploads them (or stores them in a file). The
specifications here model its source (`src/`, Python 2), are checked by TLC on
small instances, and are in part proved with TLAPS. `PROJECT.json` lists every
run, every definition with the source lines it stands for, the hazards, the
findings and the theorems.

## 1. The system

    hardware --USB--> FtdiChip --> BaseHardware._buffer --> HisparcMessageFactory
                                                                  |
           main thread of bin/pysparc_daq:  read_message -> process_message
                                                                  |
       Stew (primary)  [Stew (secondary) -> Mixer]   <-- once a second: stir,
                                                         serve, mix, store, drain
                                                                  |
       StorageManager.store_event --> redis <-- StorageWorker threads
                                                  |             |
                                          NikhefDataStore   TablesDataStore

One main thread does everything up to redis, in a loop of "read one message,
run the jobs that are due". Each datastore has one worker thread. Monitor posts
run on threads of their own that share nothing. Redis, the HDF5 file and
`~/.pysparc` outlive the process; supervisord starts it again.

| Component | State | Operations | What is hard | What makes it correct |
|---|---|---|---|---|
| `StorageManager`, `StorageWorker` (storage.py 78-255) | per event a hash `event`/`count`; per datastore a list of keys; the threads; the shutdown signal | `add_datastore`, `store_event`, `close`; the worker's loop | redis commands of three threads interleave; crash, timeout or interrupt between any two; refused uploads; threads that die | accepted events reach every datastore, in order, at least once; the key at the front is the worker's; the counter deletes an event after the last removal, not before, and then does; closing ends |
| datastores (storage.py 258-696) | server, HDF5 file | `store_event`, `close` | errors of all kinds, answers that get lost | an event is stored, or an error is raised |
| `Stew` (events.py 36-226) | one-second messages, event messages, cooked events, counts, latest timestamp | `add_*`, `stir`, `serve_events`, `drain`, `event_rate` | messages out of order, missing, doubled, from a wrong clock | fresh events are neither lost nor doubled; complete ones are cooked at once; the rate counts its window |
| `Mixer` (events.py 229-268) | unmatched events of two detectors, pairs | `add_*`, `mix`, `serve_events` | partners served in different calls; two candidates for one partner | every coincidence is found, every event used once |
| `Event`, `FourChannelEvent`, `ConfigEvent` (events.py 271-465) | values of one event | analysis of traces | numeric edges | peaks and integrals as defined |
| message stream (messages.py, hardware.py 62-179) | `_buffer` | `read_into_buffer`, `flush_device`, `HisparcMessageFactory` | reads that cut messages, lost bytes, start codons inside data | whole messages come out once and in order; the factory resynchronises and returns |
| `FtdiChip` (ftdi_chip.py) | open device or none | `open`, `close`, `flush`, `read`, `write` | three tries, then a closed device | no use after close |
| `HiSPARCII/III`, `TrimbleGPS` (hardware.py 138-367) | device, config | reset, wait for data | time-outs | settings written again after a reset |
| program (bin/pysparc_daq) | jobs, time of last message, config file, worker threads | start-up, loop, watchdog, close | order of start-up and shutdown, exceptions anywhere, a crash or an exception while the file is written, silence | resources are released; settings survive, or their loss has one cause; silence, and silence only, leads to a reset; the station comes up again |
| `GPSMessage` (gps_messages.py) | buffer | framing, decoding | escaped DLEs cut by reads, a backlog of reports, lost bytes | a frame ends at the unescaped stop codon; reports come out as sent; the code is back in step after a loss |
| `Config`, util (config.py, util.py) | settings | write-through, trigger byte, mapping | ranges, rounding | round trips, results in range |
| alignment (align_adcs.py, bracket.py) | intervals of parallel finders, trigger condition | root finding in six stages | flat or noisy functions, time-outs, finders that are done and stepped again | the bracket keeps its root; the best setting is found; it ends |
| `Monitor` (monitor.py) | none | posts | values taken for others | a silent station is critical |
| Muonlab II (muonlab/, bin/muonlab_with_http_api) | device, three processes, pipe, table | read-out, HTTP query, shutdown | read errors, re-opening, stale read-outs, a full pipe | repetitions are bounded, answers are current, shutdown ends |

## 2. The modules

`EventStorage` is the core. A redis command is one step, since the server runs
commands one at a time and the code groups none; what the code does between two
commands has no effect that another thread sees and belongs to the step before
or after. `mgr` and `wpc` are the program counters of the main thread inside
`StorageManager` and of the workers. Correspondence:

| Code | Actions |
|---|---|
| `StorageManager.__init__`, `add_datastore` | `Start`, `AddDatastore` |
| `store_event`: key, `hmset`, `rpush`, `hincrby` | `StoreEvent`, `WritePayload`, `PushKey`, `IncrementCount` |
| an exception there (`store_events` logs it, from `store_config_event` it ends `run`) | `StoreEventRaises`, `ManagerRefused` |
| `KeyboardInterrupt`, `close` | `Interrupt`, `JoinWorker`, `Exit` |
| `StorageWorker.run` and what it calls | `CheckShutdown`, `PeekQueue`, `FetchEvent`, `DatastoreStores`, `DatastoreRefuses`, `DatastoreFails`, `PopKey`, `DecrementCount`, `DeleteEvent`, `WorkerRefused` |
| power cut, SIGKILL | `Crash` |

A command that may time out takes a `reply`: with `reply = FALSE` the server
executes it and the caller sees an exception. A refused connection is an action
of its own in which the command is not executed. Events are identified by their
key, the md5 of their pickled content, so two events of equal content are one
key; `MaxCopies` says how often each comes. What the real hash `count` holds
for a deleted key is 0, which is what `hincrby` makes of a missing field.
`uncounted` is a history variable: the keys whose counting was overtaken by a
removal, by a second event with the same content, or cut short by a fault. It
delimits what the upload counter can promise and what it cannot.

`Outbox` is the abstract specification: a line of accepted events, the front
one offered until it is delivered, and removed only then. `EventStorage` with
one datastore implements it, with the redis list as the line and the history
of the datastore as the deliveries.

`Stew` models `events.Stew` with the order in which `process_and_store_events`
calls it (`pc`). One-second messages are their timestamps and whether their tick
count is zero; an event is its second and its tick. The corrected trigger time
is left out. `Stew` is also the secondary's stew: the two share nothing.

`Mixer` models `events.Mixer`. The order of a Python 2 dictionary is arbitrary,
so `Mix` chooses one for the primary events, and for the secondary events when
the order decides which of them come before the `KeyError`. What the stews
serve is any set of events not served before (`ServedOnce` of `Stew`).

`MessageStream` models the way from the wire to the message. Bytes are classes;
each carries, as history, the number of its message and its place in it. A
measured-data message has one byte of size and a trace of that length, the other
two kinds are fixed. One turn of the factory's loop or recursion is one action,
so that its termination is a property and not an assumption.

`GpsFraming` models `TrimbleGPS.read_message`, in the same way and with one
difference that matters: a call of the GPS factory takes at most one report and
does not go on to the next, so that a backlog is worked off one call at a time.
The daemon opens, resets and flushes the GPS and never reads it; the programs that
do are `scripts/test_gps.py` and `test_timestamp_gps.py`, in endless loops which
an exception ends.

| Code | Definitions |
|---|---|
| the GPS, the driver's buffers, `flush_device` | `Frame`, `Send`, `Overrun`, `Flush` |
| `read_into_buffer`, then the factory | `ReadMessage` |
| `extract_message_from_buffer` | `StripGarbage`, `StopCodon`, `DLEsBefore`, `Squashed`, `ExtractFrom` |
| `GPSMessageFactory`, the constructors of the messages | `Outcome` |

`DataAcquisition` is the life of the daemon. It has the exceptions, interrupts
and crashes that the modules of the parts take as given, and says what is left of
the process and of `~/.pysparc` after them.

| Code | Actions |
|---|---|
| supervisord, or whoever starts the program after it gave up | `Start` |
| `PrimarySecondaryDataAcquisition`, then `PrimaryDataAcquisition`: devices opened in order, with `DeviceNotFoundError` and `DeviceError` | `Open`, `NotFound`, `Busy` |
| `configure_devices`, `align_adcs` | `Initialize` |
| `write_config`: the open that truncates, the lines written so far, the end of the write | `Truncate`, `Parts`, `WriteConfig` |
| `add_datastore`, once or twice | `AddDatastore` |
| `flush_devices`, `schedule_jobs` | `Begin` |
| the loop: `read_and_process_messages`, `run_pending` | `Read`, `EndJobs`, `Elapse` |
| `check_silent_devices`, `reset_devices` | `CheckSilent`, `ResetDevices` |
| `close` of the program and of its parts | `Close` |
| an exception or `KeyboardInterrupt` anywhere; a power cut | `Fail`, `Crash` |
| the electronics fall silent or talk again; a plug is pulled | `Toggle`, `Replug` |

The silence check is the one job with a timer of its own. The others are due so
often that any may be in a round, and what matters here is the time they take.
`loop` is a record of timers that nothing reads outside of the loop. Its
fields `lapsed`, `sinceRead` and `sinceReset` are history.

An exception or interrupt during `config.write` leaves the `with` block, which
closes the file with the lines that are in it: `Fail` leaves one of the `Parts`,
none of the file, `[DAQ]` with the flag `force_align_adcs` cleared and the name of
the station or not, and any of the sections of the devices behind it. A crash
leaves an empty file, because what is written is shorter than the buffer in front
of it. `broken` is history: which of the two has ever ended a write.

`Start` always comes: the configuration of supervisord asks for 30 s of running
before it takes a start for good and keeps its default number of retries, so that
after some quick failures it gives up until somebody starts the program by hand.

`Muonlab` models `bin/muonlab_with_http_api` down to the tries of `FtdiChip`. The
process `muonlab` is `Open`, `Configure`, `Check`, `ReadLifetimes`,
`ReadClosed`, `Store`, `Poll`, `Answer`; the HTTP process `Ask`, `Receive`,
`HttpEnds`; the main process `ShutDown`, `Join`. `data` keeps its value through
an error, as in the code, where nothing assigns it then.

`Settings` has the trigger byte and `map_setting` as operators over integers. The
code computes with floats and cuts off the result, so that `MapSettings` is a set
of outcomes: where the exact result is an integer and not at an end, a result a
rounding error below it is cut to one less. It is so for the time settings:
145 ns of 0..5000 come out as 28 of 0..1000, not as 29.
`Alignment`, which extends it, is `align()`: `Start`, then for each of its six
stages `MeasureEnds`, `Round` as often as it takes, and `NextStage` or `Finish`.
The mean of a measurement is a response of the hardware, a function from settings
to the sets of values a measurement may have; a stage chooses one for each of its
finders. `RaiseAtEnds`, `RaiseInRound` and `MeasurementTimesOut` are the
exceptions, after which the trigger condition stays at its calibration.

`MC*` modules give the constants of the runs values; `*Proofs` hold theorems.
Definitions called a *variant* in their comment are what a plausible mistake
would make of the definition below them; each of them is known to break the
property `PROJECT.json` names, which shows that the property depends on it.

## 3. The runs

| Run | Bounds | Shows |
|---|---|---|
| `storage_one_queue` | 2 events, 1 datastore, 1 crash, 1 interrupt, 1 fault | `TypeOK`, `NothingLost`, `RepetitionsNeedFaults`, implementation of `Outbox`, `QueuedIsDelivered`, `ShutdownCompletes` |
| `storage_two_queues` | 2 contents, one of them twice, 2 datastores, 1 crash | `NoIntegrityError`, `OnlyUncountedAreDropped`, `CountedEventsKeepTheirData`, `CountedEventsAreCleanedUp` |
| `storage_loss` | 1 event, 2 datastores | counterexample, see section 6 |
| `stew` | 6 seconds, 3 of them fresh, 3 events, rate over 4 seconds | `FreshSecondsKept`, `FreshEventsKept`, `FreshEventsAreCooked`, `ServedOnce`, `SumIsExact`, `CompleteIsServed` |
| `stew_jump` | the same | counterexample |
| `mixer` | 3 and 4 events, window of 3 ticks | `NoCoincidenceLeft`, `EachEventOnce`, `RaisesOnlyOnRivals` |
| `message_stream` | 3 messages of 4 to 7 bytes, 1 overrun, any reads and flushes | `CleanStreamIsRead`, `EachByteOnce`, `IntactIsFound`, `CallsReturn` |
| `stream_one_byte` | 1 message | counterexample |
| `gps_stream` | 3 reports of 3 bytes (7 escaped and framed), 1 overrun, any reads and flushes | `CleanStreamIsRead`, `BackInStep`, `BacklogIsRead` |
| `daq` | 2 exceptions, interrupts or crashes, 1 plug pulled or put in; 2 units of grace and of silence, 3 between checks | what survives (`OrphansOnlyTwice`, `RunsAsSaved`, `RunsAligned`), what is reset (`TalkersAreSpared`, `ResetsAreSpaced`, `SilenceIsNoticed`), and `StationComesUp` |
| `muonlab` | 2 read-outs, 6 failed tries, answers of more than 1 row fill the pipe | `RepetitionsAreBounded`, `FakesNeedMissingDevice`, `AnswersAreCurrent`, `EverybodyEnds` |
| `alignment` | settings 0..6, 10 responses, 1 finder or 2 in parallel | `LinearFindsBest`, `RootIsKept`, `AlignmentEnds` |

Three more configurations reproduce findings of section 6 and are kept beside
the runs: `StorageLeak.cfg` and `StorageWorkerDies.cfg` for `MCEventStorage`,
`StreamStuck.cfg` for `MCMessageStream`.

Why the bounds are enough. Storage: a worker handles one key at a time, so two
events are what it takes to have one at the front and one behind it, or one
being counted and one being removed; a fault or crash may fall between any two
commands, and starting with what an earlier process left in redis is reached
through `Crash` and `Interrupt`. Two datastores are the most the daemon ever has. Stew: an
event looks at three seconds, the freshness window and the rate window end
inside the six, so that every second is needed, fresh, stale and forgotten at
some time. Mixer: ties, rivals, near misses and events alone all occur. Stream:
a damaged message, one behind it that it may swallow, and one behind that. The
same three do for the GPS, whose reports here hold an escaped DLE before an ETX
and before the identifier of a command. `daq`: two failures are one during
start-up and one more during what answers the first, such as an interrupted write
and the next start. Its times keep the order of the code's: grace and limit are
equal, and shorter than the time between checks. `muonlab`: three failed tries
close the chip, so that six are two ReadErrors; the second read-out shows what
is stale. `alignment`: a line may have its root on a setting, between two,
halfway, at an end or nowhere, and seven settings leave room for several rounds.

`storage_two_queues` allows a crash but no faults, which TLC needs to end within
minutes; one datastore has all three kinds.

Fairness. `EventStorage`: `WF` of the main thread's and of each worker's steps
(threads are scheduled, commands answered or refused), with `Start` among them
because supervisord starts the program again, and `SF` of `DatastoreStores`: an
upload that is tried again and again succeeds in the end. `StoreEvent` has no
fairness: the hardware need not send anything. `Stew`: `WF` of the job that
`schedule` runs every second; none for messages. `MessageStream`: `WF` of the
factory's turns; none for the hardware or for reads. `GpsFraming`: `WF` of the
reads of the scripts' endless loops, and of what the device has being read in the
end; none for the GPS, nor for a flush, because nothing starts a script again that
an exception has ended: `BacklogIsRead` allows for that end. `DataAcquisition`: `WF` of the steps of
start-up, of the loop, of closing, and of time; none for failures, plugs or the
electronics. `Muonlab`: `WF` of each process, and of the main process noticing
that another has ended; none for requests, interrupts or plugs. `Alignment`: `WF`
of each step, since `align()` runs until it returns and each wait has a timeout;
a timeout itself need never come. Deadlock is checked
wherever the system cannot stop; the exceptions say why in their `.cfg`.

## 4. The proofs

Every invariant and every action property that the passing runs check is also a
theorem, and so is the refinement of `Outbox`. The theorems are
for arbitrary constants within the named assumptions: any keys, queues and
numbers of copies, crashes, interrupts and faults (`WorkersAssumption`,
`BoundsAssumption`); any timestamps, events and windows (`TimesAssumption`,
`EventsAssumption`, `FreshnessAssumption` of `Stew`, `MixerAssumption`); any
messages that have the layout the program expects, traces of any bytes
(`MessagesAssumption`, `StreamBoundsAssumption`); any reports that begin with
neither a DLE nor an ETX, as no identifier does, nor are one of the commands that
only the program sends (`ReportsAssumption`, `GpsBoundsAssumption`); any limits of time
of which the shorter ones are shorter than the time between checks, as they are in the
code (`TimesAssumption` of `DataAcquisition`, `DaqBoundsAssumption`); any size of
the pipe and number of errors (`MuonlabBoundsAssumption`); any highest setting,
finders and responses (`AlignmentAssumption`). The run of each module checks
its assumptions for the values it uses.

Seldom is a property inductive. What follows names the invariant that is, and
says why it is needed.

**Storage** (`EventStorageProofs`). `TypeCorrect` goes action by action.
`HeadStable` (`NoIntegrityError`, any number of datastores): a worker that is past
`lindex` has its key at the front. The only steps that change a queue are
`rpush`, which keeps the head of a list that is not empty (`AppendKeepsHead`),
and the `lpop` of the one worker of that queue, for which `Workers` must be
without repetition, add_datastore's "unique name for the queue".

`AcceptedIsKept` and `Refinement` hold under `OneDatastore`: one worker, and
`MaxCopies[k] <= 1` for every key. A worker that finds no hash drops the key, so
one has to know that the hash is there. The invariant `Inv` adds to the types and
`NoIntegrityError` that a key being stored is in no queue before its `rpush`
(`Fresh`), that every key in the queue, up to the one being removed, has its hash
(`HasData`), that a key on its way out is in the datastore (`Taken`), and that
accepted keys are in the queue or stored (`Kept`). `rpush` is `Accept`, storing
is `Deliver`, `lpop` is `Acknowledge`, and all else stutters. Both fail for two
datastores, and `storage_loss` shows how.

**The upload counter** (also in `EventStorageProofs`), for any number of datastores. The
counter is meant to be the number of queues that hold a key. It is exactly that
only between whole operations and without faults; at all other times the proof
needs, for each key that is not `uncounted` (`CounterInv`): that the key is in a
queue once at most and not behind its own removal (`OnceInv`), that the counter is
at least the number of its `Holders`, and while `store_event` counts is what it
has counted, so that nobody removed anything yet (`CountInv`), and that the data
are there while anybody holds the key (`DataInv`). `CounterProtects` and
`CounterCleansUp` are read off; `DropsAreStored` adds that what a worker pops is
stored (`DroppedInv`). `RepetitionsAreExplained` is a potential: the copies a
datastore has, plus those in its queue, plus the one `store_event` has still to
push, minus the one that is about to be popped (`Deliveries`), never exceed the
submissions, crashes and faults (`Budget`). No step but those three raises it.

**Stew** (`StewProofs`). `FreshSecondsKept`, `FreshEventsKept`,
`FreshEventsAreCooked` and `ServedOnce` from one another and the types: the clock
never goes back, so what is stale stays stale, and draining takes nothing else.
`RateIsExact` is about the sum that `event_rate` takes of *all* its counts: a drain
makes it the number of accepted events of the window, and until the next drain it
grows by one for each accepted event and by nothing else, although a new
one-second message may meanwhile have moved seconds out of the window. In the
window the counts are right second by second (`WindowIsCounted`): only finitely many
events have arrived, one more is one more in its own second and in no other
(`OneMoreEvent`, `OneMoreCount`), and a second that drain throws away has left the
window for good. After a drain no other second has a count (`DrainedSum`), and the
sum of the counts is the number of events by a bijection (`SumOfCounts`).

**Mixer** (`MixerProofs`). `TypesKept` contains that the dictionaries are finite,
which the nearest partner needs (`PartnerIsNearest`); the model says so of what
is added. `EventsUsedOnce`: what waits was never paired. `NothingMissed` rests on
`Mix` going through all of one side, `OnlyRivalsRaise` on the two secondary events
that want the same primary event still being there when the second is looked up.

**Message stream** (`MessageStreamProofs`). `buffer` and `wire` are one sequence,
`Rest`, that reads only divide differently. Every step does one of five things to
it (`StepCases`): nothing; it appends a message; it drops a piece, whose messages
are then damaged; the factory strips the front up to a start codon, because the
front is a `Misfit`; or it takes a frame that `Fits`. `OwnInv` says that each byte
is one that was sent, in its place, and `OrderInv` that all are in the order in
which they were sent, within and across what was returned; a cut preserves both,
and `BytesUsedOnce` is the latter. For the other two theorems the point is that
a message all of whose bytes are there, and whose first byte is at the front, is
at the front as a whole (`HeadIsWhole`, by the least place where it is not) and
that the factory then neither strips it nor takes a frame of another length
(`HeadFits`). `IntactSurvives` (`FoundInv`): whatever is stripped or taken either
spares a message that is all there or begins with it, or is a frame that began in
an earlier one, which is the case that `IntactIsFound` allows. `CleanIsRead`
(`CleanInv`): as long as nothing is dropped the front is always the first message
not returned (`CleanHead`), so that nothing is stripped at all. `CallsGetShorter`
is the measure behind `CallsReturn`: each turn of the factory that is not the last
of its call takes a byte off the front (`CutsOff`). That a turn is always possible,
and so that the call does return, is left to TLC.

**GPS framing** (`GpsFramingProofs`). Two facts about the pure functions come
first, for reports of any length. What is escaped reads as it was (`SquashedEscaped`),
and in a frame no ETX but the last is a stop codon, wherever what comes before the
frame was cut (`FrameStops`). Both go along the bytes with the parity of the run
of DLEs before each (`OddFirst`, `OddNext`; `EscapedLayout` has each byte of the
report at its place in the frame). No induction rule can be used, so each claim
is shown for the least place where it fails (`LeastNatural`). `CleanIsRead`
(`CleanInv`): what is left of the stream is the frames of the reports not yet
extracted. `InStepAgain` (`BackInv`): an undamaged report is there as a whole or
no byte of it is left (`WholeInv`); a frame that is taken ends with the first
report that is whole, or before it, or in the garbage between them. So of two
whole reports in a row the first brings the factory back in step (`BackNext`),
also when it is itself swallowed by what was broken before it, and the second is
taken from its first DLE to its last ETX (`TakenWhole`).

**Program** (`DataAcquisitionProofs`). `OrphansKnown` needs how many workers run
at each step of start-up and closing (`WorkersAtSteps`, part of `TypeInv`).
`SettingsSurvive` and `DataAreAligned` share `DiskInv`: the file differs from the
configuration only up to its write, an identity is lost only to a broken write
(`SavedInv`), and a file, or a configuration, that lacks the alignment of the
primary (`PrimaryInv`), or of a secondary that was in from the start (`AlignedInv`),
forces one, unless an exception has broken a write (`PartsTypes` says what that
leaves). `DataAreAligned` is thus what is left to promise: a crash at any point,
and an exception at any point but that one, costs no alignment. `SilentOrUnread`
compares timers: the age of the last message of a device that never fell silent is
at most the time since the loop last read (`AgesInv`). `GraceAfterReset`: what has passed of the
check's period has passed since the last reset (`PeriodInv`).

**Muonlab** (`MuonlabProofs`). `RepetitionsBounded`: the rows that hold a read-out
and those that `Owed` says are still to come do not exceed the bound; what is
owed depends on the step and on whether the chip was closed. `AnswersUpToDate`
(`PipeInv`): one request is under way, in the pipe, at the other process, or
answered, and an answer is at least as long as the table was when it was asked for.
`FakesExplained` (`FakeInv`): only an open without a device makes a fake chip.

**Settings and alignment** (`AlignmentProofs`). `TriggerRoundTrip`: a trigger
condition is read from its byte as it was written exactly if it is `Codable`;
"exactly" is finding 8. `SettingInRange`: whatever the value, a mapped setting is
in the range of the device, never above the exact value and at most one step below
it, however the float was rounded. Both are about pure functions and have no
invariant.
`BracketsKept` is the types of `Alignment`, among them that each finder of a stage
has values of both signs, or zero, at the ends of its interval; each step of a
finder replaces one end by its last guess and goes through the test of
`_set_interval`. `NoiseCostsNoRoot` (`RootIsKept`) follows from it and
`LossNeedsTargetAtEnd`, a case analysis of the one bracket that a measurement can
break. `LinesAreSolved` (`LinesInv`): while a channel's response is a line, both
ends of its interval are points of it and its guess is close: twice the value
there is at most the slope. Rounding an interpolated setting gives such a guess
(`GuessIsClose`), and no setting has a smaller value than a close one
(`CloseIsBest`), whichever ends the finder kept and whatever the others measured.

Only model-checked: liveness, which is outside this prover's reach
(`QueuedIsDelivered`, `ShutdownCompletes`, `CompleteIsServed`, `CallsReturn`,
`BacklogIsRead`, `StationComesUp`, `SilenceIsNoticed`, `EverybodyEnds`,
`AlignmentEnds`). The counterexamples of section 6 are runs, too: of a property
that does not hold there is nothing to prove.

## 5. Not modelled

The contents of events (traces, pulse heights, the corrected trigger time), the
values in the fields of messages, the formats of uploads and HDF5 rows, logging,
burning firmware, the flask pages, the scripts and the provisioning. They are
arithmetic on one event, layout or fixed sequences of output, without state that
another part reads. `Event` and `FourChannelEvent` (peaks, integrals, baselines
by numpy) and `Monitor` (posts of values, on threads that share nothing) have no
module for that reason. The coincidence measurement of the Muonlab is used by no
program of the repository. The bisecting root finder is used by its subclass
only. In `Alignment` the mean over a trace, or two, and the other
settings that a stage leaves as they are, are part of what a response stands for.

In `EventStorage` the program is constructed in one piece; what a failure in
between leaves is in `DataAcquisition`. Retries inside redis-py are left out; the
program is assumed to be the only one that uses its queues. `NikhefDataStore` returns
normally for an event that a firewall rejects (storage.py 679-683) and
`TablesDataStore` for one that is no `Event` (351): both are `DatastoreStores`.

## 6. Findings

1. With two datastores an accepted event can be lost (`storage_loss`): `rpush`
   and `hincrby` alternate over the queues, and a quick worker brings the counter
   to zero before the next queue has the key.
2. An event can stay in redis for ever (`StorageLeak.cfg`): the decrement comes
   between `rpush` and `hincrby`.
3. Exceptions that are no `StorageError` end a worker thread, against the
   docstring (`StorageWorkerDies.cfg`).
4. A one-second message from the far future leaves the stew deaf (`stew_jump`).
5. `0x99 0x35` in the stream stops the factory for ever (`StreamStuck.cfg`).
6. A read that ends after a start codon ends the program (`stream_one_byte`).
7. A silent station has the event rate -999.0, not 0.0, and is reported as OK
   (events.py 191-193, monitor.py 65-70).
8. Four detectors over the low *and* some over the high threshold have the byte
   of a condition with *or* (config.py 148; theorem `TriggerRoundTrip`).
9. An odd number of bytes from the Muonlab is an IndexError where the docstring
   promises a ValueError; either ends the process (muonlab_ii.py 169).

What the passing runs show is not always what one would wish for. A main thread
that ends can leave workers behind that keep the process alive, so that nobody
starts it again: if the file store cannot be added, and if closing the primary
fails (`OrphansOnlyTwice`, and the exception in `StationComesUp`). An interrupted
`write_config` costs the station its identity (`RunsAsSaved`). If it is an exception
or `KeyboardInterrupt` that interrupts it, the file can say that no alignment is
needed and lack the aligned settings: the next start takes data with those of
`config.ini` (`RunsAligned` excepts it, and names it), as it does with a secondary
that is plugged in after the alignment. Time settings may be sent 5 ns too short
(`SettingInRange`). Keys of which the counting was overtaken, reset or cut short are
excepted from the properties of the upload counter; findings 1 and 2 are theirs.
A one-second message with a tick count of zero, a `ResetMessage` found in a
damaged stream, a worker that dies and an event that the server refuses for ever
are steps of the models or excluded by fairness, and allowed for by the
properties, since the code has no answer to them. Hardware that
talks is reset when jobs keep the loop from reading for longer than the limit
(`TalkersAreSpared`). A read-out of the Muonlab is stored up to twice more per
ReadError (`RepetitionsAreBounded`), lifetimes made up by `FakeMuonlabII` go into
the table of the real ones when the device is missing at a re-open
(`FakesNeedMissingDevice`), and the program hangs when a large answer has lost its
reader (`EverybodyEnds`). The alignment can lose its root to noise in one case
(`RootIsKept`), and any exception in it leaves the hardware in calibration mode
until the next configuration.

## 7. Plan

Every safety property that the passing runs check has its theorem. What could be
added, in this order:

1. Measures for the other liveness properties, as `CallsGetShorter` is one for
   `CallsReturn`: that a step of `GpsFraming`, `Alignment` or the start-up of
   `DataAcquisition` makes something smaller is a property of steps, which can be
   proved though the liveness that follows from it cannot.
2. The coincidence measurement of the Muonlab and the burning of the firmware, if
   a program of the repository comes to depend on what they leave behind.
