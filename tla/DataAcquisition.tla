-------------------------- MODULE DataAcquisition --------------------------
(***************************************************************************)
(* The life of bin/pysparc_daq: start-up step by step, the loop that reads *)
(* messages and runs the scheduler's jobs, the watchdog that resets silent *)
(* hardware, closing down, and the next start of the program when its      *)
(* process has ended: by supervisord, or by whoever runs it by hand after  *)
(* supervisord has given up.                                               *)
(*                                                                         *)
(* Time passes in units; a timer is kept as the time since or until, up to *)
(* where it makes no more difference.  Of the scheduler's jobs the silence *)
(* check has a timer; the others are due so often that any of them may be  *)
(* in a round, and are time that passes before the check.  What they do to *)
(* stews, mixer and storage is in Stew, Mixer and EventStorage.            *)
(***************************************************************************)
EXTENDS Integers

CONSTANTS
  Grace,       \* time the hardware is given to start up (20 s)
  SilenceLimit, \* time without a message after which it is silent (20 s)
  CheckPeriod, \* time between two checks (30 s)
  MaxFaults,   \* bound: exceptions, interrupts and crashes
  MaxReplugs   \* bound: times a device is plugged in or out

ASSUME TimesAssumption ==
  /\ Grace \in Nat /\ SilenceLimit \in Nat /\ CheckPeriod \in Nat
  /\ Grace < CheckPeriod /\ SilenceLimit < CheckPeriod

ASSUME DaqBoundsAssumption == MaxFaults \in Nat /\ MaxReplugs \in Nat

Devices == {"primary", "secondary"}

VARIABLES
  \* the machine
  plugged, \* devices on the bus, the GPS among them
  file,    \* ~/.pysparc: does it still name the station (identity), does it
           \* force an alignment, and whose settings are aligned
  \* the process
  pc,      \* what the main thread does next
  both,    \* is it a PrimarySecondaryDataAcquisition?
  open,    \* devices the process has opened
  config,  \* the configuration in memory, as file
  workers, \* storage workers running and not told to end
  loop,    \* the data taking, a record:
    \* talking: devices that send messages, at least one per read
    \* age: now - t_last_msg, now - t_last_secondary_msg
    \* wait: time until the next silence check
    \* due: is the check in this round of jobs?
    \* lapsed: devices that stopped talking since their last message was read
    \* sinceRead: time since messages were last read
    \* sinceReset: time since the run began or the hardware was last reset
  \* history
  failedAt,   \* where the last exception or interrupt struck
  broken,     \* what has ended a write of the file: "fail", "crash"
  faults, replugs

\* Outside of the data taking nothing reads the record.
Idle ==
  [talking |-> {}, age |-> [d \in Devices |-> 0], wait |-> 0, due |-> FALSE,
   lapsed |-> {}, sinceRead |-> 0, sinceReset |-> 0]

process == <<both, open, config, workers>>
history == <<failedAt, broken, faults, replugs>>
vars == <<plugged, file, pc, process, loop, history>>

InUse == IF both THEN Devices ELSE {"primary"}

InLoop == pc \in {"read", "jobs", "reset"}

\* What ConfigParser finds in ~/.pysparc if it is empty: the defaults.
Defaults == [identity |-> FALSE, forced |-> TRUE, aligned |-> {}]

Init ==
  /\ plugged \in {Devices \cup {"gps"}, {"primary", "gps"}}
  /\ file = [Defaults EXCEPT !.identity = TRUE]
  /\ pc = "ended" /\ both = TRUE /\ open = {} /\ config = Defaults /\ workers = 0
  /\ loop = Idle
  /\ failedAt = "nowhere" /\ broken = {} /\ faults = 0 /\ replugs = 0

----------------------------------------------------------------------------
(* Starting up.                                                            *)

\* A start waits for the end of the process, which lives as long as a thread does.
Start ==
  /\ pc = "ended" /\ workers = 0
  /\ pc' = "open_secondary" /\ both' = TRUE /\ open' = {}
  /\ config' = file
  /\ failedAt' = "nowhere"
  /\ UNCHANGED <<plugged, file, workers, loop, broken, faults, replugs>>

\* One step of the constructors; exceptions are steps of their own.
Step(from, to) == pc = from /\ pc' = to /\ UNCHANGED <<plugged, loop, history>>

\* HiSPARCIII(), or else HiSPARCII(); TrimbleGPS().
Open(d, from, to) ==
  /\ d \in plugged \ open
  /\ open' = open \cup {d}
  /\ Step(from, to)
  /\ UNCHANGED <<both, config, workers, file>>

\* Variant: nothing is tried after a DeviceNotFoundError.
NotFoundAtAll(d, from) ==
  /\ d \notin plugged
  /\ Step(from, "ended")
  /\ UNCHANGED <<process, file>>

\* DeviceNotFoundError: the primary alone is tried.  The traceback keeps what
\* the first attempt has opened.
NotFound(d, from) ==
  /\ d \notin plugged
  /\ both' = FALSE
  /\ config' = file
  /\ Step(from, IF both THEN "open_primary" ELSE "ended")
  /\ UNCHANGED <<open, workers, file>>

\* DeviceError: the device is open already, in the first attempt.
Busy(d, from) ==
  /\ d \in plugged \cap open
  /\ Step(from, "ended")
  /\ UNCHANGED <<process, file>>

Reach(d, from, to) == Open(d, from, to) \/ NotFound(d, from) \/ Busy(d, from)

\* Variant: the primary alone is aligned.
InitializePrimary ==
  /\ config' = [config EXCEPT !.forced = FALSE, !.aligned = @ \cup {"primary"}]
  /\ Step("initialize", "write")
  /\ UNCHANGED <<both, open, workers, file>>

\* configure_devices, reset_defaults of the GPS, align_adcs.
Initialize ==
  /\ config' = IF config.forced
               THEN [config EXCEPT !.forced = FALSE, !.aligned = @ \cup InUse]
               ELSE config
  /\ Step("initialize", "write")
  /\ UNCHANGED <<both, open, workers, file>>

\* write_config: open(CONFIGFILE, 'w') empties the file.
Truncate ==
  /\ file' = Defaults
  /\ Step("write", "writing")
  /\ UNCHANGED process

\* What the lines of a configuration that are written so far mean to the next
\* start.  [DAQ] comes first, and its flags before the name of the station;
\* then the sections of the devices, in an order that depends on their type.
Parts(c) ==
  {Defaults, [c EXCEPT !.identity = FALSE, !.aligned = {}]}
    \cup {[c EXCEPT !.aligned = a] : a \in SUBSET c.aligned}

\* Variant: the flags are cleared after the file is written.
WriteConfigFirst ==
  /\ file' = [config EXCEPT !.forced = TRUE]
  /\ Step("writing", "storage")
  /\ UNCHANGED process

WriteConfig ==
  /\ file' = config
  /\ Step("writing", "storage")
  /\ UNCHANGED process

\* add_datastore starts a worker; the file store is optional.
AddDatastore(from, to, n) ==
  /\ workers' = workers + n
  /\ Step(from, to)
  /\ UNCHANGED <<both, open, config, file>>

\* flush_devices and schedule_jobs.  Opening was any time ago.
Begin ==
  /\ pc = "flush" /\ pc' = "read"
  /\ \E a \in -Grace..(SilenceLimit + 1), T \in SUBSET InUse :
       loop' = [Idle EXCEPT !.talking = T, !.lapsed = InUse \ T,
                            !.age = [d \in Devices |-> a], !.wait = CheckPeriod]
  /\ UNCHANGED <<plugged, file, process, history>>

StartUp ==
  \/ Start
  \/ Reach("secondary", "open_secondary", "open_primary")
  \/ Reach("primary", "open_primary", "open_gps")
  \/ Reach("gps", "open_gps", "initialize")
  \/ Initialize \/ Truncate \/ WriteConfig
  \/ AddDatastore("storage", "filestore", 1)
  \/ \E n \in 0..1 : AddDatastore("filestore", "flush", n)
  \/ Begin

----------------------------------------------------------------------------
(* Taking data.                                                            *)

Go(from, to, newLoop) ==
  /\ pc = from /\ pc' = to
  /\ loop' = newLoop
  /\ UNCHANGED <<plugged, file, process, history>>

\* Variant: the secondary is not read.
ReadPrimary ==
  LET heard == {"primary"} \cap loop.talking
  IN  Go("read", "jobs",
         [loop EXCEPT !.age = [d \in Devices |-> IF d \in heard THEN 0 ELSE @[d]],
                      !.sinceRead = 0,
                      !.due = loop.wait = 0])

\* read_and_process_messages, and run_pending, which first collects the jobs
\* that are due.
Read ==
  LET heard == InUse \cap loop.talking
  IN  Go("read", "jobs",
         [loop EXCEPT !.age = [d \in Devices |-> IF d \in heard THEN 0 ELSE @[d]],
                      !.lapsed = @ \ heard,
                      !.sinceRead = 0,
                      !.due = loop.wait = 0])

\* Variant: all devices must be silent, not one of them.
SilentAll == \A d \in InUse : loop.age[d] > SilenceLimit

Silent == \E d \in InUse : loop.age[d] > SilenceLimit

\* The end of a round without a check, or with one that finds nothing.
EndJobs ==
  /\ loop.due => ~Silent
  /\ Go("jobs", "read",
        [loop EXCEPT !.wait = IF loop.due THEN CheckPeriod ELSE @, !.due = FALSE])

\* check_silent_devices.
CheckSilent == loop.due /\ Silent /\ Go("jobs", "reset", loop)

\* Variant: the next check is a full period after the last was due.
ResetDevicesCatchUp ==
  Go("reset", "read", [loop EXCEPT !.due = FALSE, !.sinceReset = 0])

\* reset_devices, after which the scheduler sets the time of the next check.
\* t_last_msg stays as it is.
ResetDevices ==
  Go("reset", "read",
     [loop EXCEPT !.wait = CheckPeriod, !.due = FALSE, !.sinceReset = 0])

UpTo(n, limit) == IF n < limit THEN n + 1 ELSE n

\* Jobs, messages and waiting for bytes take their time.
Elapse ==
  /\ InLoop
  /\ Go(pc, pc, [loop EXCEPT
        !.age = [d \in Devices |-> UpTo(@[d], SilenceLimit + 1)],
        !.wait = IF @ > 0 THEN @ - 1 ELSE 0,
        !.sinceRead = UpTo(@, SilenceLimit + 1),
        !.sinceReset = UpTo(@, CheckPeriod)])

\* The electronics fall silent or come back.
Toggle(d) ==
  /\ InLoop
  /\ Go(pc, pc, IF d \in loop.talking
                THEN [loop EXCEPT !.talking = @ \ {d}, !.lapsed = @ \cup {d}]
                ELSE [loop EXCEPT !.talking = @ \cup {d}])

TakeData ==
  Read \/ EndJobs \/ CheckSilent \/ ResetDevices \/ Elapse
    \/ \E d \in InUse : Toggle(d)

----------------------------------------------------------------------------
(* Ending.                                                                 *)

Closing(from, to, left) ==
  /\ workers' = left
  /\ Step(from, to)
  /\ UNCHANGED <<both, open, config, file>>

\* app.close(): hardware first, then StorageManager.close, the datastore and
\* the secondary.
Close ==
  \/ Closing("close_primary", "close_storage", workers)
  \/ Closing("close_storage", "close_rest", 0)
  \/ Closing("close_rest", "ended", workers)

\* Variant: app.close() is not in a finally clause.
FailUnclosed ==
  /\ pc # "ended" /\ faults < MaxFaults
  /\ faults' = faults + 1
  /\ failedAt' = pc
  /\ pc' = "ended"
  /\ loop' = Idle
  /\ UNCHANGED <<plugged, file, process, broken, replugs>>

\* An exception, or an interrupt.  The with block closes the file, and with it
\* come the lines written so far.  app.close() is called if the constructor
\* was left; in StorageManager.close all workers are told before one is joined.
Fail ==
  /\ pc # "ended" /\ faults < MaxFaults
  /\ faults' = faults + 1
  /\ failedAt' = pc
  /\ IF pc = "writing"
     THEN file' \in Parts(config) /\ broken' = broken \cup {"fail"}
     ELSE UNCHANGED <<file, broken>>
  /\ pc' = IF InLoop \/ pc = "flush" THEN "close_primary" ELSE "ended"
  /\ workers' = IF pc = "close_storage" THEN 0 ELSE workers
  /\ loop' = Idle
  /\ UNCHANGED <<plugged, both, open, config, replugs>>

\* The power fails, or the process is killed.  The file is shorter than the
\* buffer in front of it: nothing of it is on disk before it is closed.
Crash ==
  /\ pc # "ended" \/ workers > 0
  /\ faults < MaxFaults
  /\ faults' = faults + 1
  /\ broken' = IF pc = "writing" THEN broken \cup {"crash"} ELSE broken
  /\ pc' = "ended" /\ workers' = 0
  /\ loop' = Idle
  /\ UNCHANGED <<plugged, file, both, open, config, failedAt, replugs>>

Replug(d) ==
  /\ replugs < MaxReplugs
  /\ replugs' = replugs + 1
  /\ plugged' = IF d \in plugged THEN plugged \ {d} ELSE plugged \cup {d}
  /\ UNCHANGED <<file, pc, process, loop, failedAt, broken, faults>>

Next ==
  StartUp \/ TakeData \/ Close \/ Fail \/ Crash
    \/ \E d \in Devices \cup {"gps"} : Replug(d)

\* The program is started again, the main thread runs, and time passes.
Fairness ==
  /\ WF_vars(StartUp) /\ WF_vars(Close)
  /\ WF_vars(Read) /\ WF_vars(EndJobs \/ CheckSilent) /\ WF_vars(ResetDevices)
  /\ WF_vars(Elapse)

Spec == Init /\ [][Next]_vars /\ Fairness

----------------------------------------------------------------------------
Configs == [identity : BOOLEAN, forced : BOOLEAN, aligned : SUBSET Devices]

Loops ==
  [talking : SUBSET Devices, lapsed : SUBSET Devices,
   age : [Devices -> -Grace..(SilenceLimit + 1)],
   wait : 0..CheckPeriod, due : BOOLEAN,
   sinceRead : 0..(SilenceLimit + 1), sinceReset : 0..CheckPeriod]

TypeOK ==
  /\ plugged \subseteq Devices \cup {"gps"}
  /\ file \in Configs /\ config \in Configs
  /\ pc \in {"ended", "open_secondary", "open_primary", "open_gps",
             "initialize", "write", "writing", "storage", "filestore",
             "flush", "read", "jobs", "reset",
             "close_primary", "close_storage", "close_rest"}
  /\ both \in BOOLEAN /\ open \subseteq Devices \cup {"gps"}
  /\ workers \in 0..2
  /\ loop \in Loops
  /\ broken \subseteq {"fail", "crash"} /\ faults \in 0..MaxFaults /\ replugs \in 0..MaxReplugs

\* A main thread that has ended leaves workers behind, which keep the process
\* alive and prevent the next start, in two cases only: the file store could not
\* be added, or closing the primary failed (pysparc_daq:50-59, 208-212).
OrphansOnlyTwice ==
  pc = "ended" /\ workers > 0 => failedAt \in {"filestore", "close_primary"}

Running == InLoop \/ pc \in {"storage", "filestore", "flush"}

\* Whatever was interrupted before, a program that takes data has on disk what
\* it runs with and forces no alignment at its next start; and only an
\* interrupted or crashed write has ever cost the identity of the station
\* (pysparc_daq:71-84, 203-206).
RunsAsSaved ==
  /\ Running => file = config /\ ~file.forced
  /\ ~file.identity /\ pc # "writing" => broken # {}

\* Data are taken with an unaligned device after one of two things only, however
\* often start-up has failed or crashed before: an exception or interrupt in the
\* middle of a write, which saves that no alignment is needed and not the
\* settings; or plugging, after the alignment, a secondary that was not in.  A
\* crash in the same place is harmless: the empty file forces an alignment
\* (pysparc_daq:79-84, 203-206, 325-330).
RunsAligned ==
  Running => \A d \in InUse \ file.aligned :
               "fail" \in broken \/ (d = "secondary" /\ replugs > 0)

\* Hardware that never stopped talking is reset only if the jobs kept the loop
\* from reading for longer than the limit (pysparc_daq:110-112, 178-181).
TalkersAreSpared ==
  [][CheckSilent => \/ InUse \cap loop.lapsed # {}
                    \/ loop.sinceRead > SilenceLimit]_vars

\* Hardware that was just reset is given the time to start up, as it is given
\* at the start (pysparc_daq:69, 120, 178).
ResetsAreSpaced == [][CheckSilent => loop.sinceReset > Grace]_vars

\* Hardware that has fallen silent for good is reset (pysparc_daq:178-181).
SilenceIsNoticed ==
  \A d \in Devices :
    (InLoop /\ d \in InUse \ loop.talking) ~> (d \in loop.talking \/ pc = "reset" \/ ~InLoop)

\* If the primary and the GPS stay plugged in, data are taken in the end and
\* for good, after any number of failures, unless orphans hold the process;
\* with or without the secondary (pysparc_daq:325-335).
StationComesUp ==
  <>[]({"primary", "gps"} \subseteq plugged) =>
    <>[](InLoop \/ (pc = "ended" /\ workers > 0))

=============================================================================
