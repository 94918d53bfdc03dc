----------------------- MODULE DataAcquisitionProofs -----------------------
(***************************************************************************)
(* What the daemon keeps through any number of exceptions, interrupts,     *)
(* crashes and pulled plugs, for any grace, limit and period of the        *)
(* watchdog within TimesAssumption.                                        *)
(***************************************************************************)
EXTENDS DataAcquisition, TLAPS

----------------------------------------------------------------------------
(* The steps that concern the record of timers, field by field.            *)

\* Each field may be replaced by a value of its type.
LEMMA LoopsFields ==
  ASSUME NEW l \in Loops
  PROVE  /\ \A v \in SUBSET Devices : [l EXCEPT !.talking = v] \in Loops
         /\ \A v \in SUBSET Devices : [l EXCEPT !.lapsed = v] \in Loops
         /\ \A v \in [Devices -> -Grace..(SilenceLimit + 1)] : [l EXCEPT !.age = v] \in Loops
         /\ \A v \in 0..CheckPeriod : [l EXCEPT !.wait = v] \in Loops
         /\ \A v \in BOOLEAN : [l EXCEPT !.due = v] \in Loops
         /\ \A v \in 0..(SilenceLimit + 1) : [l EXCEPT !.sinceRead = v] \in Loops
         /\ \A v \in 0..CheckPeriod : [l EXCEPT !.sinceReset = v] \in Loops
<1>1. \A v \in SUBSET Devices : [l EXCEPT !.talking = v] \in Loops
  BY Zenon DEF Loops
<1>2. \A v \in SUBSET Devices : [l EXCEPT !.lapsed = v] \in Loops
  BY Zenon DEF Loops
<1>3. \A v \in [Devices -> -Grace..(SilenceLimit + 1)] : [l EXCEPT !.age = v] \in Loops
  BY Zenon DEF Loops
<1>4. \A v \in 0..CheckPeriod : [l EXCEPT !.wait = v] \in Loops
  BY Zenon DEF Loops
<1>5. \A v \in BOOLEAN : [l EXCEPT !.due = v] \in Loops
  BY Zenon DEF Loops
<1>6. \A v \in 0..(SilenceLimit + 1) : [l EXCEPT !.sinceRead = v] \in Loops
  BY Zenon DEF Loops
<1>7. \A v \in 0..CheckPeriod : [l EXCEPT !.sinceReset = v] \in Loops
  BY Zenon DEF Loops
<1> QED
  BY <1>1, <1>2, <1>3, <1>4, <1>5, <1>6, <1>7

LEMMA LoopsTypes ==
  ASSUME NEW l \in Loops
  PROVE  /\ l.talking \subseteq Devices /\ l.lapsed \subseteq Devices
         /\ l.age \in [Devices -> -Grace..(SilenceLimit + 1)]
         /\ l.wait \in 0..CheckPeriod /\ l.due \in BOOLEAN
         /\ l.sinceRead \in 0..(SilenceLimit + 1) /\ l.sinceReset \in 0..CheckPeriod
  BY DEF Loops

LEMMA IdleType == Idle \in Loops
  BY TimesAssumption DEF Idle, Loops

LEMMA BeginLoop ==
  ASSUME Begin
  PROVE  /\ loop' \in Loops
         /\ loop'.talking \subseteq InUse /\ loop'.lapsed = InUse \ loop'.talking
         /\ loop'.wait = CheckPeriod /\ loop'.due = FALSE /\ loop'.sinceReset = 0
<1>1. PICK a \in -Grace..(SilenceLimit + 1), T \in SUBSET InUse :
        loop' = [Idle EXCEPT !.talking = T, !.lapsed = InUse \ T,
                             !.age = [d \in Devices |-> a], !.wait = CheckPeriod]
  BY DEF Begin
<1> DEFINE ages == [d \in Devices |-> a]
           others == InUse \ T
<1>2. T \in SUBSET Devices /\ others \in SUBSET Devices
  BY DEF InUse, Devices
<1>3. ages \in [Devices -> -Grace..(SilenceLimit + 1)]
  OBVIOUS
<1>4. CheckPeriod \in 0..CheckPeriod
  BY TimesAssumption
<1>5. loop' = [Idle EXCEPT !.talking = T, !.lapsed = others, !.age = ages,
                           !.wait = CheckPeriod]
  BY <1>1, Zenon
<1> HIDE DEF ages
<1>6. loop' \in Loops
  <2> HIDE DEF others
  <2> QED
    BY <1>2, <1>3, <1>4, <1>5, IdleType, LoopsFields, Zenon
<1>7. /\ loop'.talking = T /\ loop'.lapsed = others
      /\ loop'.wait = CheckPeriod /\ loop'.due = FALSE /\ loop'.sinceReset = 0
  BY <1>5, Zenon DEF Idle
<1> QED
  BY <1>6, <1>7

LEMMA ReadLoop ==
  ASSUME Read, loop \in Loops
  PROVE  /\ loop' \in Loops
         /\ loop'.talking = loop.talking
         /\ loop'.lapsed = loop.lapsed \ (InUse \cap loop.talking)
         /\ \A d \in Devices : d \in InUse \cap loop.talking => loop'.age[d] = 0
         /\ loop'.wait = loop.wait /\ loop'.sinceReset = loop.sinceReset
         /\ loop'.sinceRead = 0 /\ loop'.due = (loop.wait = 0)
<1> DEFINE heard == InUse \cap loop.talking
           ages == [d \in Devices |-> IF d \in heard THEN 0 ELSE loop.age[d]]
           left == loop.lapsed \ heard
           now == (loop.wait = 0)
<1>1. loop' = [loop EXCEPT !.age = ages, !.lapsed = left, !.sinceRead = 0, !.due = now]
  BY Zenon DEF Read, Go
<1>2. ages \in [Devices -> -Grace..(SilenceLimit + 1)]
  BY LoopsTypes, TimesAssumption
<1>3. left \in SUBSET Devices /\ now \in BOOLEAN /\ 0 \in 0..(SilenceLimit + 1)
  BY LoopsTypes, TimesAssumption
<1>4. \A d \in Devices : d \in heard => ages[d] = 0
  OBVIOUS
<1> HIDE DEF ages, left, now
<1>5. loop' \in Loops
  BY <1>1, <1>2, <1>3, LoopsFields, Zenon
<1>6. /\ loop'.age = ages /\ loop'.lapsed = left /\ loop'.sinceRead = 0 /\ loop'.due = now
      /\ loop'.talking = loop.talking /\ loop'.wait = loop.wait
      /\ loop'.sinceReset = loop.sinceReset
  BY <1>1, Zenon DEF Loops
<1> QED
  BY <1>4, <1>5, <1>6 DEF left, now

LEMMA EndJobsLoop ==
  ASSUME EndJobs, loop \in Loops
  PROVE  /\ loop' \in Loops
         /\ loop'.talking = loop.talking /\ loop'.lapsed = loop.lapsed
         /\ loop'.wait \in {CheckPeriod, loop.wait} /\ loop'.due = FALSE
         /\ loop'.sinceReset = loop.sinceReset
<1> DEFINE next == IF loop.due THEN CheckPeriod ELSE loop.wait
<1>1. loop' = [loop EXCEPT !.wait = next, !.due = FALSE]
  BY Zenon DEF EndJobs, Go
<1>2. next \in 0..CheckPeriod /\ next \in {CheckPeriod, loop.wait}
  BY LoopsTypes, TimesAssumption
<1> HIDE DEF next
<1>3. loop' \in Loops
  BY <1>1, <1>2, LoopsFields, Zenon
<1>4. /\ loop'.wait = next /\ loop'.due = FALSE /\ loop'.talking = loop.talking
      /\ loop'.lapsed = loop.lapsed /\ loop'.sinceReset = loop.sinceReset
  BY <1>1, Zenon DEF Loops
<1> QED
  BY <1>2, <1>3, <1>4

LEMMA ResetLoop ==
  ASSUME ResetDevices, loop \in Loops
  PROVE  /\ loop' \in Loops
         /\ loop'.talking = loop.talking /\ loop'.lapsed = loop.lapsed
         /\ loop'.wait = CheckPeriod /\ loop'.due = FALSE
<1>1. loop' = [loop EXCEPT !.wait = CheckPeriod, !.due = FALSE, !.sinceReset = 0]
  BY Zenon DEF ResetDevices, Go
<1>2. CheckPeriod \in 0..CheckPeriod /\ 0 \in 0..CheckPeriod
  BY TimesAssumption
<1>3. loop' \in Loops
  BY <1>1, <1>2, LoopsFields, Zenon
<1>4. /\ loop'.wait = CheckPeriod /\ loop'.due = FALSE
      /\ loop'.talking = loop.talking /\ loop'.lapsed = loop.lapsed
  BY <1>1, Zenon DEF Loops
<1> QED
  BY <1>3, <1>4

LEMMA ElapseLoop ==
  ASSUME Elapse, loop \in Loops
  PROVE  /\ loop' \in Loops
         /\ loop'.talking = loop.talking /\ loop'.lapsed = loop.lapsed
         /\ loop'.due = loop.due
         /\ \A d \in Devices : loop'.age[d] = UpTo(loop.age[d], SilenceLimit + 1)
         /\ loop'.wait = IF loop.wait > 0 THEN loop.wait - 1 ELSE 0
         /\ loop'.sinceRead = UpTo(loop.sinceRead, SilenceLimit + 1)
         /\ loop'.sinceReset = UpTo(loop.sinceReset, CheckPeriod)
<1> DEFINE ages == [d \in Devices |-> UpTo(loop.age[d], SilenceLimit + 1)]
           wait == IF loop.wait > 0 THEN loop.wait - 1 ELSE 0
           read == UpTo(loop.sinceRead, SilenceLimit + 1)
           reset == UpTo(loop.sinceReset, CheckPeriod)
<1>1. loop' = [loop EXCEPT !.age = ages, !.wait = wait, !.sinceRead = read,
                           !.sinceReset = reset]
  BY Zenon DEF Elapse, Go
<1>2. ages \in [Devices -> -Grace..(SilenceLimit + 1)]
  BY LoopsTypes, TimesAssumption DEF UpTo
<1>3. wait \in 0..CheckPeriod /\ read \in 0..(SilenceLimit + 1) /\ reset \in 0..CheckPeriod
  BY LoopsTypes, TimesAssumption DEF UpTo
<1>4. \A d \in Devices : ages[d] = UpTo(loop.age[d], SilenceLimit + 1)
  OBVIOUS
<1> HIDE DEF ages, wait, read, reset
<1>5. loop' \in Loops
  BY <1>1, <1>2, <1>3, LoopsFields, Zenon
<1>6. /\ loop'.age = ages /\ loop'.wait = wait /\ loop'.sinceRead = read
      /\ loop'.sinceReset = reset /\ loop'.talking = loop.talking
      /\ loop'.lapsed = loop.lapsed /\ loop'.due = loop.due
  BY <1>1, Zenon DEF Loops
<1> QED
  BY <1>4, <1>5, <1>6 DEF wait, read, reset

LEMMA ToggleLoop ==
  ASSUME NEW d \in InUse, Toggle(d), loop \in Loops
  PROVE  /\ loop' \in Loops
         /\ loop.lapsed \subseteq loop'.lapsed
         /\ loop.talking \subseteq loop'.talking \cup loop'.lapsed
         /\ loop'.age = loop.age /\ loop'.wait = loop.wait /\ loop'.due = loop.due
         /\ loop'.sinceRead = loop.sinceRead /\ loop'.sinceReset = loop.sinceReset
<1>0. d \in Devices
  BY DEF InUse, Devices
<1>1. CASE d \in loop.talking
  <2> DEFINE talk == loop.talking \ {d}
             lapse == loop.lapsed \cup {d}
  <2>1. loop' = [loop EXCEPT !.talking = talk, !.lapsed = lapse]
    BY <1>1, Zenon DEF Toggle, Go
  <2>2. talk \in SUBSET Devices /\ lapse \in SUBSET Devices
    BY <1>0, LoopsTypes
  <2>3. loop.lapsed \subseteq lapse /\ loop.talking \subseteq talk \cup lapse
    OBVIOUS
  <2> HIDE DEF talk, lapse
  <2>4. loop' \in Loops
    BY <2>1, <2>2, LoopsFields, Zenon
  <2>5. /\ loop'.talking = talk /\ loop'.lapsed = lapse
        /\ loop'.age = loop.age /\ loop'.wait = loop.wait /\ loop'.due = loop.due
        /\ loop'.sinceRead = loop.sinceRead /\ loop'.sinceReset = loop.sinceReset
    BY <2>1, Zenon DEF Loops
  <2> QED
    BY <2>3, <2>4, <2>5
<1>2. CASE d \notin loop.talking
  <2> DEFINE talk == loop.talking \cup {d}
  <2>1. loop' = [loop EXCEPT !.talking = talk]
    BY <1>2, Zenon DEF Toggle, Go
  <2>2. talk \in SUBSET Devices /\ loop.talking \subseteq talk
    BY <1>0, LoopsTypes
  <2> HIDE DEF talk
  <2>4. loop' \in Loops
    BY <2>1, <2>2, LoopsFields, Zenon
  <2>5. /\ loop'.talking = talk /\ loop'.lapsed = loop.lapsed
        /\ loop'.age = loop.age /\ loop'.wait = loop.wait /\ loop'.due = loop.due
        /\ loop'.sinceRead = loop.sinceRead /\ loop'.sinceReset = loop.sinceReset
    BY <2>1, Zenon DEF Loops
  <2> QED
    BY <2>2, <2>4, <2>5
<1> QED
  BY <1>1, <1>2

----------------------------------------------------------------------------
(* Types, and how many workers run at each step.                           *)

Starting ==
  {"open_secondary", "open_primary", "open_gps", "initialize", "write", "writing", "storage"}

\* The workers that run, and those that a main thread left behind.
WorkersAtSteps ==
  /\ pc \in Starting \cup {"close_rest"} => workers = 0
  /\ pc = "filestore" => workers = 1
  /\ OrphansOnlyTwice

TypeInv == TypeOK /\ WorkersAtSteps

LEMMA InitTypes == Init => TypeInv
<1> SUFFICES ASSUME Init PROVE TypeInv
  OBVIOUS
<1>1. file \in Configs /\ config \in Configs
  <2>1. file = [identity |-> TRUE, forced |-> TRUE, aligned |-> {}]
    BY Zenon DEF Init, Defaults
  <2> QED
    BY <2>1 DEF Init, Defaults, Configs
<1>2. loop \in Loops
  BY IdleType DEF Init
<1>3. /\ plugged \in {Devices \cup {"gps"}, {"primary", "gps"}}
      /\ pc = "ended" /\ both = TRUE /\ open = {} /\ workers = 0
      /\ broken = {} /\ faults = 0 /\ replugs = 0
  BY Zenon DEF Init
<1>4. both \in BOOLEAN /\ broken \subseteq {"fail", "crash"}
  BY <1>3, Zenon
<1>5. plugged \subseteq Devices \cup {"gps"} /\ open \subseteq Devices \cup {"gps"}
  BY <1>3 DEF Devices
<1>6. faults \in 0..MaxFaults /\ replugs \in 0..MaxReplugs /\ workers \in 0..2
  BY <1>3, DaqBoundsAssumption
<1>7. WorkersAtSteps
  BY <1>3 DEF WorkersAtSteps, OrphansOnlyTwice, Starting
<1> QED
  BY <1>1, <1>2, <1>3, <1>4, <1>5, <1>6, <1>7 DEF TypeInv, TypeOK

\* The steps of start-up and closing, and those that end the process.
LEMMA ControlTypes ==
  ASSUME TypeInv,
         \/ Start \/ Truncate \/ WriteConfig
         \/ Reach("secondary", "open_secondary", "open_primary")
         \/ Reach("primary", "open_primary", "open_gps")
         \/ Reach("gps", "open_gps", "initialize")
         \/ AddDatastore("storage", "filestore", 1)
         \/ \E n \in 0..1 : AddDatastore("filestore", "flush", n)
         \/ Close
  PROVE  TypeInv'
<1> USE DEF TypeInv, TypeOK, WorkersAtSteps, OrphansOnlyTwice, Starting, Step, process, history
<1>1. CASE Start
  BY <1>1 DEF Start
<1>2. CASE Truncate \/ WriteConfig
  <2>1. Defaults \in Configs
    BY DEF Defaults, Configs
  <2> QED
    BY <1>2, <2>1 DEF Truncate, WriteConfig
<1>3. ASSUME NEW d \in Devices \cup {"gps"}, NEW from \in Starting,
             NEW to \in Starting, Reach(d, from, to)
      PROVE  TypeInv'
  <2>1. /\ pc' \in Starting \cup {"ended"} /\ workers = 0 /\ workers' = 0
        /\ both' \in BOOLEAN /\ config' \in Configs
        /\ open' \subseteq Devices \cup {"gps"}
    <3>1. CASE Open(d, from, to)
      BY <3>1 DEF Open
    <3>2. CASE NotFound(d, from)
      BY <3>2 DEF NotFound
    <3>3. CASE Busy(d, from)
      BY <3>3 DEF Busy
    <3> QED
      BY <1>3, <3>1, <3>2, <3>3 DEF Reach
  <2>2. UNCHANGED <<plugged, loop, history, file>>
    BY <1>3 DEF Reach, Open, NotFound, Busy
  <2> QED
    BY <2>1, <2>2
<1>4. CASE AddDatastore("storage", "filestore", 1)
  BY <1>4 DEF AddDatastore
<1>5. ASSUME NEW n \in 0..1, AddDatastore("filestore", "flush", n)
      PROVE  TypeInv'
  BY <1>5 DEF AddDatastore
<1>6. CASE Close
  <2>1. UNCHANGED <<plugged, loop, failedAt, broken, faults, replugs, both, open, config, file>>
    BY <1>6 DEF Close, Closing
  <2>2. CASE Closing("close_primary", "close_storage", workers)
    BY <2>1, <2>2 DEF Closing
  <2>3. CASE Closing("close_storage", "close_rest", 0)
    BY <2>1, <2>3 DEF Closing
  <2>4. CASE Closing("close_rest", "ended", workers)
    BY <2>1, <2>4 DEF Closing
  <2> QED
    BY <1>6, <2>2, <2>3, <2>4 DEF Close
<1> QED
  BY <1>1, <1>2, <1>3, <1>4, <1>5, <1>6 DEF Devices

LEMMA InitializeConfig ==
  ASSUME Initialize, config \in Configs
  PROVE  /\ config' \in Configs /\ ~config'.forced
         /\ config'.identity = config.identity
         /\ config.aligned \subseteq config'.aligned
         /\ config.forced => InUse \subseteq config'.aligned
<1>1. CASE config.forced
  <2> DEFINE both_aligned == config.aligned \cup InUse
  <2>1. config' = [config EXCEPT !.forced = FALSE, !.aligned = both_aligned]
    BY <1>1, Zenon DEF Initialize
  <2>2. both_aligned \in SUBSET Devices
    BY DEF Configs, InUse, Devices
  <2>3. InUse \subseteq both_aligned /\ config.aligned \subseteq both_aligned
    OBVIOUS
  <2> HIDE DEF both_aligned
  <2>4. config' \in Configs
    BY <2>1, <2>2, Zenon DEF Configs
  <2>5. ~config'.forced /\ config'.identity = config.identity /\ config'.aligned = both_aligned
    BY <2>1, Zenon DEF Configs
  <2> QED
    BY <2>3, <2>4, <2>5
<1>2. CASE ~config.forced
  BY <1>2 DEF Initialize
<1> QED
  BY <1>1, <1>2

LEMMA LoopTypes ==
  ASSUME TypeInv, Initialize \/ Begin \/ TakeData
  PROVE  TypeInv'
<1> USE DEF TypeInv, TypeOK, WorkersAtSteps, OrphansOnlyTwice, Starting
<1>1. CASE Initialize
  <2>1. config' \in Configs
    BY <1>1, InitializeConfig
  <2> QED
    BY <1>1, <2>1 DEF Initialize, Step, history
<1>2. CASE Begin
  <2>1. loop' \in Loops
    BY <1>2, BeginLoop
  <2> QED
    BY <1>2, <2>1 DEF Begin, process, history
<1>3. CASE TakeData
  <2>1. loop' \in Loops
    <3>1. CASE Read
      BY <3>1, ReadLoop
    <3>2. CASE EndJobs
      BY <3>2, EndJobsLoop
    <3>3. CASE CheckSilent
      BY <3>3 DEF CheckSilent, Go
    <3>4. CASE ResetDevices
      BY <3>4, ResetLoop
    <3>5. CASE Elapse
      BY <3>5, ElapseLoop
    <3>6. ASSUME NEW d \in InUse, Toggle(d) PROVE loop' \in Loops
      BY <3>6, ToggleLoop
    <3> QED
      BY <1>3, <3>1, <3>2, <3>3, <3>4, <3>5, <3>6 DEF TakeData
  <2>2. /\ UNCHANGED <<plugged, file, process, history>>
        /\ pc \in {"read", "jobs", "reset"} /\ pc' \in {"read", "jobs", "reset"}
    BY <1>3 DEF TakeData, Read, EndJobs, CheckSilent, ResetDevices, Elapse, Toggle, Go, InLoop
  <2> QED
    BY <2>1, <2>2 DEF process, history
<1> QED
  BY <1>1, <1>2, <1>3

\* What an interrupted write leaves is a configuration.
LEMMA PartsTypes ==
  ASSUME NEW c \in Configs, NEW f \in Parts(c)
  PROVE  f \in Configs
<1>1. CASE f = Defaults
  BY <1>1 DEF Defaults, Configs
<1>2. CASE f = [c EXCEPT !.identity = FALSE, !.aligned = {}]
  BY <1>2 DEF Configs
<1>3. ASSUME NEW a \in SUBSET c.aligned, f = [c EXCEPT !.aligned = a]
      PROVE  f \in Configs
  <2>1. a \in SUBSET Devices
    BY DEF Configs
  <2> QED
    BY <1>3, <2>1, Zenon DEF Configs
<1> QED
  BY <1>1, <1>2, <1>3, Zenon DEF Parts

LEMMA FaultTypes ==
  ASSUME TypeInv, Fail \/ Crash \/ \E d \in Devices \cup {"gps"} : Replug(d)
  PROVE  TypeInv'
<1> USE DaqBoundsAssumption
    DEF TypeInv, TypeOK, WorkersAtSteps, OrphansOnlyTwice, Starting, process
<1>1. CASE Fail
  <2>1. file' \in Configs
    BY <1>1, PartsTypes DEF Fail
  <2>2. broken' \subseteq {"fail", "crash"} /\ loop' \in Loops /\ faults' \in 0..MaxFaults
    <3>1. broken' \in {broken, broken \cup {"fail"}}
      BY <1>1 DEF Fail
    <3>2. loop' \in Loops
      BY <1>1, IdleType DEF Fail
    <3>3. faults' \in 0..MaxFaults
      BY <1>1 DEF Fail
    <3> QED
      BY <3>1, <3>2, <3>3
  <2>3. UNCHANGED <<plugged, both, open, config, replugs>> /\ failedAt' = pc
    BY <1>1 DEF Fail
  <2>4. pc' \in {"close_primary", "ended"} /\ workers' \in {0, workers}
    BY <1>1 DEF Fail
  <2>5. pc' = "close_primary" => pc \in {"read", "jobs", "reset", "flush"}
    BY <1>1 DEF Fail, InLoop
  <2>6. WorkersAtSteps'
    <3>1. CASE pc' = "close_primary"
      BY <2>5, <3>1
    <3>2. CASE pc' = "ended"
      <4>1. pc = "close_storage" => workers' = 0
        BY <1>1 DEF Fail
      <4>2. pc \notin {"ended", "flush", "read", "jobs", "reset"}
        BY <1>1, <3>2, Zenon DEF Fail, InLoop
      <4> QED
        BY <2>3, <2>4, <3>2, <4>1, <4>2
    <3> QED
      BY <2>4, <3>1, <3>2
  <2>7. TypeOK'
    BY <2>1, <2>2, <2>3, <2>4
  <2> QED
    BY <2>6, <2>7
<1>2. CASE Crash
  BY <1>2, IdleType DEF Crash
<1>3. ASSUME NEW d \in Devices \cup {"gps"}, Replug(d) PROVE TypeInv'
  BY <1>3 DEF Replug
<1> QED
  BY <1>1, <1>2, <1>3

LEMMA NextTypes == TypeInv /\ [Next]_vars => TypeInv'
<1>1. ASSUME TypeInv, UNCHANGED vars PROVE TypeInv'
  BY <1>1 DEF vars, process, history, TypeInv, TypeOK, WorkersAtSteps, OrphansOnlyTwice
<1> QED
  BY <1>1, ControlTypes, LoopTypes, FaultTypes DEF Next, StartUp

THEOREM TypesKept == Spec => []TypeInv
  BY InitTypes, NextTypes, PTL DEF Spec

\* Orphaned workers keep a process without a main thread alive in two cases
\* only: the file store could not be added, or closing the primary failed
\* (pysparc_daq:50-59, 208-212).
THEOREM OrphansKnown == Spec => []OrphansOnlyTwice
<1>1. TypeInv => OrphansOnlyTwice
  BY DEF TypeInv, WorkersAtSteps
<1> QED
  BY <1>1, TypesKept, PTL

----------------------------------------------------------------------------
(* What is on disk.                                                        *)

\* The process has a configuration in memory, which it read from the file.
HasConfig == pc \in Starting \/ Running

\* After align_adcs no alignment is forced; and the station has its name, in
\* memory and on disk, unless a write was interrupted.
SavedInv ==
  /\ pc \in {"write", "writing"} => ~config.forced
  /\ HasConfig /\ ~config.identity => broken # {}
  /\ RunsAsSaved

\* An alignment that is not missing from a configuration c for the devices D,
\* or that an exception in the middle of a write has cost.
Aligned(c, D) == c.forced \/ D \subseteq c.aligned \/ "fail" \in broken

\* The primary is in every alignment, whatever happens to the plugs.
PrimaryInv ==
  /\ Aligned(file, {"primary"})
  /\ HasConfig => Aligned(config, {"primary"})

\* The devices an alignment is for while nobody touches the plugs.
Expected == IF "secondary" \in plugged THEN Devices ELSE {"primary"}

AlignedInv ==
  replugs = 0 =>
    /\ {"primary", "gps"} \subseteq plugged
    /\ HasConfig /\ pc # "open_secondary" => InUse = Expected
    /\ pc = "open_secondary" => both
    /\ Aligned(file, Expected)
    /\ HasConfig => Aligned(config, Expected)

DiskInv == TypeInv /\ SavedInv /\ PrimaryInv /\ AlignedInv

\* Taking data changes no file, no configuration and no plug.
LEMMA DataSteps ==
  ASSUME Begin \/ TakeData
  PROVE  /\ UNCHANGED <<plugged, file, process, history>>
         /\ pc \in {"flush", "read", "jobs", "reset"}
         /\ pc' \in {"read", "jobs", "reset"}
  BY DEF Begin, TakeData, Read, EndJobs, CheckSilent, ResetDevices, Elapse, Toggle, Go, InLoop

LEMMA InitDisk == Init => SavedInv /\ PrimaryInv /\ AlignedInv
<1> SUFFICES ASSUME Init PROVE SavedInv /\ PrimaryInv /\ AlignedInv
  OBVIOUS
<1>1. file = [identity |-> TRUE, forced |-> TRUE, aligned |-> {}]
  BY Zenon DEF Init, Defaults
<1>2. pc = "ended" /\ plugged \in {Devices \cup {"gps"}, {"primary", "gps"}}
  BY Zenon DEF Init
<1> QED
  BY <1>1, <1>2 DEF SavedInv, PrimaryInv, AlignedInv, RunsAsSaved, HasConfig, Running, InLoop,
                    Starting, Aligned, Devices

LEMMA NextSaved ==
  ASSUME TypeInv, SavedInv, Next
  PROVE  SavedInv'
<1> USE DEF SavedInv, HasConfig, Running, RunsAsSaved, InLoop, Starting,
            Step, process, history
<1>1. CASE Start
  BY <1>1 DEF Start
<1>2. ASSUME NEW d \in Devices \cup {"gps"},
             NEW from \in {"open_secondary", "open_primary", "open_gps"},
             NEW to \in {"open_primary", "open_gps", "initialize"}, Reach(d, from, to)
      PROVE  SavedInv'
  <2>1. CASE Open(d, from, to)
    BY <2>1 DEF Open
  <2>2. CASE NotFound(d, from)
    BY <2>2 DEF NotFound
  <2>3. CASE Busy(d, from)
    BY <2>3 DEF Busy
  <2> QED
    BY <1>2, <2>1, <2>2, <2>3 DEF Reach
<1>3. CASE Initialize
  <2>1. ~config'.forced /\ config'.identity = config.identity
    BY <1>3, InitializeConfig DEF TypeInv, TypeOK
  <2> QED
    BY <1>3, <2>1 DEF Initialize
<1>4. CASE Truncate
  BY <1>4 DEF Truncate
<1>5. CASE WriteConfig
  BY <1>5 DEF WriteConfig
<1>6. ASSUME NEW n \in 0..1, AddDatastore("storage", "filestore", 1)
                             \/ AddDatastore("filestore", "flush", n)
      PROVE  SavedInv'
  BY <1>6 DEF AddDatastore
<1>7. CASE Begin \/ TakeData
  BY <1>7, DataSteps
<1>8. CASE Close
  BY <1>8 DEF Close, Closing
<1>9. CASE Fail
  BY <1>9 DEF Fail
<1>10. CASE Crash
  BY <1>10 DEF Crash
<1>11. ASSUME NEW d \in Devices \cup {"gps"}, Replug(d) PROVE SavedInv'
  BY <1>11 DEF Replug
<1> QED
  BY <1>1, <1>2, <1>3, <1>4, <1>5, <1>6, <1>7, <1>8, <1>9, <1>10, <1>11
     DEF Next, StartUp, Devices

LEMMA NextPrimary ==
  ASSUME TypeInv, PrimaryInv, Next
  PROVE  PrimaryInv'
<1> USE DEF PrimaryInv, HasConfig, Running, InLoop, Starting, Aligned,
            Step, process, history
<1>1. CASE Start
  BY <1>1 DEF Start
<1>2. ASSUME NEW d \in Devices \cup {"gps"},
             NEW from \in {"open_secondary", "open_primary", "open_gps"},
             NEW to \in {"open_primary", "open_gps", "initialize"}, Reach(d, from, to)
      PROVE  PrimaryInv'
  <2>1. CASE Open(d, from, to)
    BY <2>1 DEF Open
  <2>2. CASE NotFound(d, from)
    BY <2>2 DEF NotFound
  <2>3. CASE Busy(d, from)
    BY <2>3 DEF Busy
  <2> QED
    BY <1>2, <2>1, <2>2, <2>3 DEF Reach
<1>3. CASE Initialize
  <2>1. /\ config.aligned \subseteq config'.aligned
        /\ config.forced => InUse \subseteq config'.aligned
    BY <1>3, InitializeConfig DEF TypeInv, TypeOK
  <2>2. "primary" \in InUse
    BY DEF InUse, Devices
  <2> QED
    BY <1>3, <2>1, <2>2 DEF Initialize
<1>4. CASE Truncate
  BY <1>4 DEF Truncate, Defaults
<1>5. CASE WriteConfig
  BY <1>5 DEF WriteConfig
<1>6. ASSUME NEW n \in 0..1, AddDatastore("storage", "filestore", 1)
                             \/ AddDatastore("filestore", "flush", n)
      PROVE  PrimaryInv'
  BY <1>6 DEF AddDatastore
<1>7. CASE Begin \/ TakeData
  BY <1>7, DataSteps
<1>8. CASE Close
  BY <1>8 DEF Close, Closing
<1>9. CASE Fail
  BY <1>9 DEF Fail
<1>10. CASE Crash
  BY <1>10 DEF Crash
<1>11. ASSUME NEW d \in Devices \cup {"gps"}, Replug(d) PROVE PrimaryInv'
  BY <1>11 DEF Replug
<1> QED
  BY <1>1, <1>2, <1>3, <1>4, <1>5, <1>6, <1>7, <1>8, <1>9, <1>10, <1>11
     DEF Next, StartUp, Devices

LEMMA NextAligned ==
  ASSUME TypeInv, AlignedInv, Next
  PROVE  AlignedInv'
<1> USE DEF AlignedInv, HasConfig, Running, InLoop, Starting, Aligned, Expected,
            Step, process, history
<1> SUFFICES ASSUME replugs' = 0 PROVE AlignedInv'
  OBVIOUS
<1>0. replugs = 0
  <2>1. CASE Begin \/ TakeData
    BY <2>1, DataSteps
  <2>2. ASSUME NEW d \in Devices \cup {"gps"}, Replug(d) PROVE FALSE
    BY <2>2 DEF Replug, TypeInv, TypeOK
  <2>3. CASE Initialize
    BY <2>3 DEF Initialize
  <2>4. CASE \/ Reach("secondary", "open_secondary", "open_primary")
             \/ Reach("primary", "open_primary", "open_gps")
             \/ Reach("gps", "open_gps", "initialize")
    BY <2>4 DEF Reach, Open, NotFound, Busy
  <2>5. CASE Start \/ Truncate \/ WriteConfig \/ Fail \/ Crash
    BY <2>5 DEF Start, Truncate, WriteConfig, Fail, Crash
  <2>6. CASE \/ AddDatastore("storage", "filestore", 1) \/ Close
             \/ \E n \in 0..1 : AddDatastore("filestore", "flush", n)
    BY <2>6 DEF AddDatastore, Close, Closing
  <2> QED
    BY <2>1, <2>2, <2>3, <2>4, <2>5, <2>6 DEF Next, StartUp
<1>1. CASE Start
  BY <1>0, <1>1 DEF Start
<1>2. CASE Reach("secondary", "open_secondary", "open_primary")
  <2>1. CASE Open("secondary", "open_secondary", "open_primary")
    BY <1>0, <2>1 DEF Open, InUse
  <2>2. CASE NotFound("secondary", "open_secondary")
    BY <1>0, <2>2 DEF NotFound, InUse
  <2>3. CASE Busy("secondary", "open_secondary")
    BY <1>0, <2>3 DEF Busy
  <2> QED
    BY <1>2, <2>1, <2>2, <2>3 DEF Reach
<1>3. ASSUME NEW d \in {"primary", "gps"}, NEW from \in {"open_primary", "open_gps"},
             NEW to \in {"open_gps", "initialize"}, Reach(d, from, to)
      PROVE  AlignedInv'
  <2>1. CASE Open(d, from, to)
    BY <1>0, <2>1 DEF Open, InUse
  <2>2. CASE NotFound(d, from)
    BY <1>0, <2>2 DEF NotFound
  <2>3. CASE Busy(d, from)
    BY <1>0, <2>3 DEF Busy
  <2> QED
    BY <1>3, <2>1, <2>2, <2>3 DEF Reach
<1>4. CASE Initialize
  <2>1. /\ config.aligned \subseteq config'.aligned
        /\ config.forced => InUse \subseteq config'.aligned
    BY <1>4, InitializeConfig DEF TypeInv, TypeOK
  <2>2. InUse = Expected /\ Aligned(config, Expected)
    BY <1>0, <1>4 DEF Initialize
  <2>3. Aligned(config, Expected)'
    BY <1>4, <2>1, <2>2 DEF Initialize
  <2> QED
    BY <1>0, <1>4, <2>3 DEF Initialize, InUse
<1>5. CASE Truncate
  BY <1>0, <1>5 DEF Truncate, Defaults, InUse
<1>6. CASE WriteConfig
  BY <1>0, <1>6 DEF WriteConfig, InUse
<1>7. ASSUME NEW n \in 0..1, AddDatastore("storage", "filestore", 1)
                             \/ AddDatastore("filestore", "flush", n)
      PROVE  AlignedInv'
  BY <1>0, <1>7 DEF AddDatastore, InUse
<1>8. CASE Begin \/ TakeData
  BY <1>0, <1>8, DataSteps DEF InUse
<1>9. CASE Close
  BY <1>0, <1>9 DEF Close, Closing
<1>10. CASE Fail
  BY <1>0, <1>10 DEF Fail, InUse
<1>11. CASE Crash
  BY <1>0, <1>11 DEF Crash
<1>12. ASSUME NEW d \in Devices \cup {"gps"}, Replug(d) PROVE FALSE
  BY <1>0, <1>12 DEF Replug
<1> QED
  BY <1>1, <1>2, <1>3, <1>4, <1>5, <1>6, <1>7, <1>8, <1>9, <1>10, <1>11, <1>12
     DEF Next, StartUp

LEMMA DiskKept == Spec => []DiskInv
<1>1. Init => DiskInv
  BY InitTypes, InitDisk DEF DiskInv
<1>2. ASSUME DiskInv, [Next]_vars PROVE DiskInv'
  <2>1. CASE Next
    BY <1>2, <2>1, NextTypes, NextSaved, NextPrimary, NextAligned DEF DiskInv
  <2>2. CASE UNCHANGED vars
    <3>1. TypeInv'
      BY <1>2, <2>2, NextTypes DEF DiskInv
    <3>2. SavedInv' /\ PrimaryInv' /\ AlignedInv'
      BY <1>2, <2>2 DEF DiskInv, SavedInv, PrimaryInv, AlignedInv, HasConfig, Running, RunsAsSaved,
         InLoop, Aligned, Expected, InUse, vars, process, history
    <3> QED
      BY <3>1, <3>2 DEF DiskInv
  <2> QED
    BY <1>2, <2>1, <2>2
<1> QED
  BY <1>1, <1>2, PTL DEF Spec

\* A program that takes data has on disk what it runs with, and the station has
\* lost its name only if a write was interrupted or crashed
\* (pysparc_daq:71-84, 203-206).
THEOREM SettingsSurvive == Spec => []RunsAsSaved
<1>1. DiskInv => RunsAsSaved
  BY DEF DiskInv, SavedInv
<1> QED
  BY <1>1, DiskKept, PTL

\* However often and wherever start-up has failed or crashed, and whatever was
\* plugged in and out, the primary takes data unaligned only after an exception
\* in the middle of a write, and the secondary only after that or after a replug
\* (pysparc_daq:79-84, 203-206, 325-330).
THEOREM DataAreAligned == Spec => []RunsAligned
<1>1. ASSUME DiskInv PROVE RunsAligned
  <2> SUFFICES ASSUME Running, NEW d \in InUse \ file.aligned, "fail" \notin broken
               PROVE  d = "secondary" /\ replugs > 0
    BY DEF RunsAligned
  <2>1. HasConfig /\ ~file.forced /\ pc # "open_secondary"
    BY <1>1 DEF DiskInv, SavedInv, RunsAsSaved, HasConfig, Running, InLoop
  <2>2. d # "primary"
    BY <1>1, <2>1 DEF DiskInv, PrimaryInv, Aligned
  <2>3. d = "secondary"
    BY <2>2 DEF InUse, Devices
  <2>4. replugs # 0
    BY <1>1, <2>1 DEF DiskInv, AlignedInv, Aligned
  <2>5. replugs \in Nat
    BY <1>1, DaqBoundsAssumption DEF DiskInv, TypeInv, TypeOK
  <2> QED
    BY <2>3, <2>4, <2>5
<1> QED
  BY <1>1, DiskKept, PTL

----------------------------------------------------------------------------
(* The watchdog.                                                           *)

\* A device in use that has not lapsed is talking, and has been heard in every
\* read, so that its age is the time since the last one.
AgesInv ==
  InLoop =>
    /\ InUse \subseteq loop.talking \cup loop.lapsed
    /\ pc \in {"jobs", "reset"} =>
         \A d \in InUse \ loop.lapsed : loop.age[d] <= loop.sinceRead

\* What has passed of the period has passed since the last reset.
PeriodInv ==
  InLoop => /\ loop.wait + loop.sinceReset >= CheckPeriod
            /\ loop.due => loop.wait = 0

WatchInv == TypeInv /\ AgesInv /\ PeriodInv

LEMMA NextWatch == WatchInv /\ [Next]_vars => WatchInv'
<1> SUFFICES ASSUME WatchInv, [Next]_vars PROVE WatchInv'
  OBVIOUS
<1>1. TypeInv /\ TypeInv'
  BY NextTypes DEF WatchInv
<1>2. loop \in Loops
  BY <1>1 DEF TypeInv, TypeOK
<1> SUFFICES (AgesInv /\ PeriodInv)'
  BY <1>1 DEF WatchInv
<1> USE DEF AgesInv, PeriodInv, InLoop
<1>3. CASE Begin
  <2>1. InUse' = InUse /\ pc' = "read"
    BY <1>3 DEF Begin, process, InUse
  <2>2. InUse \subseteq loop'.talking \cup loop'.lapsed
    BY <1>3, BeginLoop
  <2>3. loop'.wait = CheckPeriod /\ loop'.sinceReset = 0 /\ loop'.due = FALSE
    BY <1>3, BeginLoop
  <2>4. PeriodInv'
    BY <2>3, TimesAssumption
  <2> QED
    BY <2>1, <2>2, <2>4
<1>4. CASE Read
  <2>1. InUse' = InUse /\ InUse \subseteq Devices /\ pc = "read" /\ pc' = "jobs"
    BY <1>4 DEF Read, Go, process, InUse, Devices
  <2>2. InUse \subseteq loop'.talking \cup loop'.lapsed
    BY <1>2, <1>4, <2>1, ReadLoop DEF WatchInv
  <2>3. \A d \in InUse \ loop'.lapsed : loop'.age[d] <= loop'.sinceRead
    <3>1. ASSUME NEW d \in InUse \ loop'.lapsed PROVE loop'.age[d] = 0
      BY <1>2, <1>4, <2>1, ReadLoop DEF WatchInv
    <3> QED
      BY <1>2, <1>4, <3>1, ReadLoop
  <2>4. PeriodInv'
    BY <1>2, <1>4, <2>1, ReadLoop DEF WatchInv
  <2> QED
    BY <2>1, <2>2, <2>3, <2>4
<1>5. CASE EndJobs
  <2>1. InUse' = InUse /\ pc = "jobs" /\ pc' = "read"
    BY <1>5 DEF EndJobs, Go, process, InUse
  <2>2. InUse \subseteq loop'.talking \cup loop'.lapsed
    BY <1>2, <1>5, <2>1, EndJobsLoop DEF WatchInv
  <2>3. loop.wait \in 0..CheckPeriod /\ loop.sinceReset \in 0..CheckPeriod
    BY <1>2, LoopsTypes
  <2>4. /\ loop'.wait \in {CheckPeriod, loop.wait} /\ loop'.due = FALSE
        /\ loop'.sinceReset = loop.sinceReset
    BY <1>2, <1>5, EndJobsLoop
  <2>5. loop.wait + loop.sinceReset >= CheckPeriod
    BY <2>1 DEF WatchInv
  <2>6. PeriodInv'
    BY <2>3, <2>4, <2>5, TimesAssumption
  <2> QED
    BY <2>1, <2>2, <2>6
<1>6. CASE CheckSilent
  BY <1>6 DEF CheckSilent, Go, process, InUse, WatchInv
<1>7. CASE ResetDevices
  <2>1. InUse' = InUse /\ pc = "reset" /\ pc' = "read"
    BY <1>7 DEF ResetDevices, Go, process, InUse
  <2>2. InUse \subseteq loop'.talking \cup loop'.lapsed
    BY <1>2, <1>7, <2>1, ResetLoop DEF WatchInv
  <2>3. loop' \in Loops
    BY <1>2, <1>7, ResetLoop
  <2>4. loop'.sinceReset \in 0..CheckPeriod
    BY <2>3, LoopsTypes
  <2>5. loop'.wait = CheckPeriod /\ loop'.due = FALSE
    BY <1>2, <1>7, ResetLoop
  <2>6. PeriodInv'
    BY <2>4, <2>5, TimesAssumption
  <2> QED
    BY <2>1, <2>2, <2>6
<1>8. CASE Elapse
  <2>1. InUse' = InUse /\ InUse \subseteq Devices /\ pc' = pc /\ InLoop
    BY <1>8 DEF Elapse, Go, process, InUse, Devices
  <2>2. InUse \subseteq loop'.talking \cup loop'.lapsed
    BY <1>2, <1>8, <2>1, ElapseLoop DEF WatchInv
  <2>3. ASSUME pc \in {"jobs", "reset"}, NEW d \in InUse \ loop'.lapsed
        PROVE  loop'.age[d] <= loop'.sinceRead
    <3>1. d \in InUse \ loop.lapsed /\ d \in Devices
      BY <1>2, <1>8, <2>1, <2>3, ElapseLoop
    <3>2. loop.age[d] <= loop.sinceRead
      BY <2>1, <2>3, <3>1 DEF WatchInv
    <3>3. loop.age[d] \in -Grace..(SilenceLimit + 1) /\ loop.sinceRead \in 0..(SilenceLimit + 1)
      BY <1>2, <3>1, LoopsTypes
    <3>4. UpTo(loop.age[d], SilenceLimit + 1) <= UpTo(loop.sinceRead, SilenceLimit + 1)
      BY <3>2, <3>3, TimesAssumption DEF UpTo
    <3>5. loop'.age[d] = UpTo(loop.age[d], SilenceLimit + 1)
      BY <1>2, <1>8, <3>1, ElapseLoop
    <3>6. loop'.sinceRead = UpTo(loop.sinceRead, SilenceLimit + 1)
      BY <1>2, <1>8, ElapseLoop
    <3> QED
      BY <3>4, <3>5, <3>6
  <2>4. PeriodInv'
    <3>1. loop.wait \in 0..CheckPeriod /\ loop.sinceReset \in 0..CheckPeriod
      BY <1>2, LoopsTypes
    <3>2. loop.wait + loop.sinceReset >= CheckPeriod /\ (loop.due => loop.wait = 0)
      BY <2>1 DEF WatchInv
    <3>3. loop'.wait + loop'.sinceReset >= CheckPeriod
      BY <1>2, <1>8, <3>1, <3>2, ElapseLoop, TimesAssumption DEF UpTo
    <3>4. loop'.due => loop'.wait = 0
      <4>1. loop'.due = loop.due
        BY <1>2, <1>8, ElapseLoop
      <4>2. loop'.wait = IF loop.wait > 0 THEN loop.wait - 1 ELSE 0
        BY <1>2, <1>8, ElapseLoop
      <4> QED
        BY <3>2, <4>1, <4>2
    <3> QED
      BY <3>3, <3>4
  <2> QED
    BY <2>1, <2>2, <2>3, <2>4
<1>9. ASSUME NEW d \in InUse, Toggle(d) PROVE (AgesInv /\ PeriodInv)'
  <2>1. InUse' = InUse /\ pc' = pc /\ InLoop
    BY <1>9 DEF Toggle, Go, process, InUse
  <2> QED
    BY <1>2, <1>9, <2>1, ToggleLoop DEF WatchInv
<1>10. CASE UNCHANGED vars
  BY <1>10 DEF vars, process, InUse, WatchInv
<1>11. CASE pc' \notin {"read", "jobs", "reset"}
  BY <1>11
<1>12. CASE \E d \in Devices \cup {"gps"} : Replug(d)
  BY <1>12 DEF Replug, process, InUse, WatchInv
<1>13. ASSUME \/ Start \/ Initialize \/ Truncate \/ WriteConfig \/ Close \/ Fail \/ Crash
              \/ Reach("secondary", "open_secondary", "open_primary")
              \/ Reach("primary", "open_primary", "open_gps")
              \/ Reach("gps", "open_gps", "initialize")
              \/ AddDatastore("storage", "filestore", 1)
              \/ \E n \in 0..1 : AddDatastore("filestore", "flush", n)
       PROVE  pc' \notin {"read", "jobs", "reset"}
  BY <1>13 DEF Start, Initialize, Truncate, WriteConfig, Close, Closing, Fail, Crash,
     Reach, Open, NotFound, Busy, AddDatastore, Step
<1> QED
  BY <1>3, <1>4, <1>5, <1>6, <1>7, <1>8, <1>9, <1>10, <1>11, <1>12, <1>13
     DEF Next, StartUp, TakeData

LEMMA WatchKept == Spec => []WatchInv
<1>1. Init => WatchInv
  <2>1. Init => pc = "ended"
    BY Zenon DEF Init
  <2> QED
    BY <2>1, InitTypes DEF WatchInv, AgesInv, PeriodInv, InLoop
<1> QED
  BY <1>1, NextWatch, PTL DEF Spec

\* Hardware that never stopped talking is reset only if the jobs kept the loop
\* from reading for longer than the limit (pysparc_daq:110-112, 178-181).
THEOREM SilentOrUnread == Spec => TalkersAreSpared
<1>1. ASSUME WatchInv, CheckSilent
      PROVE  InUse \cap loop.lapsed # {} \/ loop.sinceRead > SilenceLimit
  <2>1. pc = "jobs" /\ \E d \in InUse : loop.age[d] > SilenceLimit
    BY <1>1 DEF CheckSilent, Silent, Go
  <2>2. PICK d \in InUse : loop.age[d] > SilenceLimit
    BY <2>1
  <2>3. d \in Devices
    BY DEF InUse, Devices
  <2>4. /\ loop.age[d] \in -Grace..(SilenceLimit + 1)
        /\ loop.sinceRead \in 0..(SilenceLimit + 1)
    BY <1>1, <2>3, LoopsTypes DEF WatchInv, TypeInv, TypeOK
  <2>5. d \in loop.lapsed \/ loop.age[d] <= loop.sinceRead
    BY <1>1, <2>1 DEF WatchInv, AgesInv, InLoop
  <2> QED
    BY <2>2, <2>4, <2>5, TimesAssumption
<1>2. WatchInv /\ [Next]_vars
        => [CheckSilent => \/ InUse \cap loop.lapsed # {}
                           \/ loop.sinceRead > SilenceLimit]_vars
  BY <1>1
<1> QED
  BY <1>2, WatchKept, PTL DEF Spec, TalkersAreSpared

\* Hardware that was just reset is given the time to start up
\* (pysparc_daq:69, 120, 178).
THEOREM GraceAfterReset == Spec => ResetsAreSpaced
<1>1. ASSUME WatchInv, CheckSilent PROVE loop.sinceReset > Grace
  <2>1. InLoop /\ loop.due
    BY <1>1 DEF CheckSilent, Go, InLoop
  <2>2. loop.sinceReset \in 0..CheckPeriod
    BY <1>1, LoopsTypes DEF WatchInv, TypeInv, TypeOK
  <2> QED
    BY <1>1, <2>1, <2>2, TimesAssumption DEF WatchInv, PeriodInv
<1>2. WatchInv /\ [Next]_vars => [CheckSilent => loop.sinceReset > Grace]_vars
  BY <1>1
<1> QED
  BY <1>2, WatchKept, PTL DEF Spec, ResetsAreSpaced

=============================================================================
