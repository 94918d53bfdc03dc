------------------------------ MODULE Muonlab ------------------------------
(***************************************************************************)
(* bin/muonlab_with_http_api: one process reads lifetimes from the Muonlab *)
(* through an FtdiChip and keeps them in a table, a second one serves the  *)
(* table over HTTP and asks the first for it over a pipe, and the main     *)
(* process watches both and shuts them down.                               *)
(*                                                                         *)
(* A read-out is a number; its lifetimes are left out.  An answer on the   *)
(* pipe is the number of rows it holds.                                    *)
(***************************************************************************)
EXTENDS Integers, Sequences, FiniteSets

CONSTANTS
  PipeRows,    \* rows that fit into the pipe before somebody reads it
  MaxReadouts, \* bound: read-outs that are not empty
  MaxErrors    \* bound: failed tries to read or write the chip

ASSUME MuonlabBoundsAssumption ==
  PipeRows \in Nat /\ MaxReadouts \in Nat /\ MaxErrors \in Nat

Unbound == -1  \* no value has been assigned to data
Empty == 0     \* an empty list

VARIABLES
  plugged, \* is the device on the bus?
  \* the process muonlab
  pc,
  chip,    \* FtdiChip: open, closed, or no chip but a FakeMuonlabII
  tries,   \* tries that failed in this call of read or write
  data,    \* the last read-out
  table,   \* the read-outs in the table, in order
  \* the HTTP process
  http,    \* idle, waiting for an answer, or gone
  asked,   \* rows in the table when it asked
  request, \* is there a request in the pipe?
  answers, \* answers in the pipe
  \* the main process
  main,    \* watching, joining (must_shutdown is set), or ended
  \* history
  readouts,   \* read-outs so far
  fakes,      \* those that a FakeMuonlabII made up
  missing,    \* was the device missing at an open?
  errors,     \* failed tries
  readErrors  \* ReadErrors raised in the loop

device == <<plugged, chip, tries, errors, readErrors, missing>>
rows == <<data, table, readouts, fakes>>
pipe == <<http, asked, request, answers>>
vars == <<pc, device, rows, pipe, main>>

\* Without --append the process returns if the table exists.
Init ==
  /\ plugged \in BOOLEAN /\ pc \in {"open", "ended"}
  /\ chip = "closed" /\ tries = 0 /\ data = Unbound /\ table = << >>
  /\ http = "idle" /\ asked = 0 /\ request = FALSE /\ answers = << >>
  /\ main = "watching"
  /\ readouts = 0 /\ fakes = {} /\ missing = FALSE /\ errors = 0 /\ readErrors = 0

Done == pc \in {"ended", "dead"}

----------------------------------------------------------------------------
(* initialize_muonlab.                                                     *)

\* After it, the loop starts, or goes on behind the handler that called it.
AfterInit == IF data = Unbound THEN "check" ELSE "store"

\* Variant: every error at the open is answered with fake hardware.
OpenOrFake ==
  /\ pc = "open" /\ pc' = AfterInit
  /\ chip' = "fake"
  /\ missing' = (missing \/ ~plugged)
  /\ UNCHANGED <<plugged, tries, errors, readErrors, rows, pipe, main>>

\* MuonlabII(), or FakeMuonlabII() after a DeviceNotFoundError; any other error
\* ends the process.
Open ==
  /\ pc = "open"
  /\ \/ plugged /\ chip' = "open" /\ pc' = "configure" /\ UNCHANGED missing
     \/ plugged /\ pc' = "dead" /\ UNCHANGED <<chip, missing>>
     \/ ~plugged /\ chip' = "fake" /\ pc' = AfterInit /\ missing' = TRUE
  /\ UNCHANGED <<plugged, tries, errors, readErrors, rows, pipe, main>>

\* One try of FtdiChip.read or write fails; after three the chip is closed.
FailedTry(afterwards) ==
  /\ chip = "open" /\ errors < MaxErrors
  /\ errors' = errors + 1
  /\ tries' = (tries + 1) % 3
  /\ chip' = IF tries = 2 THEN "closed" ELSE "open"
  /\ pc' = IF tries = 2 THEN afterwards ELSE pc

\* The flush at the open, and the settings.  Nothing catches an error here.
Configure ==
  /\ pc = "configure"
  /\ \/ /\ pc' = AfterInit /\ tries' = 0
        /\ UNCHANGED <<chip, errors>>
     \/ FailedTry("dead")
  /\ UNCHANGED <<plugged, readErrors, missing, rows, pipe, main>>

----------------------------------------------------------------------------
(* The loop.                                                               *)

Check ==
  /\ pc = "check"
  /\ pc' = IF main = "watching" THEN "read" ELSE "ended"
  /\ UNCHANGED <<device, rows, pipe, main>>

\* A read-out, or an empty one, which made-up read-outs never are.
NewData(d) ==
  /\ d <= MaxReadouts
  /\ d = Empty => chip = "open" \/ readouts = MaxReadouts
  /\ data' = d
  /\ readouts' = IF d = Empty THEN readouts ELSE d
  /\ fakes' = IF chip = "fake" /\ d # Empty THEN fakes \cup {d} ELSE fakes

\* read_lifetime_data.  A word cut in two is an IndexError, and one with a wrong
\* flag a ValueError, which nothing catches.
ReadLifetimes ==
  /\ pc = "read"
  /\ \/ /\ chip # "closed"
        /\ \E d \in {Empty, readouts + 1} : NewData(d)
        /\ pc' = "store" /\ tries' = 0
        /\ UNCHANGED <<chip, errors, readErrors>>
     \/ /\ chip = "open"
        /\ pc' = "dead"
        /\ UNCHANGED <<chip, tries, errors, readErrors, data, readouts, fakes>>
     \/ /\ FailedTry("store")
        /\ readErrors' = IF tries = 2 THEN readErrors + 1 ELSE readErrors
        /\ UNCHANGED <<data, readouts, fakes>>
  /\ UNCHANGED <<plugged, missing, table, pipe, main>>

\* Variant: a ClosedDeviceError is passed over as a ReadError is.
ReadClosedPassed ==
  /\ pc = "read" /\ chip = "closed" /\ pc' = "store"
  /\ UNCHANGED <<device, rows, pipe, main>>

\* ClosedDeviceError: the hardware is initialized anew.
ReadClosed ==
  /\ pc = "read" /\ chip = "closed" /\ pc' = "open"
  /\ UNCHANGED <<device, rows, pipe, main>>

\* `if data': after an error data is what the last good read left, and there is
\* none if the first read failed.
Store ==
  /\ pc = "store"
  /\ pc' = IF data = Unbound THEN "dead" ELSE "poll"
  /\ table' = IF data > Empty THEN Append(table, data) ELSE table
  /\ UNCHANGED <<device, data, readouts, fakes, pipe, main>>

\* Variant: the request stays in the pipe.
PollWithoutRecv ==
  /\ pc = "poll"
  /\ pc' = IF request THEN "answer" ELSE "check"
  /\ UNCHANGED <<device, rows, pipe, main>>

\* conn.poll and recv.
Poll ==
  /\ pc = "poll"
  /\ pc' = IF request THEN "answer" ELSE "check"
  /\ request' = FALSE
  /\ UNCHANGED <<device, rows, http, asked, answers, main>>

\* The sender waits for a reader if the answer does not fit into the pipe; the
\* other end stays open in the main process.
Blocked == pc = "answer" /\ Len(table) > PipeRows /\ http = "gone"

Answer ==
  /\ pc = "answer" /\ ~Blocked
  /\ pc' = "check"
  /\ answers' = Append(answers, Len(table))
  /\ UNCHANGED <<device, rows, http, asked, request, main>>

Muon == \/ Open \/ Configure \/ Check \/ ReadLifetimes \/ ReadClosed
        \/ Store \/ Poll \/ Answer

----------------------------------------------------------------------------
(* The other processes.                                                    *)

\* get_data: one request at a time.
Ask ==
  /\ http = "idle" /\ main = "watching"
  /\ http' = "waiting" /\ asked' = Len(table) /\ request' = TRUE
  /\ UNCHANGED <<pc, device, rows, answers, main>>

Receive ==
  /\ http = "waiting" /\ answers # << >>
  /\ http' = "idle" /\ answers' = Tail(answers)
  /\ UNCHANGED <<pc, device, rows, asked, request, main>>

HttpEnds ==
  /\ http # "gone" /\ http' = "gone"
  /\ UNCHANGED <<pc, device, rows, asked, request, answers, main>>

\* Variant: the main process watches the server only.
ShutDownAfterServer ==
  /\ main = "watching" /\ http = "gone"
  /\ main' = "joining"
  /\ UNCHANGED <<pc, device, rows, pipe>>

\* The main process sees that one of the others has ended, or is interrupted.
ShutDown ==
  /\ main = "watching"
  /\ main' = "joining" /\ http' = "gone"
  /\ UNCHANGED <<pc, device, rows, asked, request, answers>>

Join ==
  /\ main = "joining" /\ Done
  /\ main' = "ended"
  /\ UNCHANGED <<pc, device, rows, pipe>>

Replug ==
  /\ plugged' = ~plugged
  /\ UNCHANGED <<pc, chip, tries, errors, readErrors, missing, rows, pipe, main>>

Next == Muon \/ Ask \/ Receive \/ HttpEnds \/ ShutDown \/ Join \/ Replug

\* Each process runs; what ends the server or interrupts the program need not
\* come.
Fairness ==
  /\ WF_vars(Muon) /\ WF_vars(Receive) /\ WF_vars(Join)
  /\ WF_vars((Done \/ http = "gone") /\ ShutDown)

Spec == Init /\ [][Next]_vars /\ Fairness

----------------------------------------------------------------------------
Times(d) == Cardinality({i \in DOMAIN table : table[i] = d})

\* A read-out is in the table once, and twice more for every ReadError: once
\* for the pass that failed and once for the one that opened the chip again
\* (muonlab_with_http_api:102-116).
RepetitionsAreBounded ==
  \A d \in 1..readouts : Times(d) <= 1 + 2 * readErrors

\* Lifetimes that were made up are in the table only if the device was missing
\* when it was opened, at the start or after an error
\* (muonlab_with_http_api:130-137).
FakesNeedMissingDevice ==
  (\E i \in DOMAIN table : table[i] \in fakes) => missing

\* An answer holds at least what was in the table when it was asked for
\* (muonlab_with_http_api:56-57, 117-122).
AnswersAreCurrent ==
  http = "waiting" /\ answers # << >> => Head(answers) >= asked

\* When one process has ended or the program is interrupted, all of them end,
\* unless an answer too large for the pipe lost its reader
\* (muonlab_with_http_api:117-122, 179-190).
EverybodyEnds ==
  (Done \/ http = "gone" \/ main = "joining") ~> (main = "ended" \/ Blocked)

=============================================================================
