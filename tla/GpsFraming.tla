----------------------------- MODULE GpsFraming -----------------------------
(***************************************************************************)
(* How reports get out of the stream of bytes that the Trimble GPS sends:  *)
(* TrimbleGPS.read_message, GPSMessage.extract_message_from_buffer and     *)
(* GPSMessageFactory.                                                      *)
(*                                                                         *)
(* A report is framed as DLE report DLE ETX, with every DLE of the report  *)
(* doubled, so that only a run of DLEs of odd length before an ETX ends    *)
(* it.  A byte is one of the classes the code tells apart; the identifier  *)
(* of one or two bytes is one of them, and the layout a report must have   *)
(* is its length.                                                          *)
(***************************************************************************)
EXTENDS Integers, Sequences, SequencesExt

CONSTANTS
  Reports,      \* the reports the GPS may send: sequences of bytes
  PacketLength, \* length of a timing packet or software version
  MaxSent,      \* bound: reports sent
  MaxOverruns   \* bound: times the buffers on the way overflow

\* "packet": an identifier with a layout of its own; "unparsable" has none.
\* "command": the identifiers of ResetMessage and SetInitialPosition, and
\* "survey" that of SetSurveyParameters, which the program only sends.
Bytes == {"DLE", "ETX", "packet", "unparsable", "command", "survey", "plain"}

\* No identifier is a DLE or an ETX, and the GPS sends no command to the
\* program.
ASSUME ReportsAssumption ==
  /\ Reports \subseteq Seq(Bytes)
  /\ \A r \in Reports : r # << >> /\ r[1] \notin {"DLE", "ETX", "command"}

ASSUME GpsBoundsAssumption ==
  PacketLength \in Nat /\ MaxSent \in Nat /\ MaxOverruns \in Nat

VARIABLES
  wire,    \* bytes sent and not yet read, with the report they belong to
  buffer,  \* BaseHardware._buffer
  result,  \* what the last call of read_message returned or raised
  \* history
  sent,      \* the reports sent
  extracted, \* the frames taken out of the buffer, as extracted
  damaged,   \* numbers of the reports of which a byte was dropped unread
  overruns

vars == <<wire, buffer, result, sent, extracted, damaged, overruns>>

Init ==
  /\ wire = << >> /\ buffer = << >> /\ result = "none"
  /\ sent = << >> /\ extracted = << >> /\ damaged = {} /\ overruns = 0

NumbersIn(s) == {s[i].msg : i \in DOMAIN s}

\* The bytes s of report number n.
Numbered(s, n) == [i \in DOMAIN s |-> [byte |-> s[i], msg |-> n]]

----------------------------------------------------------------------------
(* The GPS and the driver.                                                 *)

Escaped(r) ==
  LET doubled[i \in 0..Len(r)] ==
        IF i = 0 THEN << >>
        ELSE doubled[i - 1] \o (IF r[i] = "DLE" THEN <<"DLE", "DLE">> ELSE <<r[i]>>)
  IN  doubled[Len(r)]

Frame(r) == <<"DLE">> \o Escaped(r) \o <<"DLE", "ETX">>

Send(r) ==
  /\ Len(sent) < MaxSent
  /\ sent' = Append(sent, r)
  /\ wire' = wire \o Numbered(Frame(r), Len(sent) + 1)
  /\ UNCHANGED <<buffer, result, extracted, damaged, overruns>>

Overrun(from, to) ==
  /\ overruns < MaxOverruns
  /\ overruns' = overruns + 1
  /\ wire' = SubSeq(wire, 1, from - 1) \o SubSeq(wire, to + 1, Len(wire))
  /\ damaged' = damaged \cup NumbersIn(SubSeq(wire, from, to))
  /\ UNCHANGED <<buffer, result, sent, extracted>>

\* flush_device: what has reached this side is dropped.  So does the open of
\* a next program, if there is one after an exception.
Flush(n) ==
  /\ result' = "none"
  /\ buffer' = << >>
  /\ wire' = SubSeq(wire, n + 1, Len(wire))
  /\ damaged' = damaged \cup NumbersIn(buffer \o SubSeq(wire, 1, n))
  /\ UNCHANGED <<sent, extracted, overruns>>

----------------------------------------------------------------------------
(* extract_message_from_buffer.                                            *)

DLEs(b) == {i \in DOMAIN b : b[i].byte = "DLE"}

\* Variant: everything before the last DLE is garbage.
StripGarbageToLast(b) ==
  IF DLEs(b) = {} THEN b ELSE SubSeq(b, Max(DLEs(b)), Len(b))

\* The buffer from its first DLE on, or all of it if there is none.
StripGarbage(b) ==
  IF DLEs(b) = {} THEN b ELSE SubSeq(b, Min(DLEs(b)), Len(b))

\* The length of the run of DLEs directly before position i.
DLEsBefore(b, i) == i - 1 - Max({0} \cup (1..i - 1 \ DLEs(b)))

\* Variant: an escaped DLE before an ETX is a stop codon, too.
StopCodonEscaped(b) ==
  LET stops == {i \in DOMAIN b : b[i].byte = "ETX"}
  IN  IF stops = {} THEN 0 ELSE Min(stops)

\* The position of the ETX of the first stop codon that is not escaped, or 0.
StopCodon(b) ==
  LET stops == {i \in DOMAIN b : b[i].byte = "ETX" /\ DLEsBefore(b, i) % 2 = 1}
  IN  IF stops = {} THEN 0 ELSE Min(stops)

\* msg.replace: pairs of DLEs, from the left, become one DLE.  A DLE goes if an
\* odd number of DLEs is directly before it.
Squashed(m) ==
  LET second(i) == m[i].byte = "DLE" /\ DLEsBefore(m, i) % 2 = 1
      upto[i \in 0..Len(m)] ==
        IF i = 0 THEN << >>
        ELSE IF second(i) THEN upto[i - 1] ELSE Append(upto[i - 1], m[i])
  IN  upto[Len(m)]

Plain(m) == [i \in DOMAIN m |-> m[i].byte]

\* GPSMessageFactory, find_message_class and the constructor of the class.
\* Of the classes that are only sent, ResetMessage raises a ValueError and
\* SetInitialPosition a TypeError, which nothing catches; SetSurveyParameters
\* takes the report for its number of fixes.
Outcome(m) ==
  IF m = << >> THEN "none"
  ELSE CASE m[1] = "packet" /\ Len(m) = PacketLength -> "message"
         [] m[1] = "unparsable" -> "message"
         [] m[1] = "survey" -> "command"
         [] m[1] = "command" -> "raised"
         [] OTHER -> "none"

\* At most one frame leaves the buffer, which is now b.
ExtractFrom(b) ==
  \E stop \in {StopCodon(b)} :
    \/ /\ stop = 0
       /\ buffer' = b
       /\ result' = "none"
       /\ UNCHANGED extracted
    \/ /\ stop # 0
       /\ buffer' = SubSeq(b, stop + 1, Len(b))
       /\ extracted' = Append(extracted, Squashed(SubSeq(b, 2, stop - 2)))
       /\ result' = Outcome(Plain(Last(extracted')))

\* Variant: the factory is not called if nothing was read.
ReadMessageIfData(n) ==
  /\ n > 0
  /\ result # "raised"
  /\ wire' = SubSeq(wire, n + 1, Len(wire))
  /\ ExtractFrom(StripGarbage(buffer \o SubSeq(wire, 1, n)))
  /\ UNCHANGED <<sent, damaged, overruns>>

\* read_message: what is there is read, nothing at times.
ReadMessage(n) ==
  /\ result # "raised"
  /\ wire' = SubSeq(wire, n + 1, Len(wire))
  /\ \E b \in {StripGarbage(buffer \o SubSeq(wire, 1, n))} : ExtractFrom(b)
  /\ UNCHANGED <<sent, damaged, overruns>>

Next ==
  \/ \E r \in Reports : Send(r)
  \/ \E from, to \in 1..Len(wire) : from <= to /\ Overrun(from, to)
  \/ \E n \in 0..Len(wire) : Flush(n)
  \/ \E n \in 0..Len(wire) : ReadMessage(n)

\* The program reads in an endless loop, as scripts/test_gps.py and
\* test_timestamp_gps.py do, until an exception ends it; the daemon never reads
\* the GPS.  What the device has is read in the end.
Fairness ==
  /\ WF_vars(wire # << >> /\ ReadMessage(Len(wire)))
  /\ WF_vars(ReadMessage(0))

Spec == Init /\ [][Next]_vars /\ Fairness

----------------------------------------------------------------------------
TypeOK ==
  LET Item == [byte : Bytes, msg : 1..MaxSent]
  IN  /\ wire \in Seq(Item) /\ buffer \in Seq(Item)
      /\ result \in {"none", "message", "command", "raised"}
      /\ sent \in Seq(Reports) /\ Len(sent) <= MaxSent
      /\ extracted \in Seq(Seq(Item))
      /\ damaged \subseteq 1..Len(sent)
      /\ overruns \in 0..MaxOverruns

\* A stream of which nothing was dropped comes out as it went in, report by
\* report, whatever bytes the reports hold and wherever the reads cut it, and
\* nothing is raised (gps_messages.py:48-74).
CleanStreamIsRead ==
  damaged = {} =>
    /\ IsPrefix([i \in DOMAIN extracted |-> Plain(extracted[i])], sent)
    /\ result # "raised"

\* The reports that came out byte for byte.
Found == {n \in DOMAIN sent : \E i \in DOMAIN extracted :
            /\ NumbersIn(extracted[i]) = {n}
            /\ Plain(extracted[i]) = sent[n]}

\* All of report n is still to be read.
Waits(n) ==
  LET rest  == buffer \o wire
      frame == Numbered(Frame(sent[n]), n)
  IN  \E p \in 0..Len(rest) - Len(frame) :
        SubSeq(rest, p + 1, p + Len(frame)) = frame

\* After bytes were lost anywhere, the code is back in step at the next but
\* one: a whole report that follows on a whole report comes out, or is all
\* still to be read (gps_messages.py:51-74).
BackInStep ==
  \A n \in DOMAIN sent :
    {n, n - 1} \cap damaged = {} => n \in Found \/ Waits(n)

\* When the GPS falls silent and no exception ends the loop that reads it, all
\* that is left in the buffer is part of a frame or garbage without a DLE: a
\* backlog of one report per call is worked off (gps_messages.py:258-283).
BacklogIsRead ==
  <>[](result = "raised" \/ (wire = << >> /\ StopCodon(StripGarbage(buffer)) = 0))

=============================================================================
