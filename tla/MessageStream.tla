---------------------------- MODULE MessageStream ----------------------------
(***************************************************************************)
(* How messages get out of the stream of bytes that the HiSPARC hardware   *)
(* sends: BaseHardware.read_into_buffer and flush_device, and              *)
(* HisparcMessageFactory with the parse_message methods it ends up in.     *)
(*                                                                         *)
(* A byte is one of the classes the factory tells apart.  A measured-data  *)
(* message is start, identifier, size, date, a trace as long as the size   *)
(* says, and stop; the other two have no size and no trace.  One turn of   *)
(* the factory (its loop and its recursion) is one step.                   *)
(***************************************************************************)
EXTENDS Integers, Sequences, SequencesExt

CONSTANTS
  Messages,   \* the messages the hardware may send: sequences of bytes
  TraceLength, \* what a byte means as a size: a function from Bytes to Nat
  MaxSent,    \* bound: messages sent
  MaxOverruns \* bound: times the buffers on the way overflow

Kinds == {"one_second", "measured_data", "all_controls"}

\* "bad" is no part of any date; "spare_bytes" and "reset" are the identifiers
\* of messages that the program only sends.
Bytes == Kinds \cup {"start", "stop", "spare_bytes", "reset", "plain", "bad"}

HeaderLength(kind) == IF kind = "measured_data" THEN 4 ELSE 3

Length(kind, size) ==
  HeaderLength(kind) + 1 + IF kind = "measured_data" THEN TraceLength[size] ELSE 0

\* What the hardware sends has the layout that the program expects.
Sendable(s, kind) ==
  /\ Len(s) > HeaderLength(kind) /\ Len(s) = Length(kind, s[3])
  /\ s[1] = "start" /\ s[2] = kind /\ s[Len(s)] = "stop"
  /\ kind # "all_controls" => s[HeaderLength(kind)] # "bad"

ASSUME MessagesAssumption ==
  /\ Messages \subseteq Seq(Bytes) /\ TraceLength \in [Bytes -> Nat]
  /\ \A s \in Messages : \E kind \in Kinds : Sendable(s, kind)

ASSUME StreamBoundsAssumption == MaxSent \in Nat /\ MaxOverruns \in Nat

VARIABLES
  wire,    \* bytes sent and not yet read, with the message they belong to
  buffer,  \* BaseHardware._buffer
  pc,      \* main thread: between calls, in the factory, or dead
  result,  \* what the last call of read_message returned
  \* history
  sent,     \* the messages sent
  returned, \* the bytes of each message extracted
  damaged,  \* numbers of the messages of which a byte was dropped unread
  overruns

vars == <<wire, buffer, pc, result, sent, returned, damaged, overruns>>

\* The bytes of message number n, which is s.
Numbered(s, n) == [i \in DOMAIN s |-> [byte |-> s[i], msg |-> n, at |-> i]]

NumbersIn(s) == {s[i].msg : i \in DOMAIN s}

Init ==
  /\ wire = << >> /\ buffer = << >>
  /\ pc = "idle" /\ result = "none"
  /\ sent = << >> /\ returned = << >> /\ damaged = {}
  /\ overruns = 0

----------------------------------------------------------------------------
(* The hardware and the driver.                                            *)

Send(s) ==
  /\ Len(sent) < MaxSent
  /\ sent' = Append(sent, s)
  /\ wire' = wire \o Numbered(s, Len(sent) + 1)
  /\ UNCHANGED <<buffer, pc, result, returned, damaged, overruns>>

\* "make sure the usb buffers won't fill up while running long tasks": when
\* they do, bytes are dropped on the way.
Overrun(from, to) ==
  /\ overruns < MaxOverruns
  /\ overruns' = overruns + 1
  /\ wire' = SubSeq(wire, 1, from - 1) \o SubSeq(wire, to + 1, Len(wire))
  /\ damaged' = damaged \cup NumbersIn(SubSeq(wire, from, to))
  /\ UNCHANGED <<buffer, pc, result, sent, returned>>

\* flush_device: what has reached this side is dropped, the hardware may be in
\* the middle of a message.
Flush(n) ==
  /\ pc = "idle"
  /\ wire' = SubSeq(wire, n + 1, Len(wire))
  /\ buffer' = << >>
  /\ damaged' = damaged \cup NumbersIn(buffer \o SubSeq(wire, 1, n))
  /\ UNCHANGED <<pc, result, sent, returned, overruns>>

\* The program ended with an exception; the next one opens the device, which
\* flushes it (FtdiChip.open).
Restart(n) ==
  /\ pc = "dead"
  /\ wire' = SubSeq(wire, n + 1, Len(wire))
  /\ buffer' = << >>
  /\ damaged' = damaged \cup NumbersIn(buffer \o SubSeq(wire, 1, n))
  /\ pc' = "idle"
  /\ result' = "none"
  /\ UNCHANGED <<sent, returned, overruns>>

\* read_message: read_into_buffer takes what is there, nothing at times, and
\* the factory is called.
Read(n) ==
  /\ pc = "idle"
  /\ buffer' = buffer \o SubSeq(wire, 1, n)
  /\ wire' = SubSeq(wire, n + 1, Len(wire))
  /\ pc' = "parse"
  /\ UNCHANGED <<result, sent, returned, damaged, overruns>>

----------------------------------------------------------------------------
(* HisparcMessageFactory.                                                  *)

Framed == buffer # << >> /\ buffer[1].byte = "start"

Identified(id) == pc = "parse" /\ Framed /\ Len(buffer) > 1 /\ buffer[2].byte = id

\* Length of the message of this kind that the buffer starts with; the size
\* is part of the header.
FrameLength(kind) == Length(kind, buffer[3].byte)

\* struct.unpack raises no struct.error.
Complete(kind) ==
  Len(buffer) >= HeaderLength(kind) /\ Len(buffer) >= FrameLength(kind)

\* validate_codons_and_id, then the conversion of the date; that of a
\* ControlParameterList is left as it is.
Valid(kind) ==
  /\ buffer[FrameLength(kind)].byte = "stop"
  /\ kind # "all_controls" => buffer[HeaderLength(kind)].byte # "bad"

Return(r) ==
  /\ pc' = "idle"
  /\ result' = r
  /\ UNCHANGED <<wire, sent, damaged, overruns>>

\* strip_until_start_codon
FromStart(s) ==
  LET starts == {i \in DOMAIN s : s[i].byte = "start"}
  IN IF starts = {} THEN << >>
     ELSE SubSeq(s, CHOOSE i \in starts : \A j \in starts : i <= j, Len(s))

\* Variant of StripPartial: the first byte is left where it is.
StripPartialKeeps ==
  /\ buffer' = FromStart(buffer)
  /\ UNCHANGED <<wire, pc, result, sent, returned, damaged, overruns>>

\* strip_partial_message, and the factory calls itself.
StripPartial ==
  /\ buffer' = FromStart(Tail(buffer))
  /\ UNCHANGED <<wire, pc, result, sent, returned, damaged, overruns>>

\* An empty buffer: validate_message_start's IndexError.
FindNothing ==
  /\ pc = "parse" /\ buffer = << >>
  /\ Return("none") /\ UNCHANGED <<buffer, returned>>

\* The StartCodonError of validate_message_start.
FindStart ==
  /\ pc = "parse" /\ buffer # << >> /\ ~Framed
  /\ buffer' = FromStart(buffer)
  /\ UNCHANGED <<wire, pc, result, sent, returned, damaged, overruns>>

\* is_message_for looks at the second byte, and nothing catches the IndexError.
OnlyStart ==
  /\ pc = "parse" /\ Framed /\ Len(buffer) = 1
  /\ pc' = "dead"
  /\ UNCHANGED <<wire, buffer, result, sent, returned, damaged, overruns>>

\* Variant of Wait: a short message is taken for a corrupt one.
WaitNot(kind) ==
  /\ Identified(kind) /\ ~Complete(kind)
  /\ StripPartial

\* struct.error: "message is too short, wait for the rest to come in"
Wait(kind) ==
  /\ Identified(kind) /\ ~Complete(kind)
  /\ Return("none") /\ UNCHANGED <<buffer, returned>>

\* Variant of Extract: the stop codon stays in the buffer.
ExtractLess(kind) ==
  /\ Identified(kind) /\ Complete(kind) /\ Valid(kind)
  /\ returned' = Append(returned, SubSeq(buffer, 1, FrameLength(kind)))
  /\ buffer' = SubSeq(buffer, FrameLength(kind), Len(buffer))
  /\ Return(kind)

\* parse_message succeeds and removes the message from the buffer.
Extract(kind) ==
  /\ Identified(kind) /\ Complete(kind) /\ Valid(kind)
  /\ returned' = Append(returned, SubSeq(buffer, 1, FrameLength(kind)))
  /\ buffer' = SubSeq(buffer, FrameLength(kind) + 1, Len(buffer))
  /\ Return(kind)

\* Variant of Corrupt: all of the message is removed, as if it were all there.
CorruptRemoved(kind) ==
  /\ Identified(kind) /\ Complete(kind) /\ ~Valid(kind)
  /\ buffer' = SubSeq(buffer, FrameLength(kind) + 1, Len(buffer))
  /\ UNCHANGED <<wire, pc, result, sent, returned, damaged, overruns>>

\* CorruptMessageError or ValueError
Corrupt(kind) ==
  /\ Identified(kind) /\ Complete(kind) /\ ~Valid(kind)
  /\ StripPartial

\* "Unknown message type (probably corrupt)"
Unknown(id) == Identified(id) /\ StripPartial

\* InitializeMessage(buff) takes the buffer for its one_second_enabled and
\* leaves it alone.
Initialize ==
  /\ Identified("spare_bytes")
  /\ Return("initialize") /\ UNCHANGED <<buffer, returned>>

\* ResetMessage(buff) is a TypeError, which nothing catches.
Reset ==
  /\ Identified("reset")
  /\ pc' = "dead"
  /\ UNCHANGED <<wire, buffer, result, sent, returned, damaged, overruns>>

Factory ==
  \/ FindNothing \/ FindStart \/ OnlyStart \/ Initialize \/ Reset
  \/ \E kind \in Kinds : Wait(kind) \/ Extract(kind) \/ Corrupt(kind)
  \/ \E id \in Bytes \ (Kinds \cup {"spare_bytes", "reset"}) : Unknown(id)

Next ==
  \/ \E s \in Messages : Send(s)
  \/ \E from, to \in DOMAIN wire : from <= to /\ Overrun(from, to)
  \/ \E n \in 0..Len(wire) : Flush(n) \/ Restart(n) \/ Read(n)
  \/ Factory

Spec == Init /\ [][Next]_vars

\* A call that has been made is executed.
FairSpec == Spec /\ WF_vars(Factory)

----------------------------------------------------------------------------
(* Properties.                                                             *)

NumberedBytes == [byte : Bytes, msg : 1..Len(sent), at : Nat]

TypeOK ==
  /\ wire \in Seq(NumberedBytes) /\ buffer \in Seq(NumberedBytes)
  /\ pc \in {"idle", "parse", "dead"}
  /\ result \in Kinds \cup {"none", "initialize"}
  /\ sent \in Seq(Messages)
  /\ \A i \in DOMAIN returned : returned[i] \in Seq(NumberedBytes)
  /\ damaged \subseteq 1..Len(sent)
  /\ overruns \in 0..MaxOverruns

Whole(n) == Numbered(sent[n], n)

\* As long as no byte is dropped the messages come out as they went in: those
\* returned are the first ones sent, each whole, in order and once, wherever
\* the reads cut the stream; the bytes of the others, and no more, are still
\* there (in order: EachByteOnce).
CleanStreamIsRead ==
  damaged = {} =>
    /\ \A i \in DOMAIN returned : i <= Len(sent) /\ returned[i] = Whole(i)
    /\ ToSet(buffer \o wire) =
         UNION {ToSet(Whole(n)) : n \in Len(returned) + 1..Len(sent)}

Before(a, b) == a.msg < b.msg \/ (a.msg = b.msg /\ a.at < b.at)

InOrder(s) == \A i, j \in DOMAIN s : i < j => Before(s[i], s[j])

\* Stripping and extracting never use a byte twice and never change the order:
\* no message is returned a second time, and none overtakes another.
EachByteOnce ==
  /\ InOrder(buffer \o wire)
  /\ \A i \in DOMAIN returned :
       /\ InOrder(returned[i] \o (buffer \o wire))
       /\ \A j \in DOMAIN returned : i < j => InOrder(returned[i] \o returned[j])

\* Stripping finds every message that arrived whole, however damaged the ones
\* before it are, unless the factory took one of its bytes for a part of
\* another message that has a stop codon in the right place.
IntactIsFound ==
  \A n \in DOMAIN sent :
    \/ n \in damaged
    \/ \E i \in DOMAIN returned : returned[i] = Whole(n) \/
         (NumbersIn(returned[i]) # {n} /\ n \in NumbersIn(returned[i]))
    \/ ToSet(Whole(n)) \subseteq ToSet(buffer \o wire)

\* Every call of the factory comes to an end, whatever is in the buffer.
CallsReturn == (pc = "parse") ~> (pc # "parse")

\* "Return a message, extracted from the buffer": a call that returns a
\* message takes its bytes, so that the next call sees what follows it.
MessagesAreExtracted ==
  [][pc = "parse" /\ pc' = "idle" /\ result' # "none" => Len(buffer') < Len(buffer)]_vars

\* "message is too short, wait for the rest to come in": reading an undamaged
\* stream never raises, wherever the reads cut it.
ShortMessagesWait == damaged = {} => pc # "dead"
=============================================================================
