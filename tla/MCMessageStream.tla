--------------------------- MODULE MCMessageStream ---------------------------
(* A small instance of MessageStream: messages with every awkward trace (a    *)
(* start codon and an identifier, a stop codon, bytes of commands).           *)
EXTENDS MessageStream

OneSecond == <<"start", "one_second", "plain", "stop">>

AllControls == <<"start", "all_controls", "bad", "stop">>

\* "plain" is a size of two bytes of trace, any other byte one of three.
MCTraceLength == [b \in Bytes |-> IF b = "plain" THEN 2 ELSE 3]

MeasuredData(x, y) ==
  <<"start", "measured_data", "plain", "plain", x, y, "stop">>

MCMessages ==
  {OneSecond, AllControls,
   MeasuredData("start", "spare_bytes"), MeasuredData("reset", "start")}

\* The hardware sends one message, in whose trace the bytes of a command occur.
MCCommandInTrace == {MeasuredData("start", "spare_bytes")}

MCOneSecondOnly == {OneSecond}
=============================================================================
