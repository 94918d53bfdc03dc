---------------------------- MODULE MCGpsFraming ----------------------------
(* Reports that hold the awkward pairs of bytes: an ETX after a DLE, and an  *)
(* identifier of a command after a DLE.                                      *)
EXTENDS GpsFraming

MCReports == {<<"packet", "DLE", "ETX">>, <<"unparsable", "DLE", "command">>}
=============================================================================
