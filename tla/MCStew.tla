------------------------------- MODULE MCStew -------------------------------
(* A small instance of Stew: six seconds, of which three are fresh at a time. *)
EXTENDS Stew

CONSTANT LastTime

MCTimes == 1..LastTime

\* Two events in one second and a later one.
MCEvents == {<<1, 1>>, <<1, 2>>, <<3, 1>>}
=============================================================================
