------------------------------- MODULE MCMixer ------------------------------
(* A small instance of Mixer around a window of three ticks: coincidences,   *)
(* events just outside the window, ties, and rivals for one partner.         *)
EXTENDS Mixer

MCPrimaries == {2, 4, 9}

MCSecondaries == {3, 6, 8, 12}
=============================================================================
