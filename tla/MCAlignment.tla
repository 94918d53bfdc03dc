----------------------------- MODULE MCAlignment -----------------------------
(* Settings 0..6.  Rising and falling lines with the root on a setting, near  *)
(* one, halfway and at an end; lines without a root; a response that bends;   *)
(* responses with noise, one of them with its lower end on target.            *)
EXTENDS Alignment

Line(k, m) == [x \in 0..6 |-> {k * x + m}]

MCResponses ==
  {Line(1, -2), Line(-2, 5), Line(3, -14), Line(-1, 6), Line(2, 1), Line(0, 0),
   [x \in 0..6 |-> {(x * x) - 13}],
   [x \in 0..6 |-> {8 - (4 * x), 7 - (3 * x)}],
   [x \in 0..6 |-> IF x = 0 THEN {0, 1} ELSE {x, x - 1}],
   [x \in 0..6 |-> IF x = 0 THEN {0, -1} ELSE {-x}]}

=============================================================================
