----------------------------- MODULE MCStewJump -----------------------------
(* Stew with a history of the hardware's clock: how many one-second messages *)
(* in a row carried the second after the one before.                         *)
EXTENDS MCStew

VARIABLES
  last,   \* timestamp of the one-second message received last
  streak  \* messages since the clock last jumped, up to FreshnessTime + 1

JumpInit == Init /\ last = 0 /\ streak = 0

JumpNext ==
  \/ \E t \in Times, ticks \in BOOLEAN :
       /\ AddOneSecond(t, ticks)
       /\ last' = t
       /\ streak' = IF t # last + 1 THEN 0
                    ELSE IF streak <= FreshnessTime THEN streak + 1 ELSE streak
  \/ (\E e \in Events : AddEvent(e)) /\ UNCHANGED <<last, streak>>
  \/ Process /\ UNCHANGED <<last, streak>>

JumpSpec == JumpInit /\ [][JumpNext]_<<vars, last, streak>>

\* "recover from very late or very early messages" (add_one_second_message): a
\* clock that has been right for longer than FRESHNESS_TIME is the stew's clock,
\* whatever it said before.
Recovered == streak > FreshnessTime => latest = last
=============================================================================
