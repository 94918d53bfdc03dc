------------------------------ MODULE Settings ------------------------------
(***************************************************************************)
(* How settings become the bytes that the hardware is sent: the trigger    *)
(* condition of class Config, and util.map_setting, which maps a clipped   *)
(* value linearly to an integer.                                           *)
(***************************************************************************)
EXTENDS Integers

\* num_low and num_high detectors over their threshold, both or either.
Conditions ==
  [num_low : 0..4, num_high : 0..4, or_not_and : BOOLEAN,
   use_external : BOOLEAN, calibration_mode : BOOLEAN]

BuildTriggerCondition(c) ==
  IF c.calibration_mode THEN 128
  ELSE c.num_low + 8 * c.num_high + (IF c.or_not_and THEN 3 ELSE 0)
         + (IF c.use_external THEN 64 ELSE 0)

UnpackTriggerCondition(byte) ==
  LET low == byte % 8
      high == (byte \div 8) % 8
      either == high > 0 /\ low >= 4
  IN  [num_low |-> IF either THEN (low % 4) + 1 ELSE low,
       num_high |-> high,
       or_not_and |-> either,
       use_external |-> (byte \div 64) % 2 = 1,
       calibration_mode |-> (byte \div 128) % 2 = 1]

\* The conditions that the byte can tell apart: "either" needs a number of both,
\* "both" leaves the bit of "either" alone.
Codable(c) ==
  IF c.or_not_and THEN c.num_low > 0 /\ c.num_high > 0
                  ELSE c.num_low < 4 \/ c.num_high = 0

\* clipped_map: the value in the units of its domain.
Clipped(v, low, high) == IF v < low THEN low ELSE IF v > high THEN high ELSE v

\* map_setting.  It computes with floats, and int() cuts the fraction off: where
\* the exact result is an integer, the computed one may be a little less, and
\* the setting one lower.  The ends are exact.  For the values in use only the
\* coincidence times, in steps of 5 ns, do come out lower; volts and bytes do
\* not.
MapSettings(v, low, high, setting_low, setting_high) ==
  LET steps == (Clipped(v, low, high) - low) * (setting_high - setting_low)
      exact == setting_low + steps \div (high - low)
  IN  IF steps % (high - low) = 0 /\ steps # 0 /\ v < high THEN {exact - 1, exact}
                                                           ELSE {exact}

=============================================================================
