--------------------------- MODULE MCEventStorage ---------------------------
(* Small instances of EventStorage: one datastore, as the daemon is          *)
(* configured by default, and two (store_data_in_file).                      *)
EXTENDS EventStorage

CONSTANTS nikhef, file, k1, k2

\* No two events of equal content.
MCDistinct == [k \in Keys |-> 1]

\* The content k1 comes twice.
MCRepeated == [k \in Keys |-> IF k = k1 THEN 2 ELSE 1]

MCOneWorker == <<nikhef>>

MCTwoWorkers == <<nikhef, file>>
=============================================================================
