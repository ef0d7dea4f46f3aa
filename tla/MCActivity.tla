----------------------------- MODULE MCActivity -----------------------------
(* Days of two units, weeks of three days, months of two days, two of them  *)
(* to a year; east puts its clocks forward and back again.  The clock begins *)
(* when it is the second day in the west.                                   *)
EXTENDS Activity, TLC

CONSTANTS west, east
MCOffset ==
  [z \in {west, east} |->
     [t \in 0..MaxClock |-> IF z = west THEN 2 ELSE IF t \in 3..5 THEN 4 ELSE 3]]
=============================================================================
