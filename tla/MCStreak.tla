------------------------------ MODULE MCStreak ------------------------------
(* Two chats, days of two clock units and zones half a day apart, one of    *)
(* which puts its clocks forward and back again: an update may sleep        *)
(* through midnight, and moving west turns the date back.                   *)
EXTENDS Streak, TLC

CONSTANTS west, east
MCOffset ==
  west :> [t \in 0..MaxClock |-> 0] @@
  east :> [t \in 0..MaxClock |-> IF t \in 3..5 THEN 2 ELSE 1]
MCSymmetry == Permutations(Chats)
=============================================================================
