----------------------------- MODULE MCSettings -----------------------------
(* Two updates in flight, two hours, one minute and two timezones.          *)
EXTENDS Settings, TLC

CONSTANTS h1, h2, m1, z1, z2
MCDefaultTime == <<h1, m1>>
MCSymmetry == Permutations(Slots)
=============================================================================
