--------------------------- MODULE MCCardSchedule ---------------------------
(* Two chats of one owner and the four ratings of the review dialog.       *)
EXTENDS CardSchedule, TLC

MCQualities == {0, 2, 4, 5}
MCSymmetry == Permutations(OwnChats)
=============================================================================
