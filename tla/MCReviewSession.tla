--------------------------- MODULE MCReviewSession ---------------------------
(* Two chats of the user on a deck of two cards.                             *)
EXTENDS ReviewSession, TLC

MCSymmetry == Permutations(Chats) \cup Permutations(Cards)
=============================================================================
