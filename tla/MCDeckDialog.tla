---------------------------- MODULE MCDeckDialog ----------------------------
(* Pages of two cards; up to two pages, and up to two decks, one of which   *)
(* may be opened on a page the other left behind.                           *)
EXTENDS DeckDialog, TLC

MCSymmetry == Permutations(Names)
=============================================================================
