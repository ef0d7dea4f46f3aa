---------------------------- MODULE MCCardStore ----------------------------
(* Two chats of one user and one of another, who may reach for any deck.    *)
EXTENDS CardStore, TLC

CONSTANTS a1, a2, b1, ana, ben, w1, w2
MCUserOf == a1 :> ana @@ a2 :> ana @@ b1 :> ben
MCSymmetry == Permutations({a1, a2}) \cup Permutations(Words)
=============================================================================
