--------------------------- MODULE MCLookupDialog ---------------------------
(* Two chats; two words, one of them spelt in two ways; two dictionaries.    *)
EXTENDS LookupDialog, TLC

CONSTANTS house, House, home, w1, w2, tsbm, rbs10
MCNorm == house :> w1 @@ House :> w1 @@ home :> w2
MCPriority == tsbm :> 1 @@ rbs10 :> 3
MCArticles ==
  {[head |-> house, dict |-> rbs10], [head |-> House, dict |-> tsbm],
   [head |-> home, dict |-> tsbm], [head |-> NoHead, dict |-> rbs10]}
MCSymmetry == Permutations(Chats)
=============================================================================
