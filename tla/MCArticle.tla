---------------------------- MODULE MCArticle ----------------------------
(* Articles of each of the three formats, up to a number of texts.         *)
EXTENDS Article
=============================================================================
