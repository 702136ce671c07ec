----------------------------- MODULE MCWebChat -----------------------------
(***************************************************************************)
(* Small instances of the web client's page.                               *)
(***************************************************************************)
EXTENDS WebChat, TLC

CONSTANTS ann, cat, dan

\* Nothing in the page tells one peer from another.
Alike == Permutations(Peers)
=============================================================================
