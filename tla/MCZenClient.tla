---------------------------- MODULE MCZenClient ----------------------------
(***************************************************************************)
(* Small instances of the terminal client.                                 *)
(***************************************************************************)
EXTENDS ZenClient, TLC

CONSTANTS ann, bob, me, nick, junk

\* The nickname sorts before the keys, and bob before ann.
Order == (junk :> 0) @@ (nick :> 1) @@ (bob :> 2) @@ (ann :> 3)
=============================================================================
