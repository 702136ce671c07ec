---------------------------- MODULE MCHashTable ----------------------------
(***************************************************************************)
(* Five entries for four slots, two names borne by two entries each, under *)
(* every hash function.                                                    *)
(***************************************************************************)
EXTENDS HashTable, TLC
CONSTANTS p1, p2, p3, p4, p5, ann, bob, cid
Named == (p1 :> ann) @@ (p2 :> ann) @@ (p3 :> bob) @@ (p4 :> bob) @@ (p5 :> cid)
=============================================================================
