------------------------------ MODULE NameSet ------------------------------
(***************************************************************************)
(* What a worker's client table promises to the rest of the server: a set  *)
(* of entries, searched and removed by name, several of which may bear the *)
(* same name.  Module Zmr uses its tables as such sets; module HashTable   *)
(* shows that ht.c implements one.                                         *)
(***************************************************************************)
EXTENDS Naturals, FiniteSets

CONSTANTS Entries, Names, NameOf, Null, Capacity
VARIABLES members,  \* the entries in the table
          result    \* the last call and what it returned

Named(n) == {p \in members : NameOf[p] = n}
Returns(op, arg, ret) == result' = [op |-> op, arg |-> arg, ret |-> ret]

Init == members = {} /\ result = Null

\* An entry that is not in the table is added, if there is room.
Add(p) ==
  /\ p \notin members
  /\ IF Cardinality(members) < Capacity
     THEN members' = members \cup {p} /\ Returns("add", p, 0)
     ELSE UNCHANGED members /\ Returns("add", p, 1)

\* A search returns an entry of that name, and Null only if there is none.
Search(n) ==
  /\ \E p \in (IF Named(n) = {} THEN {Null} ELSE Named(n)) : Returns("search", n, p)
  /\ UNCHANGED members

\* A removal takes out exactly one entry of that name, if there is any.
Remove(n) ==
  \/ Named(n) = {} /\ UNCHANGED members /\ Returns("remove", n, 0)
  \/ \E p \in Named(n) : members' = members \ {p} /\ Returns("remove", n, 1)

Next == \/ \E p \in Entries : Add(p)
        \/ \E n \in Names : Search(n) \/ Remove(n)

Spec == Init /\ [][Next]_<<members, result>>
=============================================================================
