------------------------------- MODULE MCZmr -------------------------------
(***************************************************************************)
(* Small instances of the relay server.  99 stands for a number in an      *)
(* unwritten client_t.fd that is no open descriptor.                       *)
(***************************************************************************)
EXTENDS Zmr

CONSTANTS c1, c2, c3, c4, ann, bob

\* c2 is bob's connection, the others are ann's.
C2IsBob == [c \in Conns |-> IF c = c2 THEN bob ELSE ann]

\* How many messages each client sends.
None       == [c \in Conns |-> 0]
OneEach    == [c \in Conns |-> 1]
OneByC2    == [c \in Conns |-> IF c = c2 THEN 1 ELSE 0]
OneThenTwo == [c \in Conns |-> IF c = c2 THEN 2 ELSE 1]
TwoByC2    == [c \in Conns |-> IF c = c2 THEN 2 ELSE 0]
=============================================================================
