------------------------------- MODULE Lists -------------------------------
(***************************************************************************)
(* What the components do with lists, as recursive functions.              *)
(***************************************************************************)
EXTENDS Integers, Sequences

\* What is at some places of a list, in order: SelectSeq, written out so that
\* theorems can be proved about it.
Picked(list, places) ==
  LET upTo[n \in 0..Len(list)] ==
        IF n = 0 THEN <<>>
        ELSE IF n \in places THEN Append(upTo[n - 1], list[n]) ELSE upTo[n - 1]
  IN  upTo[Len(list)]
=============================================================================
