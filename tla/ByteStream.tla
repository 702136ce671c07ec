----------------------------- MODULE ByteStream -----------------------------
(***************************************************************************)
(* What one direction of a proxied connection promises: a reliable stream  *)
(* of bytes that ends, once its writer has closed it, only after the last  *)
(* byte, or else is known to be broken.                                    *)
(***************************************************************************)
EXTENDS Integers, Sequences

CONSTANT Byte

VARIABLES
  sent,     \* every byte the writer has put in
  got,      \* every byte the reader has taken out
  writer,   \* "open", "closed", or "broken"
  reader    \* "open", or "eof" once it has seen the end

vars == <<sent, got, writer, reader>>

TypeOK ==
  /\ sent \in Seq(Byte) /\ got \in Seq(Byte)
  /\ writer \in {"open", "closed", "broken"}
  /\ reader \in {"open", "eof"}

Init == sent = <<>> /\ got = <<>> /\ writer = "open" /\ reader = "open"

\* The writer writes any number of bytes.
Write ==
  /\ writer = "open"
  /\ Len(sent') >= Len(sent) /\ SubSeq(sent', 1, Len(sent)) = sent
  /\ UNCHANGED <<got, writer, reader>>

\* The reader gets some of the bytes it has not had, the oldest first.
Read ==
  /\ reader = "open"
  /\ \E n \in Len(got)..Len(sent) : got' = SubSeq(sent, 1, n)
  /\ UNCHANGED <<sent, writer, reader>>

Close ==
  /\ \/ writer = "open" /\ writer' = "closed"
     \/ writer # "broken" /\ writer' = "broken"
  /\ UNCHANGED <<sent, got, reader>>

\* The reader sees the end: of everything, unless the stream has broken.
End ==
  /\ reader = "open" /\ reader' = "eof"
  /\ writer = "broken" \/ (writer = "closed" /\ got = sent)
  /\ UNCHANGED <<sent, got, writer>>

Next == Write \/ Read \/ Close \/ End
Spec == Init /\ [][Next]_vars
=============================================================================
