---------------------------- MODULE RelayService ----------------------------
(***************************************************************************)
(* What the relay promises to those who send through it: a message taken   *)
(* from a connection that has proved its key is on its way until it is     *)
(* delivered or lost, it is delivered once at most, to somebody it is      *)
(* addressed to, after all that its sender has had delivered before, and a *)
(* message that is lost does not come back.  Part of the promise is void   *)
(* once a system call has hit a descriptor that was given out again.       *)
(***************************************************************************)
EXTENDS Integers

CONSTANTS Conns, Users, UserOf, BadKeys, Kinds

VARIABLES
  posted,     \* number of messages that each connection has sent
  transit,    \* messages sent, and neither delivered nor lost
  delivered,  \* the messages delivered, each with the connection it went to
  stray       \* which calls have hit a descriptor given out again

Init ==
  /\ posted = [c \in Conns |-> 0]
  /\ transit = {} /\ delivered = {} /\ stray = {}

\* A client that has been authenticated sends its next message.
Post(c) ==
  /\ c \notin BadKeys
  /\ posted' = [posted EXCEPT ![c] = @ + 1]
  /\ \E to \in Users, kind \in Kinds :
       transit' = transit \cup
         {[src |-> c, seq |-> posted[c] + 1, to |-> to, kind |-> kind]}
  /\ UNCHANGED <<delivered, stray>>

\* Messages are lost, or a call goes astray.
Drop ==
  /\ transit' \subseteq transit /\ stray \subseteq stray'
  /\ UNCHANGED <<posted, delivered>>

\* A message reaches a connection, and with that is no longer on its way.
Deliver(m, c) ==
  /\ m.kind = "msg"
  /\ transit' = transit \ {m}
  /\ delivered' = delivered \cup {[m |-> m, at |-> c]}
  /\ stray \subseteq stray'
  /\ "send" \in stray' \/ (m.to = UserOf[c] /\ c \notin BadKeys)
  /\ "recv" \in stray' \/
       \A d \in delivered : d.m.src = m.src => d.m.seq < m.seq
  /\ UNCHANGED posted

Next == \/ Drop
        \/ \E c \in Conns : Post(c) \/ \E m \in transit : Deliver(m, c)

Spec == Init /\ [][Next]_<<posted, transit, delivered, stray>>
=============================================================================
