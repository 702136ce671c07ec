----------------------------- MODULE WebSession -----------------------------
(***************************************************************************)
(* The page's session with the relay through the proxy: authenticate() of  *)
(* script.js, with the messages that its socket receives, WsProxy in the   *)
(* middle, and at the other end the relay as one client sees it, which     *)
(* sends a packet as a header and a payload.                               *)
(*                                                                         *)
(* onmessage is an async function: it looks at the state, waits for the    *)
(* bytes of the message, and then acts.  A call that waits is a record of  *)
(* pending; nothing orders the calls that wait.                            *)
(***************************************************************************)
EXTENDS WsProxy, FiniteSets

CONSTANTS MaxMsgs   \* bound: messages the relay has for the page

VARIABLES
  state,     \* of authenticate(): "unauthenticated", "authenticating", ...
  pending,   \* calls of onmessage that await event.data.arrayBuffer()
  calls,     \* how many calls there have been
  rightKey,  \* the keys the user logs in with belong together
  answers,   \* how many answers the page has sent
  panels,    \* the page shows its panels: the user is logged in
  saved,     \* messages saved by the page
  srv,       \* what the relay does next
  relayed,   \* messages the relay has relayed to the page
  disturbed  \* history: a packet was "cut" in two messages, packets "merged"
             \* into one, or two calls "raced" for the same state

pageVars == <<state, pending, calls, rightKey, answers, panels, saved>>
srvVars == <<srv, relayed>>
vars == <<proxyVars, pageVars, srvVars, disturbed>>

Kind == {"challenge", "answer", "wrong", "authorised", "unauthorised", "message"}
Hdr(p, n) == [part |-> "hdr", p |-> p, n |-> n]
Pay(p, n) == [part |-> "pay", p |-> p, n |-> n]
Packet(p, n) == IF p \in {"authorised", "unauthorised"} THEN <<Hdr(p, n)>>
                                                  ELSE <<Hdr(p, n), Pay(p, n)>>

IsPacket(bytes) == bytes = Packet(bytes[1].p, bytes[1].n)
Starts(bytes, p) ==
  \E n \in 0..MaxMsgs :
    Len(bytes) >= Len(Packet(p, n)) /\ SubSeq(bytes, 1, Len(Packet(p, n))) = Packet(p, n)
CutPacket(bytes) ==
  LET last == bytes[Len(bytes)] IN
  bytes[1].part = "pay" \/ (last.part = "hdr" /\ Len(Packet(last.p, last.n)) = 2)

Init ==
  /\ ProxyInit
  /\ state = "unauthenticated" /\ pending = {} /\ calls = 0 /\ answers = 0
  /\ rightKey \in BOOLEAN
  /\ panels = FALSE /\ saved = <<>>
  /\ srv = "challenge" /\ relayed = 0
  /\ disturbed = {}

----------------------------------------------------------------------------
(* The relay: authenticate_client, then a worker that relays to the page.   *)

SrvSends(at, token, then) ==
  /\ srv = at /\ srv' = then /\ RelaySends(<<token>>)
  /\ UNCHANGED <<ends, upVars, down, downGot, pageVars, disturbed>>

Relay ==
  \/ SrvSends("challenge", Hdr("challenge", 0), "challenge2") /\ UNCHANGED relayed
  \/ SrvSends("challenge2", Pay("challenge", 0), "answer") /\ UNCHANGED relayed
  \/ SrvSends("authorise", Hdr("authorised", 0), "relay") /\ UNCHANGED relayed
  \/ SrvSends("refuse", Hdr("unauthorised", 0), "close") /\ UNCHANGED relayed
  \/ relayed < MaxMsgs /\ UNCHANGED relayed
       /\ SrvSends("relay", Hdr("message", relayed + 1), "relay2")
  \/ relayed' = relayed + 1
       /\ SrvSends("relay2", Pay("message", relayed + 1), "relay")

\* A whole answer, header and payload, or what else comes while it relays.
RelayTakes ==
  /\ srv \in {"answer", "relay"}
  /\ \E token \in {"answer", "wrong"} :
       /\ RelayReads(Packet(token, 0))
       /\ srv' = IF srv = "relay" THEN srv
                 ELSE IF token = "answer" THEN "authorise" ELSE "refuse"
  /\ UNCHANGED <<ends, up, upSent, downVars, relayed, pageVars, disturbed>>

RelayEnds ==
  /\ \/ RelayHangsUp /\ srv \in {"answer", "relay"}
     \/ RelayCloses
  /\ UNCHANGED <<srvVars, pageVars, disturbed>>

----------------------------------------------------------------------------
(* The page.                                                                *)

\* onmessage up to its await.
OnMessage ==
  /\ PageTakes
  /\ LET bytes == Head(down) IN
     /\ pending' = pending \cup {[branch |-> state, bytes |-> bytes, n |-> calls + 1]}
     /\ disturbed' = disturbed
          \cup (IF IsPacket(bytes) THEN {}
                ELSE IF CutPacket(bytes) THEN {"cut"} ELSE {"merged"})
          \cup {x \in {"raced"} : state # "authenticated"
                                   /\ \E h \in pending : h.branch = state}
  /\ calls' = calls + 1
  /\ UNCHANGED <<ends, upVars, toProxy, downSent, state, rightKey, answers, panels,
                 saved, srvVars>>

Done(h) == pending' = pending \ {h}

AnsweredNot == UNCHANGED state                         \* mutant: same state
Answered == state' = "authenticating"

\* The challenge: sign what follows the header and send it.
Challenge(h) ==
  /\ h.branch = "unauthenticated" /\ Done(h)
  /\ LET true == rightKey /\ Starts(h.bytes, "challenge")
     IN  PageSends(Packet(IF true THEN "answer" ELSE "wrong", 0))
  /\ Answered
  /\ answers' = answers + 1
  /\ UNCHANGED <<ends, toRelay, upRead, downVars, calls, rightKey, panels, saved,
                 srvVars, disturbed>>

\* The first byte is ZSM_STA_AUTHORISED, 20.  The byte of a header says which
\* packet it is; the first byte of a payload can be any.
IsTwenty(t) == t.p = "authorised"

Verdict(h) ==
  /\ h.branch = "authenticating" /\ Done(h)
  /\ \E twenty \in BOOLEAN :
       /\ h.bytes[1].part = "hdr" => twenty = IsTwenty(h.bytes[1])
       /\ IF twenty THEN state' = "authenticated" /\ panels' = TRUE /\ UNCHANGED page
                    ELSE state' = "unauthenticated" /\ PageCloses /\ UNCHANGED panels
  /\ UNCHANGED <<ws, tcp, fin, relay, upVars, downVars, calls, rightKey, answers,
                 saved, srvVars, disturbed>>

\* parse_packet and saveMessage.  Bytes that are not a packet do not decrypt,
\* and the call ends with an exception; what follows a packet is not looked at.
ParsedHalf(bytes) == bytes[1].p = "message"            \* mutant: no decryption
ParsedPadded(bytes) ==                                 \* mutant: off by one
  Starts(bytes, "message") /\ Len(bytes) > Len(Packet("message", 0))
Parsed(bytes) == Starts(bytes, "message")

Save(h) ==
  /\ h.branch = "authenticated" /\ Done(h)
  /\ saved' = IF Parsed(h.bytes) THEN Append(saved, h.bytes[1].n) ELSE saved
  /\ UNCHANGED <<proxyVars, state, calls, rightKey, answers, panels, srvVars,
                 disturbed>>

ResumeOn(h) == Challenge(h) \/ Verdict(h) \/ Save(h)
Resume == \E h \in pending : ResumeOn(h)

----------------------------------------------------------------------------
Others == ProxyStep \/ PageVanishes \/ PageSeesClose
Next == Relay \/ RelayTakes \/ RelayEnds \/ OnMessage \/ Resume
          \/ (Others /\ UNCHANGED <<pageVars, srvVars, disturbed>>)
Spec == Init /\ [][Next]_vars

\* The event loops of the page and of the proxy, and zmr's threads, go on.
FairSpec ==
  /\ Spec
  /\ WF_vars(Relay) /\ WF_vars(RelayTakes) /\ WF_vars(OnMessage) /\ WF_vars(Resume)
  /\ WF_vars(HandleMessage /\ UNCHANGED <<pageVars, srvVars, disturbed>>)
  /\ WF_vars((HandleConnect \/ HandleTcpClose)
               /\ UNCHANGED <<pageVars, srvVars, disturbed>>)
  /\ WF_vars((\E bytes \in Pieces(toProxy) : HandleData(bytes))
               /\ UNCHANGED <<pageVars, srvVars, disturbed>>)

----------------------------------------------------------------------------
(* Properties.                                                              *)

\* However packets are cut, merged and reordered on their way through the
\* proxy and the awaits of the page, a message is saved at most once, and only
\* if the relay has relayed all of it (script.js 24-58, 328-331).
SavedOnce ==
  /\ \A i, j \in 1..Len(saved) : i # j => saved[i] # saved[j]
  /\ \A i \in 1..Len(saved) : saved[i] <= relayed

\* The page answers one challenge once, although the state changes only after
\* the await, unless a packet has come in two pieces (script.js 284-307).
AnswersOnce == answers <= 1 \/ "cut" \in disturbed

\* A user with the right key is logged in, or the connection ends, or messages
\* were cut, merged or raced: there is no other way to be left waiting.
Ended == page # "open" \/ relay \in {"closed", "eof", "reset"}
LoggedInInTheEnd == <>(panels \/ Ended \/ disturbed # {})

\* And whatever the relay relays is saved in the end with the same exceptions.
SavedInTheEnd ==
  \A n \in 1..MaxMsgs :
    relayed >= n ~> (Ended \/ disturbed # {} \/ \E i \in 1..Len(saved) : saved[i] = n)
=============================================================================
