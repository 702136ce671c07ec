------------------------------ MODULE WsProxy ------------------------------
(***************************************************************************)
(* One connection of the proxy zws: the WebSocket of a page on one side,   *)
(* the TCP connection that the proxy opens for it to the relay on the      *)
(* other.  The handlers of the proxy run to completion, one event at a     *)
(* time.  The page and the relay appear as what they can do to their ends. *)
(***************************************************************************)
EXTENDS Integers, Sequences

CONSTANTS
  Byte,         \* what a stream is made of
  Messages,     \* the WebSocket messages a page may send, sequences of bytes
  Answers,      \* what the relay may send at a time, sequences of bytes
  HeaderBytes,  \* 5: how many bytes of a message the proxy writes first
  MaxUp, MaxDown  \* bounds: bytes sent by the page and by the relay

ASSUME ProxyAssumption ==
  /\ Messages \subseteq Seq(Byte) /\ Answers \subseteq Seq(Byte)
  /\ HeaderBytes \in Nat \ {0}
  /\ MaxUp \in Nat /\ MaxDown \in Nat

VARIABLES
  page,     \* the page's WebSocket: "open", "closing" and "left" when the page
            \* closes it, "closed" when the proxy does, "gone" if it vanishes
  ws,       \* the proxy's end of it: "open", "closing", "closed"
  tcp,      \* tcpSocket: "connecting", "open", "closed"
  fin,      \* end() has been called on tcpSocket
  relay,    \* the relay's end: "none" (not yet there), "open", "closed" by
            \* itself, "eof" (closed after the end of what it read), "reset"
  up,       \* messages from the page that the proxy has still to handle
  toRelay,  \* bytes written to tcpSocket and not yet read by the relay
  toProxy,  \* bytes sent by the relay and not yet read by the proxy
  down,     \* messages from the proxy that the page has still to handle
  upSent, upRead, downSent, downGot   \* history: all bytes at the four ends

ends == <<page, ws, tcp, fin, relay>>
upVars == <<up, toRelay, upSent, upRead>>
downVars == <<toProxy, down, downSent, downGot>>
proxyVars == <<ends, upVars, downVars>>

\* The "connection" event: a new net.Socket that starts to connect.
ProxyInit ==
  /\ page = "open" /\ ws = "open" /\ tcp = "connecting" /\ fin = FALSE
  /\ relay = "none"
  /\ up = <<>> /\ toRelay = <<>> /\ toProxy = <<>> /\ down = <<>>
  /\ upSent = <<>> /\ upRead = <<>> /\ downSent = <<>> /\ downGot = <<>>

----------------------------------------------------------------------------
(* The page's end.                                                          *)

\* ws.send(m) in the page: nothing goes out once it is not open any more.
PageSends(m) ==
  IF page = "open"
  THEN up' = Append(up, m) /\ upSent' = upSent \o m
  ELSE UNCHANGED <<up, upSent>>

\* The browser delivers the next message: to nobody, unless the page is open.
PageTakes ==
  /\ page = "open" /\ down # <<>>
  /\ down' = Tail(down) /\ downGot' = downGot \o Head(down)

\* ws.close(), or the page is left or loses its connection.
PageCloses == page' = IF page = "open" THEN "closing" ELSE page
PageVanishes ==
  /\ page \in {"open", "closing"} /\ page' = "gone"
  /\ UNCHANGED <<ws, tcp, fin, relay, upVars, downVars>>

\* The proxy's close frame, which comes after its messages.
PageSeesClose ==
  /\ page = "open" /\ ws = "closing" /\ down = <<>> /\ page' = "closed"
  /\ UNCHANGED <<ws, tcp, fin, relay, upVars, downVars>>

----------------------------------------------------------------------------
(* The relay's end: zmr reads what has come, in any pieces, and closes after *)
(* the end of the stream or by itself.  Closing with bytes unread, or bytes   *)
(* that come after, reset the connection, and what it sent may be lost.       *)

RelayReads(bytes) ==
  /\ relay = "open" /\ tcp = "open"
  /\ \E n \in 1..Len(toRelay) :
       bytes = SubSeq(toRelay, 1, n)
       /\ toRelay' = SubSeq(toRelay, n + 1, Len(toRelay))
  /\ upRead' = upRead \o bytes

RelaySends(bytes) ==
  /\ relay = "open"
  /\ toProxy' = toProxy \o bytes /\ downSent' = downSent \o bytes

RelaySeesEnd == relay = "open" /\ fin /\ tcp = "open" /\ toRelay = <<>>

RelayHangsUp ==
  /\ RelaySeesEnd /\ relay' = "eof"
  /\ UNCHANGED <<page, ws, tcp, fin, upVars, downVars>>

RelayCloses ==
  /\ \/ relay = "open" /\ relay' = IF toRelay = <<>> THEN "closed" ELSE "reset"
     \/ relay \in {"open", "closed"} /\ tcp = "open" /\ toRelay # <<>>
        /\ relay' = "reset"
  /\ UNCHANGED <<page, ws, tcp, fin, upVars, downVars>>

----------------------------------------------------------------------------
(* The proxy: ws.on("message").  The header and the rest are two writes;    *)
(* before the connection is there they wait in the socket, and after it is  *)
(* gone they come to nothing.                                               *)

Cut(m) == IF Len(m) < HeaderBytes THEN Len(m) ELSE HeaderBytes
FirstBytes(m) == SubSeq(m, 1, Cut(m))
RestSixth(m) == SubSeq(m, Cut(m) + 2, Len(m))          \* mutant: 5 and 6
Rest(m) == SubSeq(m, Cut(m) + 1, Len(m))

WrittenRestFirst(m) == Rest(m) \o FirstBytes(m)        \* mutant: swapped writes
Written(m) == FirstBytes(m) \o Rest(m)

HandleMessage ==
  /\ up # <<>> /\ ws # "closed"
  /\ up' = Tail(up)
  /\ toRelay' = IF tcp = "closed" THEN toRelay ELSE toRelay \o Written(Head(up))
  /\ UNCHANGED <<ends, upSent, upRead, downVars>>

\* ws.on("close"): tcpSocket.end().  It comes after the page's last message,
\* or, if the page has vanished, at any time and with messages lost.
PageEnded == (page \in {"closing", "closed"} /\ up = <<>>) \/ page = "gone"
EndNothing == UNCHANGED fin                            \* mutant: no end()
EndTcp == fin' = TRUE

HandleWsClose ==
  /\ ws # "closed" /\ PageEnded
  /\ ws' = "closed" /\ EndTcp
  /\ page' = IF page = "closing" THEN "left" ELSE page
  /\ up' = <<>>
  /\ UNCHANGED <<tcp, relay, toRelay, upSent, upRead, downVars>>

----------------------------------------------------------------------------
(* The proxy: events of tcpSocket.                                          *)

HandleConnect ==
  /\ tcp = "connecting" /\ relay = "none"
  /\ tcp' = "open" /\ relay' = "open"
  /\ UNCHANGED <<page, ws, fin, upVars, downVars>>

\* tcpSocket.on("data"), with whatever has arrived: ws.send, which does
\* nothing once the WebSocket is not open.
Forward(bytes) == down' = IF ws = "open" THEN Append(down, bytes) ELSE down

HandleData(bytes) ==
  /\ tcp = "open" /\ relay # "none"
  /\ \E n \in 1..Len(toProxy) :
       bytes = SubSeq(toProxy, 1, n)
       /\ toProxy' = SubSeq(toProxy, n + 1, Len(toProxy))
  /\ Forward(bytes)
  /\ UNCHANGED <<ends, upVars, downSent, downGot>>

\* ws.close().
CloseWsNot == UNCHANGED ws                             \* mutant: no ws.close()
CloseWs == ws' = IF ws = "open" THEN "closing" ELSE ws

\* tcpSocket.on("close"): the connection was refused, or the relay has closed
\* and everything it sent has been read, or it was reset.
TcpEndsEarly == relay \in {"closed", "eof", "reset"}   \* mutant: data left
TcpEnds == (relay \in {"closed", "eof"} /\ toProxy = <<>>) \/ relay = "reset"

HandleTcpClose ==
  /\ \/ tcp = "connecting" /\ relay' = "reset"
     \/ tcp = "open" /\ TcpEnds /\ UNCHANGED relay
  /\ tcp' = "closed" /\ CloseWs
  /\ toRelay' = <<>> /\ toProxy' = <<>>
  /\ UNCHANGED <<page, fin, up, upSent, upRead, down, downSent, downGot>>

----------------------------------------------------------------------------
(* A page and a relay that do anything, any number of times up to a bound.  *)

PageStep ==
  \/ \E m \in Messages :
       /\ page = "open" /\ Len(upSent) + Len(m) <= MaxUp /\ PageSends(m)
       /\ UNCHANGED <<ends, toRelay, upRead, downVars>>
  \/ PageTakes /\ UNCHANGED <<ends, upVars, toProxy, downSent>>
  \/ page = "open" /\ PageCloses
       /\ UNCHANGED <<ws, tcp, fin, relay, upVars, downVars>>

Pieces(q) == {SubSeq(q, 1, n) : n \in 1..Len(q)}

RelayStep ==
  \/ \E bytes \in Pieces(toRelay) :
       RelayReads(bytes) /\ UNCHANGED <<ends, up, upSent, downVars>>
  \/ \E bytes \in Answers :
       /\ Len(downSent) + Len(bytes) <= MaxDown /\ RelaySends(bytes)
       /\ UNCHANGED <<ends, upVars, down, downGot>>
  \/ RelayCloses

ProxyStep == HandleMessage \/ HandleWsClose \/ HandleConnect \/ HandleTcpClose
               \/ \E bytes \in Pieces(toProxy) : HandleData(bytes)

ProxyNext == PageStep \/ PageVanishes \/ PageSeesClose
          \/ RelayStep \/ RelayHangsUp \/ ProxyStep
ProxySpec == ProxyInit /\ [][ProxyNext]_proxyVars

\* The event loop of the proxy and the browser get round to every event, and
\* zmr reads what comes and closes at its end (LeaverClosed of Zmr).
ProxyFairness ==
  /\ WF_proxyVars(HandleMessage) /\ WF_proxyVars(HandleWsClose)
  /\ WF_proxyVars(HandleConnect \/ HandleTcpClose)
  /\ WF_proxyVars(\E bytes \in Pieces(toProxy) : HandleData(bytes))
  /\ WF_proxyVars(PageSeesClose) /\ WF_proxyVars(RelayHangsUp)
  /\ WF_proxyVars(PageTakes /\ UNCHANGED <<ends, upVars, toProxy, downSent>>)
  /\ WF_proxyVars(\E bytes \in Pieces(toRelay) :
                    RelayReads(bytes) /\ UNCHANGED <<ends, up, upSent, downVars>>)
ProxyFairSpec == ProxySpec /\ ProxyFairness

----------------------------------------------------------------------------
(* Properties.                                                              *)

\* Types, and how the two connections depend on each other: a WebSocket is
\* closed by the proxy only after the TCP connection, and end() is called on
\* that one only after the WebSocket's last message (ws.ts 55-64).
ProxyTypeOK ==
  /\ page \in {"open", "closing", "left", "closed", "gone"}
  /\ ws \in {"open", "closing", "closed"}
  /\ tcp \in {"connecting", "open", "closed"}
  /\ fin \in BOOLEAN
  /\ relay \in {"none", "open", "closed", "eof", "reset"}
  /\ up \in Seq(Seq(Byte)) /\ down \in Seq(Seq(Byte))
  /\ toRelay \in Seq(Byte) /\ toProxy \in Seq(Byte)
  /\ upSent \in Seq(Byte) /\ upRead \in Seq(Byte)
  /\ downSent \in Seq(Byte) /\ downGot \in Seq(Byte)
  /\ ws = "closing" => tcp = "closed"
  /\ tcp = "closed" => ws # "open" /\ relay # "open" /\ toProxy = <<>>
  /\ fin <=> ws = "closed"
  /\ relay = "eof" \/ ws = "closed" => up = <<>> /\ (relay = "eof" => fin)
  /\ relay = "eof" => toRelay = <<>>
  /\ tcp = "connecting" <=> relay = "none"
  /\ relay = "none" => toProxy = <<>> /\ down = <<>>

\* The uplink is a byte stream: what the relay reads is what the page sent, in
\* order, though each message is cut in two, written before the connection is
\* there, and read in other pieces; and unless the page has vanished the relay
\* sees the end only after the last byte (ws.ts 33-46, 55-58).
Uplink == INSTANCE ByteStream WITH
  sent <- upSent, got <- upRead,
  writer <- IF page = "open" THEN "open"
            ELSE IF page = "gone" THEN "broken" ELSE "closed",
  reader <- IF relay = "eof" THEN "eof" ELSE "open"
UplinkIsStream == Uplink!Spec

\* So is the downlink: whatever the relay sent before it closed reaches the
\* page before its WebSocket is closed (ws.ts 49-52, 61-64).
Downlink == INSTANCE ByteStream WITH
  sent <- downSent, got <- downGot,
  writer <- IF relay \in {"none", "open"} THEN "open"
            ELSE IF relay = "reset" THEN "broken" ELSE "closed",
  reader <- IF page = "closed" THEN "eof" ELSE "open"
DownlinkIsStream == Downlink!Spec

\* Nobody is left with half a connection: when either end has closed or gone,
\* the proxy closes both, also while it is still connecting (ws.ts 55-64).
EndsTogether ==
  (page # "open" \/ relay \in {"closed", "eof", "reset"})
    ~> (tcp = "closed" /\ ws = "closed")

\* Every byte of the page arrives in the end, even if the page closes right
\* after it and before the proxy has a connection.
ArrivesInTheEnd ==
  \A n \in 1..MaxUp :
    Len(upSent) >= n ~> (Len(upRead) >= n \/ page = "gone" \/ relay \in {"closed", "reset"})
=============================================================================
