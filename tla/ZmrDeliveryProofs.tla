-------------------------- MODULE ZmrDeliveryProofs --------------------------
(***************************************************************************)
(* What becomes of a message on its way through the relay: it is checked,  *)
(* relayed at most once, and never ahead of an earlier one of its sender.  *)
(***************************************************************************)
EXTENDS ZmrProofs, SequenceTheorems

----------------------------------------------------------------------------
(* How a step moves messages.                                              *)

\* A read takes a stream from some place on, perhaps behind a piece of a chunk.
Consumed ==
  \A c \in Conns : \E d \in Nat : \A j \in 1..Len(inq'[c]) :
    \/ inq'[c][j] = Plain("junk")
    \/ j + d \in 1..Len(inq[c]) /\ inq'[c][j] = inq[c][j + d]

LEMMA TailConsumes ==
  ASSUME NEW q \in Seq(Chunk), q # <<>>
  PROVE  \A j \in 1..Len(Tail(q)) : j + 1 \in 1..Len(q) /\ Tail(q)[j] = q[j + 1]
  BY HeadTailProperties

LEMMA ResyncConsumes ==
  ASSUME NEW q \in Seq(Chunk), q # <<>>, NEW r \in Resync(q)
  PROVE  \E d \in Nat : \A j \in 1..Len(r) :
           \/ r[j] = Plain("junk")
           \/ j + d \in 1..Len(q) /\ r[j] = q[j + d]
<1>0. Len(q) \in Nat
  OBVIOUS
<1>1. CASE r = Tail(q)
  BY <1>1, TailConsumes
<1>2. ASSUME NEW i \in 2..Len(q) + 1
      PROVE  /\ SubSeq(q, i, Len(q)) \in Seq(Chunk)
             /\ Len(SubSeq(q, i, Len(q))) = IF i <= Len(q) THEN Len(q) - i + 1 ELSE 0
             /\ \A j \in 1..Len(q) - i + 1 : SubSeq(q, i, Len(q))[j] = q[i + j - 1]
  <2>1. \A j \in i..Len(q) : q[j] \in Chunk
    BY <1>0, ElementOfSeq
  <2> QED BY <1>0, <2>1, SubSeqProperties
<1>3. ASSUME NEW i \in 2..Len(q) + 1, r = SubSeq(q, i, Len(q))
      PROVE  \E d \in Nat : \A j \in 1..Len(r) : j + d \in 1..Len(q) /\ r[j] = q[j + d]
  <2>1. ASSUME NEW j \in 1..Len(r)
        PROVE  j + (i - 1) \in 1..Len(q) /\ r[j] = q[j + (i - 1)]
    <3>1. Len(r) = Len(q) - i + 1 /\ r[j] = q[i + j - 1]
      BY <1>0, <1>2, <1>3, <2>1
    <3> QED BY <1>0, <3>1
  <2> WITNESS i - 1 \in Nat
  <2> QED BY <2>1
<1>4. ASSUME NEW i \in 2..Len(q) + 1, r = <<Plain("junk")>> \o SubSeq(q, i, Len(q))
      PROVE  \E d \in Nat : \A j \in 1..Len(r) :
               \/ r[j] = Plain("junk")
               \/ j + d \in 1..Len(q) /\ r[j] = q[j + d]
  <2> DEFINE p == SubSeq(q, i, Len(q))
  <2>1. /\ p \in Seq(Chunk)
        /\ Len(p) = IF i <= Len(q) THEN Len(q) - i + 1 ELSE 0
        /\ \A j \in 1..Len(q) - i + 1 : p[j] = q[i + j - 1]
    BY <1>2
  <2>2. <<Plain("junk")>> \in Seq(Chunk) /\ Len(<<Plain("junk")>>) = 1
    BY InitialChunks
  <2> HIDE DEF p
  <2>3. /\ Len(r) = 1 + Len(p)
        /\ \A j \in 1..1 + Len(p) : r[j] = IF j <= 1 THEN Plain("junk") ELSE p[j - 1]
    BY <1>4, <2>1, <2>2, ConcatProperties DEF p
  <2>4. ASSUME NEW j \in 1..Len(r), r[j] # Plain("junk")
        PROVE  j + (i - 2) \in 1..Len(q) /\ r[j] = q[j + (i - 2)]
    <3>1. j \in 2..Len(p) + 1 /\ r[j] = p[j - 1]
      BY <2>1, <2>3, <2>4
    <3>2. Len(p) = Len(q) - i + 1 /\ j - 1 \in 1..Len(q) - i + 1
      BY <1>0, <2>1, <3>1
    <3>3. p[j - 1] = q[i + (j - 1) - 1]
      BY <2>1, <3>2
    <3> QED BY <1>0, <3>1, <3>2, <3>3
  <2> WITNESS i - 2 \in Nat
  <2> QED BY <2>4
<1>5. \/ r = Tail(q)
      \/ \E i \in 2..Len(q) + 1 : r \in {SubSeq(q, i, Len(q)),
                                       <<Plain("junk")>> \o SubSeq(q, i, Len(q))}
  <2>1. \A i \in (IF Head(q).k = "junk" THEN 3 ELSE 2)..Len(q) + 1 : i \in 2..Len(q) + 1
    BY <1>0
  <2> QED BY <2>1 DEF Resync
<1> QED BY <1>1, <1>3, <1>4, <1>5

LEMMA UnreadConsumed ==
  ASSUME TypeOK, UNCHANGED inq
  PROVE  Consumed
<1> SUFFICES ASSUME NEW c \in Conns
             PROVE  \E d \in Nat : \A j \in 1..Len(inq'[c]) :
                      j + d \in 1..Len(inq[c]) /\ inq'[c][j] = inq[c][j + d]
  BY DEF Consumed
<1>1. Len(inq[c]) \in Nat
  BY DEF TypeOK
<1> WITNESS 0 \in Nat
<1> QED BY <1>1

LEMMA ReadConsumes ==
  ASSUME TypeOK, NEW s \in Conns, inq[s] # <<>>,
         NEW r, inq' = [inq EXCEPT ![s] = r], r = Tail(inq[s]) \/ r \in Resync(inq[s])
  PROVE  Consumed
<1> SUFFICES ASSUME NEW c \in Conns
             PROVE  \E d \in Nat : \A j \in 1..Len(inq'[c]) :
                      \/ inq'[c][j] = Plain("junk")
                      \/ j + d \in 1..Len(inq[c]) /\ inq'[c][j] = inq[c][j + d]
  BY DEF Consumed
<1>1. inq[c] \in Seq(Chunk) /\ inq'[c] = IF c = s THEN r ELSE inq[c]
  BY DEF TypeOK
<1>2. CASE c # s
  <2>1. Len(inq[c]) \in Nat
    BY <1>1
  <2> WITNESS 0 \in Nat
  <2> QED BY <1>1, <1>2, <2>1
<1>3. CASE c = s
  <2>1. r \in Resync(inq[s]) /\ inq[s] \in Seq(Chunk) /\ inq'[c] = r
    BY <1>1, <1>3 DEF Resync
  <2>2. PICK d \in Nat : \A j \in 1..Len(r) :
          \/ r[j] = Plain("junk")
          \/ j + d \in 1..Len(inq[s]) /\ r[j] = inq[s][j + d]
    BY <2>1, ResyncConsumes
  <2> QED BY <1>3, <2>1, <2>2
<1> QED BY <1>2, <1>3

LEMMA MainConsumes == ASSUME TypeOK, Main PROVE Consumed
<1>1. CASE RecvAnswer
  <2> DEFINE s == At(acc.fd)
  <2>1. \/ UNCHANGED inq
        \/ s \in Conns /\ inq[s] # <<>> /\ inq' = [inq EXCEPT ![s] = Tail(inq[s])]
    BY <1>1 DEF RecvAnswer
  <2> HIDE DEF s
  <2> QED BY <2>1, UnreadConsumed, ReadConsumes
<1>2. ~RecvAnswer => UNCHANGED inq
  BY DEF Main, Accept, SendChallenge, Refuse, Authorise, EpollAdd, SetFd, SetName,
         Register, netVars
<1> QED BY <1>1, <1>2, UnreadConsumed

\* What no worker changes, and who alone changes the rest.
LEMMA WorkerLeaves ==
  ASSUME NEW t \in Threads, Worker(t)
  PROVE  UNCHANGED <<sent, part>>
<1>1. CASE EpollWait(t) \/ NextEvent(t) \/ RecvHeader(t) \/ RecvPayload(t) \/ SendError(t)
  BY <1>1 DEF EpollWait, NextEvent, RecvHeader, RecvPayload, SendError, clientVars
<1>2. CASE CloseClient(t) \/ Unregister(t) \/ Rehashed(t)
  BY <1>2 DEF CloseClient, Unregister, Rehashed, clientVars
<1>3. CASE Lookup(t) \/ RelayHeader(t) \/ RelayPayload(t)
  BY <1>3 DEF Lookup, RelayHeader, RelayPayload, Relay, clientVars
<1> QED BY <1>1, <1>2, <1>3 DEF Worker

LEMMA WorkerReads ==
  ASSUME NEW t \in Threads, Worker(t), ~(RecvHeader(t) \/ RecvPayload(t))
  PROVE  UNCHANGED inq
<1>1. CASE EpollWait(t) \/ NextEvent(t) \/ SendError(t)
  BY <1>1 DEF EpollWait, NextEvent, SendError, netVars
<1>2. CASE CloseClient(t) \/ Unregister(t) \/ Rehashed(t)
  BY <1>2 DEF CloseClient, Unregister, Rehashed, netVars
<1>3. CASE Lookup(t) \/ RelayHeader(t) \/ RelayPayload(t)
  BY <1>3 DEF Lookup, RelayHeader, RelayPayload, Relay, netVars
<1> QED BY <1>1, <1>2, <1>3 DEF Worker

LEMMA WorkerWrites ==
  ASSUME NEW t \in Threads, Worker(t), ~(SendError(t) \/ RelayHeader(t) \/ RelayPayload(t))
  PROVE  UNCHANGED out
<1>1. CASE EpollWait(t) \/ NextEvent(t) \/ RecvHeader(t) \/ RecvPayload(t)
  BY <1>1 DEF EpollWait, NextEvent, RecvHeader, RecvPayload, netVars
<1>2. CASE CloseClient(t) \/ Unregister(t) \/ Rehashed(t) \/ Lookup(t)
  BY <1>2 DEF CloseClient, Unregister, Rehashed, Lookup, netVars
<1> QED BY <1>1, <1>2 DEF Worker

LEMMA WorkerConsumes == ASSUME TypeOK, NEW t \in Threads, Worker(t) PROVE Consumed
<1>1. CASE RecvHeader(t) \/ RecvPayload(t)
  <2> DEFINE s == At(wk[t].fd)
  <2>1. \/ UNCHANGED inq
        \/ s \in Conns /\ inq[s] # <<>> /\ inq' = [inq EXCEPT ![s] = Tail(inq[s])]
        \/ /\ s \in Conns /\ inq[s] # <<>>
           /\ \E r \in Resync(inq[s]) : inq' = [inq EXCEPT ![s] = r]
    BY <1>1 DEF RecvHeader, RecvPayload
  <2> HIDE DEF s
  <2> QED BY <2>1, UnreadConsumed, ReadConsumes
<1>2. ~(RecvHeader(t) \/ RecvPayload(t)) => UNCHANGED inq
  BY WorkerReads
<1> QED BY <1>1, <1>2, UnreadConsumed

\* How a worker comes to carry a packet: it reads the header, reads the
\* payload of the header it has, or goes on with the packet it has.
TakesHeader(t, s) ==
  /\ s \in Conns /\ inq[s] # <<>> /\ Head(inq[s]).k = "hdr"
  /\ Head(inq[s]).m.kind # "long"
  /\ inq' = [inq EXCEPT ![s] = Tail(inq[s])]
  /\ wk'[t].pc = "payload" /\ wk'[t].msg = Head(inq[s]).m
  /\ wk'[t].cl = wk[t].cl
  /\ Misuse(Stale("recv", wk[t].fd, wk[t].cl))
TakesPayload(t, s) ==
  /\ wk[t].pc = "payload" /\ wk'[t].pc = "lookup"
  /\ s \in Conns /\ inq[s] # <<>> /\ Intact(Head(inq[s]), wk[t].msg)
  /\ inq' = [inq EXCEPT ![s] = Tail(inq[s])]
  /\ wk'[t].msg = wk[t].msg /\ wk'[t].cl = wk[t].cl
KeepsPacket(t) ==
  /\ wk[t].pc \in Carrying
  /\ wk'[t].pc \in Holding => wk[t].pc \in Holding
  /\ wk'[t].msg = wk[t].msg /\ wk'[t].cl = wk[t].cl

LEMMA WorkerPackets ==
  ASSUME TypeOK, NEW t \in Threads, Worker(t), wk'[t].pc \in Carrying
  PROVE  TakesHeader(t, At(wk[t].fd)) \/ TakesPayload(t, At(wk[t].fd)) \/ KeepsPacket(t)
<1> DEFINE s == At(wk[t].fd)
<1>1. wk[t] \in WkState
  BY DEF TypeOK
<1>2. ~Done(t) /\ \A pc : Goto(t, pc) => pc \in Carrying /\ wk'[t].pc = pc
                                         /\ wk'[t].msg = wk[t].msg /\ wk'[t].cl = wk[t].cl
  BY DoneAt, GotoState DEF Carrying, Holding
<1>3. CASE RecvHeader(t)
  <2>1. ~Goto(t, "error") /\ ~Goto(t, "garbled") /\ ~Goto(t, "close") /\ ~Done(t)
    BY <1>2 DEF Carrying, Holding
  <2>2. /\ s \in Conns /\ inq[s] # <<>> /\ Head(inq[s]).k = "hdr"
        /\ inq' = [inq EXCEPT ![s] = Tail(inq[s])]
        /\ wk' = [wk EXCEPT ![t].pc = IF Head(inq[s]).m.kind = "long" THEN "error"
                                                                    ELSE "payload",
                            ![t].msg = Head(inq[s]).m]
        /\ Misuse(Stale("recv", wk[t].fd, wk[t].cl))
    BY <1>3, <2>1 DEF RecvHeader
  <2>3. ASSUME NEW pc, NEW m, wk' = [wk EXCEPT ![t].pc = pc, ![t].msg = m]
        PROVE  wk'[t].pc = pc /\ wk'[t].msg = m /\ wk'[t].cl = wk[t].cl
    BY <1>1, <2>3 DEF TypeOK, WkState
  <2> HIDE DEF s
  <2>4. /\ wk'[t].pc = IF Head(inq[s]).m.kind = "long" THEN "error" ELSE "payload"
        /\ wk'[t].msg = Head(inq[s]).m /\ wk'[t].cl = wk[t].cl
    BY <2>2, <2>3
  <2>5. Head(inq[s]).m.kind # "long"
    BY <2>4 DEF Carrying, Holding
  <2> QED BY <2>2, <2>4, <2>5 DEF TakesHeader, s
<1>4. CASE RecvPayload(t)
  <2>1. ~Goto(t, "error") /\ ~Goto(t, "errorEof") /\ ~Done(t)
    BY <1>2 DEF Carrying, Holding
  <2> QED BY <1>2, <1>4, <2>1 DEF RecvPayload, TakesPayload
<1>5. CASE RelayHeader(t)
  BY <1>2, <1>5 DEF RelayHeader, Relay, KeepsPacket, Carrying, Holding
<1>6. CASE Lookup(t)
  <2>1. ASSUME NEW d, wk' = [wk EXCEPT ![t].pc = "sendhdr", ![t].dst = d,
                                       ![t].dfd = fdOf[d]]
        PROVE  wk'[t].msg = wk[t].msg /\ wk'[t].cl = wk[t].cl
    BY <1>1, <2>1 DEF TypeOK, WkState
  <2>2. ASSUME NEW i, wk' = [wk EXCEPT ![t].scan = i]
        PROVE  wk'[t].msg = wk[t].msg /\ wk'[t].cl = wk[t].cl
    BY <1>1, <2>2 DEF TypeOK, WkState
  <2> QED BY <1>2, <1>6, <2>1, <2>2 DEF Lookup, KeepsPacket, Carrying, Holding
<1>7. ~EpollWait(t) /\ ~NextEvent(t)
  <2>1. EpollWait(t) => wk'[t].pc = "idle"
    BY <1>1 DEF EpollWait, TypeOK, WkState
  <2>2. NextEvent(t) => wk'[t].pc = "header"
    BY DEF NextEvent, WkIdle, TypeOK
  <2> QED BY <2>1, <2>2 DEF Carrying, Holding
<1>8. ~SendError(t) /\ ~CloseClient(t) /\ ~Unregister(t) /\ ~Rehashed(t)
      /\ ~RelayPayload(t)
  BY <1>2 DEF SendError, CloseClient, Unregister, Rehashed, RelayPayload, Relay,
              Carrying, Holding
<1> QED BY <1>3, <1>4, <1>5, <1>6, <1>7, <1>8 DEF Worker

\* A send adds at most one chunk, at the end of one output.
LEMMA OutputGrows ==
  ASSUME TypeOK, NEW f, NEW ch \in Chunk, SendOk(f, ch), NEW c \in Conns,
         NEW i \in Relayed(c)'
  PROVE  \/ i \in Relayed(c) /\ out'[c][i] = out[c][i]
         \/ ch.k = "pay" /\ c = At(f) /\ i = Len(out[c]) + 1 /\ out'[c][i] = ch
<1>1. out[c] \in Seq(Chunk) /\ Len(out[c]) \in Nat
  BY DEF TypeOK
<1>2. CASE out'[c] = out[c]
  BY <1>2 DEF Relayed
<1>3. CASE c = At(f) /\ out'[c] = Append(out[c], ch)
  <2>1. i \in 1..Len(out[c]) + 1 /\ out'[c][i].k = "pay"
    BY <1>1, <1>3 DEF Relayed
  <2>2. CASE i \in 1..Len(out[c])
    <3>1. out'[c][i] = out[c][i]
      BY <1>1, <1>3, <2>2
    <3> QED BY <2>1, <2>2, <3>1 DEF Relayed
  <2>3. CASE i = Len(out[c]) + 1
    <3>1. out'[c][i] = ch
      BY <1>1, <1>3, <2>3
    <3> QED BY <1>3, <2>1, <2>3, <3>1
  <2> QED BY <1>1, <2>1, <2>2, <2>3
<1>4. out'[c] = out[c] \/ (At(f) = c /\ out'[c] = Append(out[c], ch))
  BY DEF SendOk, TypeOK
<1> QED BY <1>2, <1>3, <1>4

\* Whatever is relayed was there, or is what the worker relays just now.
RelayedBefore == \A c \in Conns : \A i \in Relayed(c)' :
                   i \in Relayed(c) /\ out'[c][i] = out[c][i]
RelaysNow(t) ==
  /\ wk[t].pc = "sendpay" /\ wk'[t].pc = "idle"
  /\ \E d \in Conns : \A c \in Conns : \A i \in Relayed(c)' :
       \/ i \in Relayed(c) /\ out'[c][i] = out[c][i]
       \/ c = d /\ i = Len(out[d]) + 1 /\ out'[c][i] = Part("pay", wk[t].msg)

LEMMA MainRelays == ASSUME TypeOK, Main PROVE RelayedBefore
<1>1. \/ UNCHANGED out
      \/ \E k \in {"challenge", "unauthorised", "authorised"} : SendOk(acc.fd, Plain(k))
  BY DEF Main, Accept, SendChallenge, RecvAnswer, Refuse, Authorise, EpollAdd, SetFd,
         SetName, Register, SendFails, netVars
<1>2. ASSUME NEW k \in {"challenge", "unauthorised", "authorised"},
             SendOk(acc.fd, Plain(k))
      PROVE  RelayedBefore
  <2>1. Plain(k) \in Chunk /\ Plain(k).k # "pay"
    BY InitialChunks DEF Plain
  <2> QED BY <1>2, <2>1, OutputGrows DEF RelayedBefore
<1> QED BY <1>1, <1>2 DEF RelayedBefore, Relayed

LEMMA WorkerRelays ==
  ASSUME TypeOK, NEW t \in Threads, Worker(t)
  PROVE  RelayedBefore \/ RelaysNow(t)
<1>1. CASE UNCHANGED out
  BY <1>1 DEF RelayedBefore, Relayed
<1>2. ASSUME NEW f, NEW ch \in Chunk, ch.k # "pay", SendOk(f, ch)
      PROVE  RelayedBefore
  BY <1>2, OutputGrows DEF RelayedBefore
<1>3. CASE SendError(t)
  <2>1. Plain("error") \in Chunk /\ Plain("error").k # "pay"
    BY InitialChunks DEF Plain
  <2> QED BY <1>1, <1>2, <1>3, <2>1 DEF SendError, SendFails
<1>4. CASE RelayHeader(t)
  <2>1. Part("hdr", wk[t].msg) \in Chunk /\ Part("hdr", wk[t].msg).k # "pay"
    BY InitialChunks DEF Part, TypeOK, WkState
  <2> QED BY <1>1, <1>2, <1>4, <2>1 DEF RelayHeader, Relay, SendFails
<1>5. CASE RelayPayload(t)
  <2> DEFINE f  == wk[t].dfd
             ch == Part("pay", wk[t].msg)
  <2>1. ch \in Chunk
    BY InitialChunks DEF TypeOK, WkState
  <2>2. CASE UNCHANGED out
    BY <1>1, <2>2
  <2>3. CASE SendOk(f, ch) /\ Done(t)
    <3>1. wk'[t].pc = "idle" /\ wk[t].pc = "sendpay"
      BY <1>5, <2>3, DoneAt DEF RelayPayload, Relay
    <3>2. PICK d : d = At(f)
      OBVIOUS
    <3>3. d \in Conns
      BY <2>3, <3>2 DEF SendOk
    <3>4. ASSUME NEW c \in Conns, NEW i \in Relayed(c)'
          PROVE  \/ i \in Relayed(c) /\ out'[c][i] = out[c][i]
                 \/ c = d /\ i = Len(out[d]) + 1 /\ out'[c][i] = ch
      <4> HIDE DEF f, ch
      <4> QED BY <2>1, <2>3, <3>2, OutputGrows
    <3> QED BY <3>1, <3>3, <3>4 DEF RelaysNow
  <2> QED BY <1>5, <2>2, <2>3 DEF RelayPayload, Relay, SendFails
<1>6. SendError(t) \/ RelayHeader(t) \/ RelayPayload(t) \/ UNCHANGED out
  BY WorkerWrites
<1> QED BY <1>1, <1>3, <1>4, <1>5, <1>6

----------------------------------------------------------------------------
(* Where messages are, and what is known of them there.                    *)

MessageOf(c, n, m) == m \in Message /\ m.src = c /\ m.seq <= n

StreamsTrue ==
  \A c \in Conns : \A i \in 1..Len(inq[c]) :
    inq[c][i].k \in {"hdr", "pay"} => MessageOf(c, sent[c], inq[c][i].m)
PartsTrue ==
  \A c \in Conns : part[c] # NoMsg => part[c].src = c /\ part[c].seq = sent[c]
PacketsTrue ==
  \A t \in Threads : wk[t].pc \in Carrying =>
    /\ MessageOf(wk[t].msg.src, sent[wk[t].msg.src], wk[t].msg)
    /\ wk[t].msg.kind # "long"
    /\ wk[t].pc \in Holding => wk[t].msg.kind = "msg"
RelayedTrue ==
  \A c \in Conns : \A i \in Relayed(c) :
    MessageOf(out[c][i].m.src, sent[out[c][i].m.src], out[c][i].m) /\ out[c][i].m.kind = "msg"

PacketInv == TypeOK /\ StreamsTrue /\ PartsTrue /\ PacketsTrue /\ RelayedTrue

\* The first chunk of a stream.
LEMMA HeadIsFirst ==
  ASSUME TypeOK, NEW s \in Conns, inq[s] # <<>>
  PROVE  Head(inq[s]) = inq[s][1] /\ 1 \in 1..Len(inq[s])
  BY DEF TypeOK

\* What a client sends comes after everything it has sent.
LEMMA StreamGrows ==
  ASSUME TypeOK, NEW c \in Conns, NEW ch \in Chunk, Send(c, ch),
         NEW d \in Conns, NEW i \in 1..Len(inq'[d])
  PROVE  \/ i \in 1..Len(inq[d]) /\ inq'[d][i] = inq[d][i]
         \/ d = c /\ i = Len(inq[d]) + 1 /\ inq'[d][i] = ch
<1>1. inq[d] \in Seq(Chunk) /\ Len(inq[d]) \in Nat
  BY DEF TypeOK
<1>2. inq'[d] = IF d = c THEN Append(inq[d], ch) ELSE inq[d]
  BY DEF Send, TypeOK
<1>3. CASE d = c
  BY <1>1, <1>2, <1>3, AppendProperties
<1>4. CASE d # c
  BY <1>2, <1>4
<1> QED BY <1>3, <1>4

LEMMA HeaderSent ==
  ASSUME TypeOK, NEW c \in Conns, SendMessageHeader(c)
  PROVE  \E m \in Message :
           /\ m.src = c /\ m.seq = sent[c] + 1
           /\ part' = [part EXCEPT ![c] = m] /\ Send(c, Part("hdr", m))
<1>1. sent[c] + 1 \in Nat
  <2>1. sent[c] \in Nat \/ sent[c] = -1
    BY DEF TypeOK
  <2> QED BY <2>1
<1>2. PICK to \in Users, kind \in Kinds :
        LET m == [src |-> c, seq |-> sent[c] + 1, to |-> to, kind |-> kind]
        IN  part' = [part EXCEPT ![c] = m] /\ Send(c, Part("hdr", m))
  BY DEF SendMessageHeader
<1>3. [src |-> c, seq |-> sent[c] + 1, to |-> to, kind |-> kind] \in Message
  BY <1>1 DEF Message
<1> QED BY <1>2, <1>3

LEMMA ConsumedTrue ==
  ASSUME TypeOK, StreamsTrue, Consumed, UNCHANGED sent
  PROVE  StreamsTrue'
<1> SUFFICES ASSUME NEW c \in Conns, NEW i \in 1..Len(inq'[c]),
                    inq'[c][i].k \in {"hdr", "pay"}
             PROVE  MessageOf(c, sent[c], inq'[c][i].m)
  BY DEF StreamsTrue, MessageOf
<1>1. PICK d \in Nat : \A j \in 1..Len(inq'[c]) :
        \/ inq'[c][j] = Plain("junk")
        \/ j + d \in 1..Len(inq[c]) /\ inq'[c][j] = inq[c][j + d]
  BY DEF Consumed
<1>2. inq'[c][i] # Plain("junk")
  BY DEF Plain
<1> QED BY <1>1, <1>2 DEF StreamsTrue

LEMMA WorkerTrue ==
  ASSUME PacketInv, NEW t \in Threads, Worker(t)
  PROVE  (StreamsTrue /\ PartsTrue /\ PacketsTrue /\ RelayedTrue)'
<1> USE DEF PacketInv
<1>1. UNCHANGED <<sent, part>>
  BY WorkerLeaves
<1>2. StreamsTrue' /\ PartsTrue'
  BY <1>1, WorkerConsumes, ConsumedTrue DEF PartsTrue
<1>3. PacketsTrue'
  <2> SUFFICES ASSUME wk'[t].pc \in Carrying
               PROVE  /\ MessageOf(wk'[t].msg.src, sent[wk'[t].msg.src], wk'[t].msg)
                      /\ wk'[t].msg.kind # "long"
                      /\ wk'[t].pc \in Holding => wk'[t].msg.kind = "msg"
    BY <1>1, OtherWorkers DEF PacketsTrue, MessageOf
  <2>1. ASSUME NEW s, TakesHeader(t, s)
        PROVE  /\ MessageOf(wk'[t].msg.src, sent[wk'[t].msg.src], wk'[t].msg)
               /\ wk'[t].msg.kind # "long" /\ wk'[t].pc \notin Holding
    <3>1. Head(inq[s]) = inq[s][1] /\ 1 \in 1..Len(inq[s])
      BY <2>1, HeadIsFirst DEF TakesHeader
    <3>2. MessageOf(s, sent[s], Head(inq[s]).m)
      BY <2>1, <3>1 DEF TakesHeader, StreamsTrue
    <3> QED BY <2>1, <3>2 DEF TakesHeader, MessageOf, Holding
  <2>2. ASSUME NEW s, TakesPayload(t, s)
        PROVE  /\ MessageOf(wk'[t].msg.src, sent[wk'[t].msg.src], wk'[t].msg)
               /\ wk'[t].msg.kind # "long" /\ wk'[t].msg.kind = "msg"
    <3>1. /\ MessageOf(wk[t].msg.src, sent[wk[t].msg.src], wk[t].msg) /\ wk[t].msg.kind # "long"
          /\ wk[t].msg.kind # "forged" /\ wk'[t].msg = wk[t].msg
      BY <2>2 DEF TakesPayload, PacketsTrue, Carrying, Intact
    <3>2. wk[t].msg.kind = "msg"
      BY <3>1, ConstantsAssumption DEF MessageOf, Message
    <3> QED BY <3>1, <3>2
  <2>3. CASE KeepsPacket(t)
    BY <2>3 DEF KeepsPacket, PacketsTrue
  <2> QED BY <2>1, <2>2, <2>3, WorkerPackets, <1>1 DEF MessageOf
<1>4. RelayedTrue'
  <2>1. CASE RelayedBefore
    BY <1>1, <2>1 DEF RelayedBefore, RelayedTrue, MessageOf
  <2>2. CASE RelaysNow(t)
    <3>1. MessageOf(wk[t].msg.src, sent[wk[t].msg.src], wk[t].msg) /\ wk[t].msg.kind = "msg"
      BY <2>2 DEF RelaysNow, PacketsTrue, Carrying, Holding
    <3>2. Part("pay", wk[t].msg).m = wk[t].msg
      BY DEF Part
    <3> QED BY <1>1, <2>2, <3>1, <3>2 DEF RelaysNow, RelayedTrue, MessageOf
  <2> QED BY <2>1, <2>2, WorkerRelays
<1> QED BY <1>2, <1>3, <1>4

LEMMA ClientTrue ==
  ASSUME PacketInv, NEW c \in Conns, Client(c)
  PROVE  (StreamsTrue /\ PartsTrue /\ PacketsTrue /\ RelayedTrue)'
<1> USE DEF PacketInv
<1>1. UNCHANGED <<wk, out>>
  BY DEF Client, Connect, Answer, SendMessageHeader, SendMessagePayload, Leave, netVars
<1>2. \A d \in Conns : sent[d] \in Int /\ sent'[d] \in Int /\ sent[d] <= sent'[d]
  <2>1. \A d \in Conns : sent[d] \in Int /\ sent[d] >= -1
    <3>1. \A d \in Conns : sent[d] \in Nat \/ sent[d] = -1
      BY DEF TypeOK
    <3> QED BY <3>1
  <2>2. \/ UNCHANGED sent
        \/ sent[c] = -1 /\ sent' = [sent EXCEPT ![c] = 0]
        \/ sent' = [sent EXCEPT ![c] = @ + 1]
    BY DEF Client, Connect, Answer, SendMessageHeader, SendMessagePayload, Leave
  <2>3. \A d \in Conns : \/ sent'[d] = sent[d]
                         \/ sent[d] = -1 /\ sent'[d] = 0
                         \/ sent'[d] = sent[d] + 1
    BY <2>2 DEF TypeOK
  <2> QED BY <2>1, <2>3
<1>3. \A d \in Conns : \A m : MessageOf(d, sent[d], m) => MessageOf(d, sent'[d], m)
  BY <1>2 DEF MessageOf, Message
<1>4. PacketsTrue' /\ RelayedTrue'
  <2>1. \A m : MessageOf(m.src, sent[m.src], m) => MessageOf(m.src, sent'[m.src], m)
    BY <1>3 DEF MessageOf, Message
  <2>2. PacketsTrue'
    BY <1>1, <2>1 DEF PacketsTrue, MessageOf
  <2>3. RelayedTrue'
    BY <1>1, <2>1 DEF RelayedTrue, Relayed, MessageOf
  <2> QED BY <2>2, <2>3
<1>5. CASE Connect(c) \/ Leave(c)
  <2>1. UNCHANGED <<inq, sent>> /\ (UNCHANGED part \/ part' = [part EXCEPT ![c] = NoMsg])
    BY <1>5 DEF Connect, Leave, netVars
  <2>2. StreamsTrue'
    BY <2>1 DEF StreamsTrue, MessageOf
  <2>3. PartsTrue'
    BY <2>1 DEF PartsTrue, TypeOK
  <2> QED BY <1>4, <2>2, <2>3
<1>6. ASSUME NEW ch \in Chunk, Send(c, ch),
             ch.k \in {"hdr", "pay"} => MessageOf(c, sent'[c], ch.m)
      PROVE  StreamsTrue'
  <2> SUFFICES ASSUME NEW d \in Conns, NEW i \in 1..Len(inq'[d]),
                      inq'[d][i].k \in {"hdr", "pay"}
               PROVE  MessageOf(d, sent'[d], inq'[d][i].m)
    BY DEF StreamsTrue, MessageOf
  <2>1. CASE i \in 1..Len(inq[d]) /\ inq'[d][i] = inq[d][i]
    BY <1>3, <2>1 DEF StreamsTrue, MessageOf
  <2>2. CASE d = c /\ inq'[d][i] = ch
    BY <1>6, <2>2 DEF MessageOf
  <2> QED BY <1>6, <2>1, <2>2, StreamGrows
<1>7. CASE Answer(c)
  <2>1. Plain("auth") \in Chunk /\ Plain("auth").k = "auth"
    BY InitialChunks DEF Plain
  <2>2. StreamsTrue'
    BY <1>6, <1>7, <2>1 DEF Answer
  <2>3. part[c] = NoMsg
    <3> SUFFICES ASSUME part[c] # NoMsg PROVE FALSE
      OBVIOUS
    <3>1. part[c] \in Message /\ part[c].seq = -1
      BY <1>7 DEF Answer, PartsTrue, TypeOK
    <3> QED BY <3>1 DEF Message
  <2>4. PartsTrue'
    BY <1>7, <2>3 DEF Answer, PartsTrue, TypeOK
  <2> QED BY <1>4, <2>2, <2>4
<1>8. CASE SendMessageHeader(c)
  <2>1. PICK m \in Message :
          /\ m.src = c /\ m.seq = sent[c] + 1
          /\ part' = [part EXCEPT ![c] = m] /\ Send(c, Part("hdr", m))
    BY <1>8, HeaderSent
  <2>2. sent'[c] = sent[c] + 1 /\ \A d \in Conns \ {c} : sent'[d] = sent[d]
    BY <1>8 DEF SendMessageHeader, TypeOK
  <2>3. /\ Part("hdr", m) \in Chunk /\ Part("hdr", m).m = m
        /\ MessageOf(c, sent'[c], m)
    BY <1>2, <2>1, <2>2, InitialChunks DEF Part, MessageOf
  <2>4. StreamsTrue'
    BY <1>6, <2>1, <2>3 DEF MessageOf
  <2>5. PartsTrue'
    BY <2>1, <2>2 DEF PartsTrue, TypeOK
  <2> QED BY <1>4, <2>4, <2>5
<1>9. CASE SendMessagePayload(c)
  <2>1. /\ UNCHANGED sent /\ part[c] # NoMsg /\ part[c] \in Message
        /\ Send(c, Part("pay", part[c])) /\ part' = [part EXCEPT ![c] = NoMsg]
    BY <1>9 DEF SendMessagePayload, TypeOK
  <2>2. /\ Part("pay", part[c]) \in Chunk /\ Part("pay", part[c]).m = part[c]
        /\ MessageOf(c, sent'[c], part[c])
    BY <1>2, <2>1, InitialChunks DEF Part, MessageOf, PartsTrue
  <2>3. StreamsTrue'
    BY <1>6, <2>1, <2>2 DEF MessageOf
  <2>4. PartsTrue'
    BY <2>1 DEF PartsTrue, TypeOK
  <2> QED BY <1>4, <2>3, <2>4
<1> QED BY <1>5, <1>7, <1>8, <1>9 DEF Client

LEMMA InitPackets == Init => PacketInv
<1> SUFFICES ASSUME Init PROVE PacketInv
  OBVIOUS
<1>1. StreamsTrue /\ PartsTrue /\ RelayedTrue
  BY DEF Init, StreamsTrue, PartsTrue, RelayedTrue, Relayed
<1>2. PacketsTrue
  BY DEF Init, PacketsTrue, WkIdle, Carrying, Holding
<1> QED BY <1>1, <1>2, InitType DEF PacketInv

LEMMA MainTrue ==
  ASSUME PacketInv, Main
  PROVE  (StreamsTrue /\ PartsTrue /\ PacketsTrue /\ RelayedTrue)'
<1>1. UNCHANGED <<sent, part, wk>>
  BY DEF Main, Accept, SendChallenge, RecvAnswer, Refuse, Authorise, EpollAdd, SetFd,
         SetName, Register, clientVars
<1>2. StreamsTrue' /\ PartsTrue'
  BY <1>1, MainConsumes, ConsumedTrue DEF PacketInv, PartsTrue
<1>3. PacketsTrue'
  BY <1>1 DEF PacketInv, PacketsTrue, MessageOf
<1>4. RelayedTrue'
  BY <1>1, MainRelays DEF PacketInv, RelayedBefore, RelayedTrue, MessageOf
<1> QED BY <1>2, <1>3, <1>4

LEMMA StepPackets == PacketInv /\ [Next]_vars => PacketInv'
<1> SUFFICES ASSUME PacketInv, [Next]_vars PROVE PacketInv'
  OBVIOUS
<1>1. TypeOK'
  BY StepType DEF PacketInv
<1>2. CASE UNCHANGED vars
  BY <1>1, <1>2 DEF vars, clientVars, netVars, PacketInv, StreamsTrue, PartsTrue,
                    PacketsTrue, RelayedTrue, Relayed, MessageOf
<1>3. CASE Next
  BY <1>1, <1>3, MainTrue, WorkerTrue, ClientTrue DEF Next, PacketInv
<1> QED BY <1>2, <1>3

\* Nothing is relayed but messages of the right length with a true signature,
\* whatever clients send and however their streams are cut and misread.
THEOREM VerificationCorrect == Spec => []OnlyVerified
<1>1. PacketInv => OnlyVerified
  BY DEF PacketInv, RelayedTrue, OnlyVerified
<1> QED BY <1>1, InitPackets, StepPackets, PTL DEF Spec

----------------------------------------------------------------------------
(* At most one of a message.  Its payload is still with the client, in the *)
(* stream, with a worker or in an output, and leaves one for the next.     *)

\* The message a worker has read and not yet relayed.
Holds(t, m) == wk[t].pc \in Holding /\ wk[t].msg = m

StreamedOnce ==
  \A c \in Conns : \A i, j \in 1..Len(inq[c]) :
    inq[c][i].k = "pay" /\ inq[c][j].k = "pay" /\ inq[c][i].m = inq[c][j].m => i = j
PartsUnread ==
  \A c \in Conns : part[c] # NoMsg =>
    /\ part[c] \notin Streamed /\ ~Delivered(part[c])
    /\ \A t \in Threads : ~Holds(t, part[c])
StreamedNotHeld ==
  \A m \in Streamed : ~Delivered(m) /\ \A t \in Threads : ~Holds(t, m)
HeldOnce ==
  \A t \in Threads : wk[t].pc \in Holding =>
    /\ ~Delivered(wk[t].msg)
    /\ \A u \in Threads \ {t} : ~Holds(u, wk[t].msg)

OnceInv == /\ PacketInv
           /\ StreamedOnce
           /\ PartsUnread
           /\ StreamedNotHeld
           /\ HeldOnce
           /\ DeliveredOnce

LEMMA ConsumedOnce ==
  ASSUME TypeOK, StreamedOnce, Consumed
  PROVE  StreamedOnce' /\ Streamed' \subseteq Streamed
<1>0. ASSUME NEW c \in Conns
      PROVE  \E d \in Nat : \A j \in 1..Len(inq'[c]) : inq'[c][j].k = "pay" =>
               j + d \in 1..Len(inq[c]) /\ inq'[c][j] = inq[c][j + d]
  <2>1. PICK d \in Nat : \A j \in 1..Len(inq'[c]) :
          \/ inq'[c][j] = Plain("junk")
          \/ j + d \in 1..Len(inq[c]) /\ inq'[c][j] = inq[c][j + d]
    BY DEF Consumed
  <2>2. \A x : x.k = "pay" => x # Plain("junk")
    BY DEF Plain
  <2> QED BY <2>1, <2>2
<1>1. StreamedOnce'
  <2> SUFFICES ASSUME NEW c \in Conns, NEW i \in 1..Len(inq'[c]), NEW j \in 1..Len(inq'[c]),
                      inq'[c][i].k = "pay", inq'[c][j].k = "pay",
                      inq'[c][i].m = inq'[c][j].m
               PROVE  i = j
    BY DEF StreamedOnce
  <2>1. PICK d \in Nat : \A k \in 1..Len(inq'[c]) : inq'[c][k].k = "pay" =>
               k + d \in 1..Len(inq[c]) /\ inq'[c][k] = inq[c][k + d]
    BY <1>0
  <2>2. i + d = j + d
    BY <2>1 DEF StreamedOnce
  <2> QED BY <2>2
<1>2. Streamed' \subseteq Streamed
  BY <1>0 DEF Streamed, Streams
<1> QED BY <1>1, <1>2

\* A step after which no place holds a payload that it did not hold before.
LEMMA NothingNew ==
  ASSUME OnceInv, UNCHANGED part, Consumed, RelayedBefore,
         \A t \in Threads : \A m : Holds(t, m)' => Holds(t, m)
  PROVE  (StreamedOnce /\ PartsUnread /\ StreamedNotHeld /\ HeldOnce /\ DeliveredOnce)'
<1>1. StreamedOnce' /\ Streamed' \subseteq Streamed
  BY ConsumedOnce DEF OnceInv, PacketInv
<1>2. \A m : Delivered(m)' => Delivered(m)
  BY DEF Delivered, RelayedBefore
<1>3. PartsUnread'
  BY <1>1, <1>2 DEF OnceInv, PartsUnread
<1>4. StreamedNotHeld'
  BY <1>1, <1>2 DEF OnceInv, StreamedNotHeld
<1>5. HeldOnce'
  BY <1>2 DEF OnceInv, HeldOnce, Holds
<1>6. DeliveredOnce'
  BY DEF OnceInv, DeliveredOnce, RelayedBefore
<1> QED BY <1>1, <1>3, <1>4, <1>5, <1>6

\* A payload is read: the message passes from the stream to the worker.
LEMMA PayloadTaken ==
  ASSUME OnceInv, NEW t \in Threads, NEW s, TakesPayload(t, s), UNCHANGED part,
         Consumed, RelayedBefore, \A u \in Threads \ {t} : wk'[u] = wk[u]
  PROVE  (StreamedOnce /\ PartsUnread /\ StreamedNotHeld /\ HeldOnce /\ DeliveredOnce)'
<1> USE DEF OnceInv, PacketInv
<1>0. PICK M : M = wk[t].msg
  OBVIOUS
<1>1. /\ s \in Conns /\ inq[s] # <<>> /\ inq[s] \in Seq(Chunk) /\ inq[s][1] = Part("pay", M)
      /\ 1 \in 1..Len(inq[s]) /\ inq'[s] = Tail(inq[s])
  BY <1>0, HeadIsFirst DEF TakesPayload, Intact, TypeOK
<1>2. M \in Streamed /\ inq[s][1].k = "pay" /\ inq[s][1].m = M /\ M.src = s
  BY <1>1 DEF Streamed, Part, StreamsTrue, MessageOf, Streams
<1>3. M \notin Streamed'
  <2> SUFFICES ASSUME NEW c \in Conns, NEW i \in 1..Len(inq'[c]),
                      inq'[c][i].k = "pay", inq'[c][i].m = M
               PROVE  FALSE
    BY DEF Streamed, Streams
  <2>1. c = s
    <3>1. PICK d \in Nat : \/ inq'[c][i] = Plain("junk")
                           \/ i + d \in 1..Len(inq[c]) /\ inq'[c][i] = inq[c][i + d]
      BY DEF Consumed
    <3>2. i + d \in 1..Len(inq[c]) /\ inq'[c][i] = inq[c][i + d]
      BY <3>1 DEF Plain
    <3>3. M.src = c
      BY <3>2 DEF StreamsTrue, MessageOf
    <3> QED BY <1>2, <3>3
  <2>2. i + 1 \in 1..Len(inq[s]) /\ inq'[s][i] = inq[s][i + 1]
    BY <1>1, <2>1, TailConsumes
  <2>3. i + 1 = 1
    BY <1>1, <1>2, <2>1, <2>2 DEF StreamedOnce
  <2> QED BY <2>3
<1>4. /\ ~Delivered(M) /\ (\A u \in Threads : ~Holds(u, M))
      /\ \A c \in Conns : part[c] # NoMsg => part[c] # M
  BY <1>2 DEF StreamedNotHeld, PartsUnread
<1>5. \A m : Delivered(m)' => Delivered(m)
  BY DEF Delivered, RelayedBefore
<1>6. \A m : Holds(t, m)' <=> m = M
  BY <1>0 DEF TakesPayload, Holds, Holding
<1>7. StreamedOnce' /\ Streamed' \subseteq Streamed
  BY ConsumedOnce
<1>8. \A u \in Threads : \A m : Holds(u, m)' => Holds(u, m) \/ (u = t /\ m = M)
  BY <1>6 DEF Holds
<1>9. PartsUnread'
  BY <1>4, <1>5, <1>7, <1>8 DEF PartsUnread
<1>10. StreamedNotHeld'
  BY <1>3, <1>5, <1>7, <1>8 DEF StreamedNotHeld
<1>11. HeldOnce'
  BY <1>4, <1>5, <1>6, <1>8 DEF HeldOnce, Holds
<1>12. DeliveredOnce'
  BY DEF DeliveredOnce, RelayedBefore
<1> QED BY <1>7, <1>9, <1>10, <1>11, <1>12

\* A payload is relayed: the message passes from the worker to an output.
LEMMA PayloadRelayed ==
  ASSUME OnceInv, NEW t \in Threads, RelaysNow(t), UNCHANGED part, Consumed,
         \A u \in Threads \ {t} : wk'[u] = wk[u]
  PROVE  (StreamedOnce /\ PartsUnread /\ StreamedNotHeld /\ HeldOnce /\ DeliveredOnce)'
<1> USE DEF OnceInv, PacketInv
<1>0. PICK M : M = wk[t].msg
  OBVIOUS
<1>1. StreamedOnce' /\ Streamed' \subseteq Streamed
  BY ConsumedOnce
<1>2. PICK d \in Conns : \A c \in Conns : \A i \in Relayed(c)' :
       \/ i \in Relayed(c) /\ out'[c][i] = out[c][i]
       \/ c = d /\ i = Len(out[d]) + 1 /\ out'[c][i] = Part("pay", M)
  BY <1>0 DEF RelaysNow
<1>3. Part("pay", M).m = M
  BY DEF Part
<1>4. \A m : Delivered(m)' => Delivered(m) \/ m = M
  BY <1>2, <1>3 DEF Delivered
<1>5. /\ Holds(t, M) /\ ~Delivered(M)
      /\ \A u \in Threads \ {t} : ~Holds(u, M)
      /\ \A m : ~Holds(t, m)'
  BY <1>0 DEF RelaysNow, Holds, Holding, HeldOnce
<1>6. \A u \in Threads : \A m : Holds(u, m)' => Holds(u, m) /\ u # t
  BY <1>5 DEF Holds
<1>7. PartsUnread'
  BY <1>1, <1>4, <1>5, <1>6 DEF PartsUnread
<1>8. StreamedNotHeld'
  BY <1>1, <1>4, <1>5, <1>6 DEF StreamedNotHeld
<1>9. HeldOnce'
  BY <1>4, <1>5, <1>6 DEF HeldOnce, Holds
<1>10. DeliveredOnce'
  BY <1>2, <1>3, <1>5 DEF DeliveredOnce, Delivered
<1> QED BY <1>1, <1>7, <1>8, <1>9, <1>10

LEMMA WorkerOnce ==
  ASSUME OnceInv, NEW t \in Threads, Worker(t)
  PROVE  (StreamedOnce /\ PartsUnread /\ StreamedNotHeld /\ HeldOnce /\ DeliveredOnce)'
<1> USE DEF OnceInv, PacketInv
<1>1. UNCHANGED part
  BY WorkerLeaves
<1>2. Consumed /\ \A u \in Threads \ {t} : wk'[u] = wk[u]
  BY WorkerConsumes, OtherWorkers
<1>3. CASE RelaysNow(t)
  BY <1>1, <1>2, <1>3, PayloadRelayed
<1>4. CASE RelayedBefore
  <2>1. ASSUME NEW s, TakesPayload(t, s)
        PROVE  (StreamedOnce /\ PartsUnread /\ StreamedNotHeld /\ HeldOnce /\ DeliveredOnce)'
    BY <1>1, <1>2, <1>4, <2>1, PayloadTaken
  <2>2. ASSUME \A s : ~TakesPayload(t, s)
        PROVE  \A m : Holds(t, m)' => Holds(t, m)
    <3>1. wk'[t].pc \in Holding => KeepsPacket(t)
      BY <2>2, WorkerPackets DEF TakesHeader, Carrying, Holding
    <3> QED BY <3>1 DEF KeepsPacket, Holds
  <2>3. ASSUME \A s : ~TakesPayload(t, s)
        PROVE  (StreamedOnce /\ PartsUnread /\ StreamedNotHeld /\ HeldOnce /\ DeliveredOnce)'
    <3>1. \A u \in Threads : \A m : Holds(u, m)' => Holds(u, m)
      BY <1>2, <2>2, <2>3 DEF Holds
    <3> QED BY <1>1, <1>2, <1>4, <3>1, NothingNew
  <2> QED BY <2>1, <2>3
<1> QED BY <1>3, <1>4, WorkerRelays

LEMMA MainOnce ==
  ASSUME OnceInv, Main
  PROVE  (StreamedOnce /\ PartsUnread /\ StreamedNotHeld /\ HeldOnce /\ DeliveredOnce)'
<1>1. UNCHANGED <<part, wk>>
  BY DEF Main, Accept, SendChallenge, RecvAnswer, Refuse, Authorise, EpollAdd, SetFd,
         SetName, Register, clientVars
<1>2. Consumed /\ RelayedBefore
  BY MainConsumes, MainRelays DEF OnceInv, PacketInv
<1>3. \A t \in Threads : \A m : Holds(t, m)' => Holds(t, m)
  BY <1>1 DEF Holds
<1> QED BY <1>1, <1>2, <1>3, NothingNew

LEMMA ClientOnce ==
  ASSUME OnceInv, NEW c \in Conns, Client(c)
  PROVE  (StreamedOnce /\ PartsUnread /\ StreamedNotHeld /\ HeldOnce /\ DeliveredOnce)'
<1> USE DEF OnceInv, PacketInv
<1>1. UNCHANGED <<wk, out>>
  BY DEF Client, Connect, Answer, SendMessageHeader, SendMessagePayload, Leave, netVars
<1>2. /\ \A m : Delivered(m)' <=> Delivered(m)
      /\ \A t \in Threads : \A m : Holds(t, m)' <=> Holds(t, m)
      /\ HeldOnce' /\ DeliveredOnce'
  <2>1. \A m : Delivered(m)' <=> Delivered(m)
    BY <1>1 DEF Delivered, Relayed
  <2>2. \A t \in Threads : \A m : Holds(t, m)' <=> Holds(t, m)
    BY <1>1 DEF Holds
  <2>3. HeldOnce'
    BY <1>1, <2>1, <2>2 DEF HeldOnce
  <2>4. DeliveredOnce'
    BY <1>1 DEF DeliveredOnce, Relayed
  <2> QED BY <2>1, <2>2, <2>3, <2>4
<1>3. ASSUME UNCHANGED inq, UNCHANGED part \/ part' = [part EXCEPT ![c] = NoMsg]
      PROVE  (StreamedOnce /\ PartsUnread /\ StreamedNotHeld)'
  <2>1. Streamed' = Streamed /\ StreamedOnce'
    BY <1>3 DEF Streamed, StreamedOnce, Streams
  <2>2. PartsUnread'
    BY <1>2, <1>3, <2>1 DEF PartsUnread, TypeOK
  <2>3. StreamedNotHeld'
    BY <1>2, <2>1 DEF StreamedNotHeld
  <2> QED BY <2>1, <2>2, <2>3
<1>4. CASE Connect(c) \/ Leave(c)
  BY <1>2, <1>3, <1>4 DEF Connect, Leave, netVars
<1>5. ASSUME NEW ch \in Chunk, Send(c, ch), ch.k # "pay"
      PROVE  Streamed' \subseteq Streamed /\ StreamedOnce' /\ StreamedNotHeld'
  <2>1. \A d \in Conns : \A i \in 1..Len(inq'[d]) : inq'[d][i].k = "pay" =>
          i \in 1..Len(inq[d]) /\ inq'[d][i] = inq[d][i]
    BY <1>5, StreamGrows
  <2>2. Streamed' \subseteq Streamed
    BY <2>1 DEF Streamed, Streams
  <2>3. StreamedOnce'
    BY <2>1 DEF StreamedOnce
  <2>4. StreamedNotHeld'
    BY <1>2, <2>2 DEF StreamedNotHeld
  <2> QED BY <2>2, <2>3, <2>4
<1>6. CASE Answer(c)
  <2>1. Plain("auth") \in Chunk /\ Plain("auth").k # "pay"
    BY InitialChunks DEF Plain
  <2>2. Streamed' \subseteq Streamed /\ StreamedOnce' /\ StreamedNotHeld'
    BY <1>5, <1>6, <2>1 DEF Answer
  <2>3. PartsUnread'
    BY <1>2, <1>6, <2>2 DEF PartsUnread, Answer
  <2> QED BY <1>2, <2>2, <2>3
<1>7. CASE SendMessageHeader(c)
  <2>1. PICK m \in Message : /\ m.src = c /\ m.seq = sent[c] + 1
                             /\ part' = [part EXCEPT ![c] = m] /\ Send(c, Part("hdr", m))
    BY <1>7, HeaderSent
  <2>2. Part("hdr", m) \in Chunk /\ Part("hdr", m).k # "pay"
    BY InitialChunks DEF Part
  <2>3. Streamed' \subseteq Streamed /\ StreamedOnce' /\ StreamedNotHeld'
    BY <1>5, <2>1, <2>2
  <2>4. ~MessageOf(m.src, sent[m.src], m)
    <3>1. sent[c] \in Int
      BY DEF TypeOK
    <3> QED BY <2>1, <3>1 DEF MessageOf
  <2>5. m \notin Streamed
    BY <2>4 DEF Streamed, StreamsTrue, MessageOf, Streams
  <2>6. ~Delivered(m) /\ \A t \in Threads : ~Holds(t, m)
    BY <2>4 DEF Delivered, RelayedTrue, Holds, PacketsTrue, Carrying
  <2>7. PartsUnread'
    BY <1>2, <2>1, <2>3, <2>5, <2>6 DEF PartsUnread, TypeOK
  <2> QED BY <1>2, <2>3, <2>7
<1>8. CASE SendMessagePayload(c)
  <2>0. PICK m : m = part[c]
    OBVIOUS
  <2>1. /\ m # NoMsg /\ m \in Message /\ part' = [part EXCEPT ![c] = NoMsg]
        /\ Send(c, Part("pay", m))
    BY <1>8, <2>0 DEF SendMessagePayload, TypeOK
  <2>2. Part("pay", m) \in Chunk /\ Part("pay", m).m = m
    BY <2>1, InitialChunks DEF Part
  <2>3. m \notin Streamed /\ ~Delivered(m) /\ \A t \in Threads : ~Holds(t, m)
    BY <2>0, <2>1 DEF PartsUnread
  <2>4. \A d \in Conns : \A i \in 1..Len(inq'[d]) :
          \/ i \in 1..Len(inq[d]) /\ inq'[d][i] = inq[d][i]
          \/ d = c /\ i = Len(inq[d]) + 1 /\ inq'[d][i] = Part("pay", m)
    BY <2>1, <2>2, StreamGrows
  <2>5. Streamed' \subseteq Streamed \cup {m}
    BY <2>2, <2>4 DEF Streamed, Streams
  <2>6. StreamedOnce'
    <3> SUFFICES ASSUME NEW d \in Conns, NEW i \in 1..Len(inq'[d]), NEW j \in 1..Len(inq'[d]),
                        inq'[d][i].k = "pay", inq'[d][j].k = "pay",
                        inq'[d][i].m = inq'[d][j].m
                 PROVE  i = j
      BY DEF StreamedOnce
    <3>1. \A k \in 1..Len(inq[d]) : inq[d][k].k = "pay" => inq[d][k].m # m
      BY <2>3 DEF Streamed, Streams
    <3>2. CASE i \in 1..Len(inq[d]) /\ inq'[d][i] = inq[d][i]
               /\ j \in 1..Len(inq[d]) /\ inq'[d][j] = inq[d][j]
      BY <3>2 DEF StreamedOnce
    <3> QED BY <2>2, <2>4, <3>1, <3>2
  <2>7. StreamedNotHeld'
    BY <1>2, <2>3, <2>5 DEF StreamedNotHeld
  <2>8. \A d \in Conns \ {c} : part[d] # NoMsg => part[d] # m
    BY <2>0, <2>1 DEF PartsTrue
  <2>9. PartsUnread'
    BY <1>2, <2>1, <2>5, <2>8 DEF PartsUnread, TypeOK
  <2> QED BY <1>2, <2>6, <2>7, <2>9
<1> QED BY <1>4, <1>6, <1>7, <1>8 DEF Client

LEMMA InitOnce == Init => OnceInv
<1> SUFFICES ASSUME Init PROVE OnceInv
  OBVIOUS
<1>1. Streamed = {} /\ StreamedOnce /\ DeliveredOnce
  BY DEF Init, Streamed, StreamedOnce, DeliveredOnce, Relayed, Streams
<1>2. PartsUnread /\ StreamedNotHeld
  BY <1>1 DEF Init, PartsUnread, StreamedNotHeld
<1>3. HeldOnce
  BY DEF Init, HeldOnce, WkIdle, Holding
<1> QED BY <1>1, <1>2, <1>3, InitPackets DEF OnceInv

LEMMA StepOnce == OnceInv /\ [Next]_vars => OnceInv'
<1> SUFFICES ASSUME OnceInv, [Next]_vars PROVE OnceInv'
  OBVIOUS
<1>1. PacketInv'
  BY StepPackets DEF OnceInv
<1>2. CASE UNCHANGED vars
  <2>1. UNCHANGED <<inq, out, wk, part>>
    BY <1>2 DEF vars, clientVars, netVars
  <2>2. /\ Streamed' = Streamed /\ \A m : Delivered(m)' <=> Delivered(m)
        /\ \A t, m : Holds(t, m)' <=> Holds(t, m)
    BY <2>1 DEF Streamed, Holds, Delivered, Relayed, Streams
  <2>3. StreamedOnce' /\ DeliveredOnce'
    BY <2>1 DEF OnceInv, StreamedOnce, DeliveredOnce, Relayed
  <2>4. PartsUnread' /\ StreamedNotHeld' /\ HeldOnce'
    BY <2>1, <2>2 DEF OnceInv, PartsUnread, StreamedNotHeld, HeldOnce
  <2> QED BY <1>1, <2>3, <2>4 DEF OnceInv
<1>3. CASE Next
  BY <1>1, <1>3, MainOnce, WorkerOnce, ClientOnce DEF Next, OnceInv
<1> QED BY <1>2, <1>3

\* No message is relayed twice, to one connection or to two: what is relayed
\* was taken out of its stream first, and what is taken is held by one worker.
THEOREM DeliveryCorrect == Spec => []DeliveredOnce
<1>1. OnceInv => DeliveredOnce
  BY DEF OnceInv
<1> QED BY <1>1, InitOnce, StepOnce, PTL DEF Spec

----------------------------------------------------------------------------
(* Whose events a worker handles.  A connection is watched, once, by the    *)
(* worker it is given to, and only that worker ever has it in a batch or in *)
(* its hands, even after the descriptor has been closed.                    *)

Claimed(t) == interest[t] \cup wk[t].batch \cup ({wk[t].cl} \ {NoConn})
BeforeWatch == {"challenge", "answer", "refuse", "authorise", "epoll"}
Unwatched(c) == \/ peer[c] = "off"
                \/ c \in backlog
                \/ acc.pc \in BeforeWatch /\ acc.c = c

ClaimsApart == \A t, u \in Threads : \A c \in Claimed(t) : c \in Claimed(u) => t = u
ClaimsWatched == \A t \in Threads : \A c \in Claimed(t) : ~Unwatched(c)
ClaimInv == EntryInv /\ ClaimsApart /\ ClaimsWatched

LEMMA FewerClaims ==
  ASSUME ClaimInv, EntryInv',
         \A t \in Threads : Claimed(t)' \subseteq Claimed(t),
         \A c \in Conns : peer'[c] = "off" => peer[c] = "off",
         \A c \in backlog' : c \in backlog \/ peer[c] = "off",
         acc'.pc \in BeforeWatch =>
           Unwatched(acc'.c) \/ (acc.pc \in BeforeWatch /\ acc'.c = acc.c)
  PROVE  ClaimInv'
<1>1. ClaimsApart'
  BY DEF ClaimInv, ClaimsApart
<1>2. ASSUME NEW t \in Threads, NEW c \in Claimed(t)'
      PROVE  ~Unwatched(c)'
  <2>1. c \in Claimed(t) /\ c \in Conns
    BY <1>2 DEF ClaimInv, EntryInv, TypeOK, WkState, Claimed
  <2>2. ~Unwatched(c)
    BY <2>1 DEF ClaimInv, ClaimsWatched
  <2> QED BY <2>1, <2>2 DEF Unwatched
<1>3. ClaimsWatched'
  BY <1>2 DEF ClaimsWatched
<1> QED BY <1>1, <1>3 DEF ClaimInv

LEMMA WorkerClaims ==
  ASSUME TypeOK, NEW t \in Threads, Worker(t)
  PROVE  \A u \in Threads : Claimed(u)' \subseteq Claimed(u)
<1>1. wk[t] \in WkState
  BY DEF TypeOK
<1>2. \A u \in Threads : interest'[u] \subseteq interest[u]
  <2>1. ASSUME NEW f, CloseFd(f)
        PROVE  \A u \in Threads : interest'[u] \subseteq interest[u]
    BY <2>1 DEF CloseFd
  <2> QED BY <2>1 DEF Worker, EpollWait, NextEvent, RecvHeader, RecvPayload, SendError,
       CloseClient, Unregister, Rehashed, Lookup, RelayHeader, RelayPayload, Relay, fdVars
<1>3. CASE EpollWait(t)
  <2> DEFINE ready == {c \in interest[t] : Readable(c)}
  <2>1. wk' = [wk EXCEPT ![t].batch = ready]
    BY <1>3 DEF EpollWait
  <2> HIDE DEF ready
  <2>2. wk'[t].batch = ready /\ wk'[t].cl = wk[t].cl
    BY <1>1, <2>1 DEF TypeOK, WkState
  <2>3. ready \subseteq interest[t] /\ UNCHANGED interest
    BY <1>3 DEF ready, EpollWait, fdVars
  <2> QED BY <1>3, <2>2, <2>3, OtherWorkers DEF Claimed
<1>4. CASE NextEvent(t)
  <2>1. PICK c \in wk[t].batch : wk'[t].batch = wk[t].batch \ {c} /\ wk'[t].cl = c
    BY <1>4 DEF NextEvent, WkIdle, TypeOK
  <2>2. wk[t].pc = "idle"
    BY <1>4 DEF NextEvent
  <2> QED BY <1>2, <2>1, <2>2, OtherWorkers DEF Claimed
<1>5. \/ EpollWait(t) \/ NextEvent(t)
      \/ wk'[t].batch = wk[t].batch /\ wk'[t].cl \in {wk[t].cl, NoConn}
  <2>1. Done(t) => wk'[t].batch = wk[t].batch /\ wk'[t].cl = NoConn
    BY DEF TypeOK, Done, WkIdle
  <2>2. \A pc : Goto(t, pc) => wk'[t].batch = wk[t].batch /\ wk'[t].cl = wk[t].cl
    BY GotoState
  <2>3. ASSUME NEW pc, NEW m, wk' = [wk EXCEPT ![t].pc = pc, ![t].msg = m]
        PROVE  wk'[t].batch = wk[t].batch /\ wk'[t].cl = wk[t].cl
    BY <1>1, <2>3 DEF TypeOK, WkState
  <2>4. ASSUME NEW d, wk' = [wk EXCEPT ![t].pc = "sendhdr", ![t].dst = d,
                                       ![t].dfd = fdOf[d]]
        PROVE  wk'[t].batch = wk[t].batch /\ wk'[t].cl = wk[t].cl
    BY <1>1, <2>4 DEF TypeOK, WkState
  <2>5. ASSUME NEW i, wk' = [wk EXCEPT ![t].scan = i]
        PROVE  wk'[t].batch = wk[t].batch /\ wk'[t].cl = wk[t].cl
    BY <1>1, <2>5 DEF TypeOK, WkState
  <2>6. RecvHeader(t) => wk'[t].batch = wk[t].batch /\ wk'[t].cl \in {wk[t].cl, NoConn}
    <3> SUFFICES ASSUME RecvHeader(t), ~Done(t), \A pc : ~Goto(t, pc)
                 PROVE  wk'[t].batch = wk[t].batch /\ wk'[t].cl = wk[t].cl
      BY <2>1, <2>2
    <3>1. PICK s : s = At(wk[t].fd)
      OBVIOUS
    <3>2. wk' = [wk EXCEPT ![t].pc = IF Head(inq[s]).m.kind = "long" THEN "error"
                                                                    ELSE "payload",
                           ![t].msg = Head(inq[s]).m]
      BY <3>1 DEF RecvHeader
    <3> QED BY <2>3, <3>2
  <2>7. Lookup(t) => wk'[t].batch = wk[t].batch /\ wk'[t].cl \in {wk[t].cl, NoConn}
    BY <2>1, <2>4, <2>5 DEF Lookup
  <2>8. RecvPayload(t) \/ SendError(t) \/ CloseClient(t) \/ Unregister(t) \/ Rehashed(t)
          \/ RelayHeader(t) \/ RelayPayload(t)
        => wk'[t].batch = wk[t].batch /\ wk'[t].cl \in {wk[t].cl, NoConn}
    BY <2>1, <2>2 DEF RecvPayload, SendError, CloseClient, Unregister, Rehashed,
                      RelayHeader, RelayPayload, Relay
  <2> QED BY <2>6, <2>7, <2>8 DEF Worker
<1> QED BY <1>2, <1>3, <1>4, <1>5, OtherWorkers DEF Claimed, EpollWait

LEMMA EpollAddClaims ==
  ASSUME ClaimInv, EntryInv', EpollAdd, Watch(acc.c), AccGoto("setfd")
  PROVE  ClaimInv'
<1> USE DEF ClaimInv, EntryInv
<1>0. PICK c : c = acc.c
  OBVIOUS
<1>1. acc.pc = "epoll" /\ c \in Conns /\ UNCHANGED <<peer, backlog, wk>>
  BY <1>0 DEF EpollAdd, TypeOK, AccState, clientVars, netVars
<1>2. acc'.pc = "setfd"
  BY AccGotoEntries
<1>3. Unwatched(c)
  BY <1>0, <1>1 DEF Unwatched, BeforeWatch
<1>4. \A t \in Threads : Claimed(t)' \subseteq
        IF t = num_thread THEN Claimed(t) \cup {c} ELSE Claimed(t)
  BY <1>0, <1>1 DEF Watch, Claimed, TypeOK
<1>5. \A t \in Threads : c \notin Claimed(t)
  BY <1>3 DEF ClaimsWatched
<1>6. ClaimsApart'
  BY <1>4, <1>5 DEF ClaimsApart
<1>7. \A d : Unwatched(d)' => Unwatched(d)
  BY <1>1, <1>2 DEF Unwatched, BeforeWatch
<1>8. ~Unwatched(c)'
  <2>1. peer[c] # "off" /\ c \notin backlog
    BY <1>0, <1>1 DEF FreshOutside, Busy
  <2> QED BY <1>1, <1>2, <2>1 DEF Unwatched, BeforeWatch
<1>9. ClaimsWatched'
  <2> SUFFICES ASSUME NEW t \in Threads, NEW d \in Claimed(t)' PROVE ~Unwatched(d)'
    BY DEF ClaimsWatched
  <2> QED BY <1>4, <1>7, <1>8 DEF ClaimsWatched
<1> QED BY <1>6, <1>9

LEMMA StepClaims == ClaimInv /\ [Next]_vars => ClaimInv'
<1> SUFFICES ASSUME ClaimInv, [Next]_vars PROVE ClaimInv'
  OBVIOUS
<1>1. EntryInv' /\ TypeOK
  BY StepEntries DEF ClaimInv, EntryInv
<1>2. ASSUME NEW t \in Threads, Worker(t)
      PROVE  ClaimInv'
  <2>1. UNCHANGED <<backlog, acc>> /\ \A c \in Conns : peer'[c] = "off" => peer[c] = "off"
    BY <1>1, <1>2, WorkerFrame, WorkerPeers
  <2> QED BY <1>1, <1>2, <2>1, WorkerClaims, FewerClaims
<1>3. ASSUME NEW c \in Conns, Client(c)
      PROVE  ClaimInv'
  <2>1. UNCHANGED <<interest, acc, wk>>
    BY <1>3, ClientTables DEF fdVars
  <2>2. /\ \A d \in Conns : peer'[d] = "off" => peer[d] = "off"
        /\ \A d \in backlog' : d \in backlog \/ peer[d] = "off"
    BY <1>1, <1>3 DEF Client, Connect, Answer, SendMessageHeader, SendMessagePayload,
                      Leave, netVars, TypeOK
  <2>3. \A t \in Threads : Claimed(t)' \subseteq Claimed(t)
    BY <2>1 DEF Claimed
  <2> QED BY <1>1, <2>1, <2>2, <2>3, FewerClaims
<1>4. ASSUME Main, ~(EpollAdd /\ Watch(acc.c) /\ AccGoto("setfd"))
      PROVE  ClaimInv'
  <2>1. /\ UNCHANGED <<peer, wk>>
        /\ \A c \in backlog' : c \in backlog
    BY <1>4 DEF Main, Accept, SendChallenge, RecvAnswer, Refuse, Authorise, EpollAdd, SetFd,
                SetName, Register, clientVars, netVars
  <2>2. \A t \in Threads : interest'[t] \subseteq interest[t]
    <3>1. ASSUME NEW f, CloseFd(f)
          PROVE  \A t \in Threads : interest'[t] \subseteq interest[t]
      BY <3>1 DEF CloseFd
    <3> QED BY <1>4, <3>1 DEF Main, Accept, SendChallenge, RecvAnswer, Refuse, Authorise,
         EpollAdd, SetFd, SetName, Register, HangUp, fdVars
  <2>3. \A t \in Threads : Claimed(t)' \subseteq Claimed(t)
    BY <2>1, <2>2 DEF Claimed
  <2>4. acc'.pc \in BeforeWatch =>
          Unwatched(acc'.c) \/ (acc.pc \in BeforeWatch /\ acc'.c = acc.c)
    <3>1. acc' = AccIdle => acc'.pc \notin BeforeWatch
      BY DEF AccIdle, BeforeWatch
    <3>2. \A pc : AccGoto(pc) => acc'.pc = pc /\ acc'.c = acc.c
      BY <1>1, AccGotoEntries
    <3>3. CASE Accept
      <4>1. CASE UNCHANGED acc
        BY <4>1
      <4>2. CASE \E c \in backlog, f \in Fds : acc' = [pc |-> "challenge", c |-> c, fd |-> f]
        BY <4>2 DEF Unwatched
      <4> QED BY <3>3, <4>1, <4>2 DEF Accept
    <3>4. CASE SendChallenge
      BY <3>1, <3>2, <3>4 DEF SendChallenge, HangUp, BeforeWatch
    <3>5. CASE RecvAnswer \/ Refuse
      BY <3>1, <3>2, <3>5 DEF RecvAnswer, Refuse, HangUp, BeforeWatch
    <3>6. CASE Authorise
      BY <3>2, <3>6 DEF Authorise, BeforeWatch
    <3>7. CASE EpollAdd
      BY <1>4, <3>1, <3>7 DEF EpollAdd
    <3>8. CASE SetFd \/ SetName \/ Register
      BY <3>1, <3>2, <3>8 DEF SetFd, SetName, Register, BeforeWatch
    <3> QED BY <1>4, <3>3, <3>4, <3>5, <3>6, <3>7, <3>8 DEF Main
  <2> QED BY <1>1, <2>1, <2>3, <2>4, FewerClaims
<1>5. CASE UNCHANGED vars
  BY <1>1, <1>5, FewerClaims DEF vars, clientVars, netVars, fdVars, Claimed
<1> QED BY <1>1, <1>2, <1>3, <1>4, <1>5, EpollAddClaims DEF Next

LEMMA InitClaims == Init => ClaimInv
<1>1. Init => \A t \in Threads : Claimed(t) = {}
  BY DEF Init, Claimed, WkIdle
<1> QED BY <1>1, InitEntries DEF ClaimInv, ClaimsApart, ClaimsWatched

----------------------------------------------------------------------------
(* The order of one sender's messages.                                      *)

Before(m, n) == m.src = n.src => m.seq < n.seq

\* A stream holds its headers in order, and they come after every message that
\* a worker has taken or relayed, whatever it has misread.
HeadersOrdered ==
  \A c \in Conns : \A i, j \in 1..Len(inq[c]) :
    i < j /\ inq[c][i].k = "hdr" /\ inq[c][j].k = "hdr" => Before(inq[c][i].m, inq[c][j].m)
CarriedFirst ==
  \A t \in Threads : wk[t].pc \in Carrying => \A h \in Headers : Before(wk[t].msg, h)
RelayedFirst ==
  \A c \in Conns : \A i \in Relayed(c) : \A h \in Headers : Before(out[c][i].m, h)

\* A worker's message is of the client it is serving, and later than all of
\* that client's that have been relayed.
OwnStreams ==
  "recv" \in misuse \/
  \A t \in Threads : wk[t].pc \in Carrying => wk[t].msg.src = wk[t].cl
RelayedEarlier ==
  "recv" \in misuse \/
  \A t \in Threads : wk[t].pc \in Carrying =>
    \A c \in Conns : \A i \in Relayed(c) : Before(out[c][i].m, wk[t].msg)

OrderInv == /\ PacketInv
            /\ ClaimInv
            /\ HeadersOrdered
            /\ CarriedFirst
            /\ RelayedFirst
            /\ OwnStreams
            /\ RelayedEarlier
            /\ SenderOrder

LEMMA ConsumedOrdered ==
  ASSUME TypeOK, HeadersOrdered, Consumed
  PROVE  HeadersOrdered' /\ Headers' \subseteq Headers
<1>0. ASSUME NEW c \in Conns
      PROVE  \E d \in Nat : \A j \in 1..Len(inq'[c]) : inq'[c][j].k = "hdr" =>
               j + d \in 1..Len(inq[c]) /\ inq'[c][j] = inq[c][j + d]
  <2>1. PICK d \in Nat : \A j \in 1..Len(inq'[c]) :
          \/ inq'[c][j] = Plain("junk")
          \/ j + d \in 1..Len(inq[c]) /\ inq'[c][j] = inq[c][j + d]
    BY DEF Consumed
  <2>2. \A x : x.k = "hdr" => x # Plain("junk")
    BY DEF Plain
  <2> QED BY <2>1, <2>2
<1>1. HeadersOrdered'
  <2> SUFFICES ASSUME NEW c \in Conns, NEW i \in 1..Len(inq'[c]), NEW j \in 1..Len(inq'[c]),
                      i < j, inq'[c][i].k = "hdr", inq'[c][j].k = "hdr"
               PROVE  Before(inq'[c][i].m, inq'[c][j].m)
    BY DEF HeadersOrdered, Before
  <2>1. PICK d \in Nat : \A k \in 1..Len(inq'[c]) : inq'[c][k].k = "hdr" =>
               k + d \in 1..Len(inq[c]) /\ inq'[c][k] = inq[c][k + d]
    BY <1>0
  <2>2. i + d < j + d
    OBVIOUS
  <2> QED BY <2>1, <2>2 DEF HeadersOrdered
<1>2. Headers' \subseteq Headers
  BY <1>0 DEF Headers, Streams
<1> QED BY <1>1, <1>2

\* A header read comes before every header left in the streams.
LEMMA HeaderTaken ==
  ASSUME OrderInv, Consumed, NEW t \in Threads, NEW s, TakesHeader(t, s)
  PROVE  /\ wk'[t].msg \in Headers /\ wk'[t].msg.src = s
         /\ \A h \in Headers' : Before(wk'[t].msg, h)
<1> USE DEF OrderInv, PacketInv
<1>1. /\ s \in Conns /\ inq[s] # <<>> /\ inq[s] \in Seq(Chunk) /\ inq'[s] = Tail(inq[s])
      /\ 1 \in 1..Len(inq[s]) /\ inq[s][1].k = "hdr" /\ wk'[t].msg = inq[s][1].m
  BY HeadIsFirst DEF TakesHeader, TypeOK
<1>2. wk'[t].msg \in Headers /\ wk'[t].msg.src = s
  BY <1>1 DEF Headers, StreamsTrue, MessageOf, Streams
<1>3. ASSUME NEW c \in Conns, NEW i \in 1..Len(inq'[c]), inq'[c][i].k = "hdr"
      PROVE  Before(wk'[t].msg, inq'[c][i].m)
  <2>1. CASE c = s
    <3>1. i + 1 \in 1..Len(inq[s]) /\ inq'[s][i] = inq[s][i + 1]
      BY <1>1, <2>1, TailConsumes
    <3>2. 1 < i + 1
      OBVIOUS
    <3> QED BY <1>1, <1>3, <2>1, <3>1, <3>2 DEF HeadersOrdered
  <2>2. CASE c # s
    <3>1. PICK d \in Nat : \/ inq'[c][i] = Plain("junk")
                           \/ i + d \in 1..Len(inq[c]) /\ inq'[c][i] = inq[c][i + d]
      BY DEF Consumed
    <3>2. i + d \in 1..Len(inq[c]) /\ inq'[c][i] = inq[c][i + d]
      BY <1>3, <3>1 DEF Plain
    <3>3. inq'[c][i].m.src = c
      BY <1>3, <3>2 DEF StreamsTrue, MessageOf
    <3> QED BY <1>2, <2>2, <3>3 DEF Before
  <2> QED BY <2>1, <2>2
<1>4. \A h \in Headers' : Before(wk'[t].msg, h)
  <2>1. ASSUME NEW h \in Headers'
        PROVE  \E c \in Conns : \E i \in 1..Len(inq'[c]) :
                 inq'[c][i].k = "hdr" /\ inq'[c][i].m = h
    BY DEF Headers, Streams
  <2> QED BY <1>3, <2>1
<1> QED BY <1>2, <1>4

\* Two workers that carry a packet each serve different clients.
LEMMA ClientsApart ==
  ASSUME ClaimInv, NEW t \in Threads, NEW u \in Threads \ {t},
         wk[t].cl \in Conns, wk[u].cl \in Conns
  PROVE  wk[t].cl # wk[u].cl
  BY ConstantsAssumption DEF ClaimInv, ClaimsApart, Claimed

\* What the worker carries after its step comes before every header left, and
\* is of the client it serves and later than all that has been relayed of it.
LEMMA CarriedOrder ==
  ASSUME OrderInv, Consumed, NEW t \in Threads, Worker(t), wk'[t].pc \in Carrying
  PROVE  /\ \A h \in Headers' : Before(wk'[t].msg, h)
         /\ "recv" \notin misuse' =>
              /\ wk'[t].msg.src = wk'[t].cl
              /\ \A c \in Conns : \A i \in Relayed(c) : Before(out[c][i].m, wk'[t].msg)
<1> USE DEF OrderInv, PacketInv
<1>0. misuse \subseteq misuse' /\ Headers' \subseteq Headers
  <2>1. misuse \subseteq misuse'
    BY WorkerMisuse
  <2> QED BY <2>1, ConsumedOrdered
<1>1. CASE wk[t].pc \in Carrying /\ wk'[t].msg = wk[t].msg /\ wk'[t].cl = wk[t].cl
  BY <1>0, <1>1 DEF CarriedFirst, OwnStreams, RelayedEarlier
<1>2. CASE TakesHeader(t, At(wk[t].fd))
  <2>1. PICK s : s = At(wk[t].fd)
    OBVIOUS
  <2>2. /\ wk'[t].msg \in Headers /\ wk'[t].msg.src = s
        /\ \A h \in Headers' : Before(wk'[t].msg, h)
    BY <1>2, <2>1, HeaderTaken
  <2>3. ASSUME "recv" \notin misuse'
        PROVE  s = wk'[t].cl
    <3>1. s \in Conns /\ Stale("recv", wk[t].fd, wk[t].cl) = {} /\ wk'[t].cl = wk[t].cl
      BY <1>2, <2>1, <2>3, StaleType DEF TakesHeader, Misuse
    <3>2. s \in {wk[t].cl, NoConn}
      BY <2>1, <3>1 DEF Stale
    <3> QED BY <3>1, <3>2, ConstantsAssumption
  <2>4. \A c \in Conns : \A i \in Relayed(c) : Before(out[c][i].m, wk'[t].msg)
    BY <2>2 DEF RelayedFirst
  <2> QED BY <2>2, <2>3, <2>4
<1> QED BY <1>1, <1>2, WorkerPackets DEF TakesPayload, KeepsPacket, Carrying

LEMMA WorkerOrder ==
  ASSUME OrderInv, NEW t \in Threads, Worker(t)
  PROVE  (/\ HeadersOrdered /\ CarriedFirst /\ RelayedFirst
          /\ OwnStreams /\ RelayedEarlier /\ SenderOrder)'
<1> USE DEF OrderInv, PacketInv
<1>1. /\ Consumed /\ HeadersOrdered' /\ Headers' \subseteq Headers
      /\ \A u \in Threads \ {t} : wk'[u] = wk[u]
      /\ misuse \subseteq misuse'
  <2>1. misuse \subseteq misuse'
    BY WorkerMisuse
  <2> QED BY <2>1, WorkerConsumes, ConsumedOrdered, OtherWorkers
<1>2. CarriedFirst'
  BY <1>1, CarriedOrder DEF CarriedFirst
<1>3. OwnStreams'
  BY <1>1, CarriedOrder DEF OwnStreams
<1>4. CASE RelayedBefore
  <2>1. RelayedFirst'
    BY <1>1, <1>4 DEF RelayedFirst, RelayedBefore
  <2>2. RelayedEarlier'
    BY <1>1, <1>4, CarriedOrder DEF RelayedEarlier, RelayedBefore
  <2>3. SenderOrder'
    BY <1>1, <1>4 DEF SenderOrder, RelayedBefore
  <2> QED BY <1>1, <1>2, <1>3, <2>1, <2>2, <2>3
<1>5. CASE RelaysNow(t)
  <2>0. PICK M : M = wk[t].msg
    OBVIOUS
  <2>1. PICK d \in Conns : \A c \in Conns : \A i \in Relayed(c)' :
          \/ i \in Relayed(c) /\ out'[c][i] = out[c][i]
          \/ c = d /\ i = Len(out[d]) + 1 /\ out'[c][i] = Part("pay", M)
    BY <1>5, <2>0 DEF RelaysNow
  <2>2. /\ Part("pay", M).m = M /\ M.src \in Conns
        /\ wk[t].pc \in Carrying /\ wk'[t].pc \notin Carrying
    BY <1>5, <2>0 DEF Part, RelaysNow, Carrying, Holding, PacketsTrue, MessageOf, Message
  <2>3. \A h \in Headers' : Before(M, h)
    BY <1>1, <2>0, <2>2 DEF CarriedFirst
  <2>4. RelayedFirst'
    BY <1>1, <2>1, <2>2, <2>3 DEF RelayedFirst
  <2>5. RelayedEarlier'
    <3> SUFFICES ASSUME "recv" \notin misuse', NEW u \in Threads, wk'[u].pc \in Carrying,
                        NEW c \in Conns, NEW i \in Relayed(c)'
                 PROVE  Before(out'[c][i].m, wk'[u].msg)
      BY DEF RelayedEarlier, Before
    <3>1. u # t /\ wk'[u] = wk[u] /\ "recv" \notin misuse
      BY <1>1, <2>2
    <3>2. CASE i \in Relayed(c) /\ out'[c][i] = out[c][i]
      BY <3>1, <3>2 DEF RelayedEarlier
    <3>3. CASE out'[c][i] = Part("pay", M)
      <4>1. M.src = wk[t].cl /\ wk[u].msg.src = wk[u].cl /\ wk[u].msg.src \in Conns
        BY <2>0, <2>2, <3>1 DEF OwnStreams, PacketsTrue, MessageOf, Message
      <4>2. M.src # wk[u].msg.src
        BY <2>2, <3>1, <4>1, ClientsApart
      <4> QED BY <2>2, <3>1, <3>3, <4>2 DEF Before
    <3> QED BY <2>1, <3>2, <3>3
  <2>6. SenderOrder'
    <3> SUFFICES ASSUME "recv" \notin misuse', NEW c \in Conns,
                        NEW i \in Relayed(c)', NEW j \in Relayed(c)',
                        i < j, out'[c][i].m.src = out'[c][j].m.src
                 PROVE  out'[c][i].m.seq < out'[c][j].m.seq
      BY DEF SenderOrder
    <3>1. "recv" \notin misuse
      BY <1>1
    <3>2. i \in Relayed(c) /\ out'[c][i] = out[c][i]
      <4>1. \A k \in Relayed(d) : k < Len(out[d]) + 1
        BY DEF Relayed, TypeOK
      <4>2. i \in Nat /\ j \in Nat /\ Len(out[d]) \in Nat
        BY DEF Relayed, TypeOK
      <4> QED BY <2>1, <4>1, <4>2
    <3>3. CASE j \in Relayed(c) /\ out'[c][j] = out[c][j]
      BY <3>1, <3>2, <3>3 DEF SenderOrder
    <3>4. CASE out'[c][j] = Part("pay", M)
      <4>1. Before(out[c][i].m, M)
        BY <2>0, <2>2, <3>1, <3>2 DEF RelayedEarlier
      <4> QED BY <2>2, <3>2, <3>4, <4>1 DEF Before
    <3> QED BY <2>1, <3>3, <3>4
  <2> QED BY <1>1, <1>2, <1>3, <2>4, <2>5, <2>6
<1> QED BY <1>4, <1>5, WorkerRelays

LEMMA MainOrder ==
  ASSUME OrderInv, Main
  PROVE  (/\ HeadersOrdered /\ CarriedFirst /\ RelayedFirst
          /\ OwnStreams /\ RelayedEarlier /\ SenderOrder)'
<1> USE DEF OrderInv, PacketInv
<1>1. UNCHANGED wk /\ misuse \subseteq misuse'
  BY DEF Main, Accept, SendChallenge, RecvAnswer, Refuse, Authorise, EpollAdd, SetFd,
         SetName, Register
<1>2. RelayedBefore /\ HeadersOrdered' /\ Headers' \subseteq Headers
  BY MainConsumes, MainRelays, ConsumedOrdered
<1>3. CarriedFirst' /\ OwnStreams'
  BY <1>1, <1>2 DEF CarriedFirst, OwnStreams
<1>4. RelayedFirst' /\ RelayedEarlier'
  BY <1>1, <1>2 DEF RelayedFirst, RelayedEarlier, RelayedBefore
<1>5. SenderOrder'
  BY <1>1, <1>2 DEF SenderOrder, RelayedBefore
<1> QED BY <1>2, <1>3, <1>4, <1>5

LEMMA ClientOrder ==
  ASSUME OrderInv, NEW c \in Conns, Client(c)
  PROVE  (/\ HeadersOrdered /\ CarriedFirst /\ RelayedFirst
          /\ OwnStreams /\ RelayedEarlier /\ SenderOrder)'
<1> USE DEF OrderInv, PacketInv
<1>1. UNCHANGED <<wk, out, misuse>>
  BY DEF Client, Connect, Answer, SendMessageHeader, SendMessagePayload, Leave, netVars
<1>2. OwnStreams' /\ RelayedEarlier' /\ SenderOrder'
  BY <1>1 DEF OwnStreams, RelayedEarlier, SenderOrder, Relayed
<1>3. ASSUME Headers' \subseteq Headers
      PROVE  CarriedFirst' /\ RelayedFirst'
  BY <1>1, <1>3 DEF CarriedFirst, RelayedFirst, Relayed
<1>4. CASE Connect(c) \/ Leave(c)
  <2>1. UNCHANGED inq
    BY <1>4 DEF Connect, Leave, netVars
  <2>2. HeadersOrdered' /\ Headers' \subseteq Headers
    BY <2>1 DEF HeadersOrdered, Headers, Streams
  <2> QED BY <1>2, <1>3, <2>2
<1>5. ASSUME NEW ch \in Chunk, Send(c, ch), ch.k # "hdr"
      PROVE  HeadersOrdered' /\ Headers' \subseteq Headers
  <2>1. \A d \in Conns : \A i \in 1..Len(inq'[d]) : inq'[d][i].k = "hdr" =>
          i \in 1..Len(inq[d]) /\ inq'[d][i] = inq[d][i]
    BY <1>5, StreamGrows
  <2>2. Headers' \subseteq Headers
    BY <2>1 DEF Headers, Streams
  <2>3. HeadersOrdered'
    BY <2>1 DEF HeadersOrdered
  <2> QED BY <2>2, <2>3
<1>6. CASE Answer(c)
  <2>1. Plain("auth") \in Chunk /\ Plain("auth").k # "hdr"
    BY InitialChunks DEF Plain
  <2> QED BY <1>2, <1>3, <1>5, <1>6, <2>1 DEF Answer
<1>7. CASE SendMessagePayload(c)
  <2>1. Part("pay", part[c]) \in Chunk /\ Part("pay", part[c]).k # "hdr"
    BY InitialChunks DEF Part, TypeOK
  <2> QED BY <1>2, <1>3, <1>5, <1>7, <2>1 DEF SendMessagePayload
<1>8. CASE SendMessageHeader(c)
  <2>1. PICK m \in Message : /\ m.src = c /\ m.seq = sent[c] + 1
                             /\ part' = [part EXCEPT ![c] = m] /\ Send(c, Part("hdr", m))
    BY <1>8, HeaderSent
  <2>2. Part("hdr", m) \in Chunk /\ Part("hdr", m).m = m
    BY InitialChunks DEF Part
  <2>3. \A d \in Conns : \A i \in 1..Len(inq'[d]) :
          \/ i \in 1..Len(inq[d]) /\ inq'[d][i] = inq[d][i]
          \/ d = c /\ i = Len(inq[d]) + 1 /\ inq'[d][i] = Part("hdr", m)
    BY <2>1, <2>2, StreamGrows
  <2>4. Headers' \subseteq Headers \cup {m}
    BY <2>2, <2>3 DEF Headers, Streams
  <2>5. \A n : MessageOf(n.src, sent[n.src], n) => Before(n, m)
    <3>1. sent[c] \in Int
      BY DEF TypeOK
    <3> QED BY <2>1, <3>1 DEF MessageOf, Message, Before
  <2>6. CarriedFirst'
    BY <1>1, <2>4, <2>5 DEF CarriedFirst, PacketsTrue
  <2>7. RelayedFirst'
    BY <1>1, <2>4, <2>5 DEF RelayedFirst, Relayed, RelayedTrue
  <2>8. HeadersOrdered'
    <3> SUFFICES ASSUME NEW d \in Conns, NEW i \in 1..Len(inq'[d]), NEW j \in 1..Len(inq'[d]),
                        i < j, inq'[d][i].k = "hdr", inq'[d][j].k = "hdr"
                 PROVE  Before(inq'[d][i].m, inq'[d][j].m)
      BY DEF HeadersOrdered, Before
    <3>1. i \in 1..Len(inq[d]) /\ inq'[d][i] = inq[d][i]
      <4>1. Len(inq'[d]) \in Nat /\ Len(inq[d]) \in Nat /\ Len(inq'[d]) <= Len(inq[d]) + 1
        BY <2>1, <2>2, AppendProperties DEF Send, TypeOK
      <4> QED BY <2>3, <4>1
    <3>2. CASE j \in 1..Len(inq[d]) /\ inq'[d][j] = inq[d][j]
      BY <3>1, <3>2 DEF HeadersOrdered
    <3>3. CASE inq'[d][j] = Part("hdr", m)
      <4>1. MessageOf(inq[d][i].m.src, sent[inq[d][i].m.src], inq[d][i].m)
        BY <3>1 DEF StreamsTrue, MessageOf
      <4> QED BY <2>2, <2>5, <3>1, <3>3, <4>1
    <3> QED BY <2>3, <3>2, <3>3
  <2> QED BY <1>2, <2>6, <2>7, <2>8
<1> QED BY <1>4, <1>6, <1>7, <1>8 DEF Client

LEMMA InitOrder == Init => OrderInv
<1> SUFFICES ASSUME Init PROVE OrderInv
  OBVIOUS
<1>1. Headers = {} /\ HeadersOrdered /\ SenderOrder /\ RelayedFirst
  BY DEF Init, Headers, HeadersOrdered, SenderOrder, RelayedFirst, Relayed, Streams
<1>2. CarriedFirst /\ OwnStreams /\ RelayedEarlier
  BY DEF Init, CarriedFirst, OwnStreams, RelayedEarlier, WkIdle, Carrying, Holding
<1> QED BY <1>1, <1>2, InitPackets, InitClaims DEF OrderInv

LEMMA StepOrder == OrderInv /\ [Next]_vars => OrderInv'
<1> SUFFICES ASSUME OrderInv, [Next]_vars PROVE OrderInv'
  OBVIOUS
<1>1. PacketInv' /\ ClaimInv'
  BY StepPackets, StepClaims DEF OrderInv
<1>2. CASE UNCHANGED vars
  <2>1. UNCHANGED <<inq, out, wk, misuse>>
    BY <1>2 DEF vars, netVars
  <2>2. HeadersOrdered' /\ Headers' = Headers
    BY <2>1 DEF OrderInv, HeadersOrdered, Headers, Streams
  <2>3. CarriedFirst' /\ RelayedFirst'
    BY <2>1, <2>2 DEF OrderInv, CarriedFirst, RelayedFirst, Relayed
  <2>4. OwnStreams' /\ RelayedEarlier' /\ SenderOrder'
    BY <2>1 DEF OrderInv, OwnStreams, RelayedEarlier, SenderOrder, Relayed
  <2> QED BY <1>1, <2>2, <2>3, <2>4 DEF OrderInv
<1>3. CASE Next
  BY <1>1, <1>3, MainOrder, WorkerOrder, ClientOrder DEF Next, OrderInv
<1> QED BY <1>2, <1>3

\* What one connection sent arrives at any other in the order it was sent, as
\* long as no worker has read from a descriptor given out again: one worker
\* reads a stream, and has relayed a message before it reads the next.
THEOREM OrderCorrect == Spec => []SenderOrder
<1>1. OrderInv => SenderOrder
  BY DEF OrderInv
<1> QED BY <1>1, InitOrder, StepOrder, PTL DEF Spec

----------------------------------------------------------------------------
(* The packets of one sender are whole.                                     *)

PieceOf(ch, src) == ch.k \in {"hdr", "pay"} /\ ch.m.src = src

\* An output whose last piece of a sender's is the header of the message, and
\* one whose payloads each came when that was so.
HeaderLast(s, m) ==
  \E j \in 1..Len(s) : /\ s[j] = Part("hdr", m)
                       /\ \A k \in j + 1..Len(s) : ~PieceOf(s[k], m.src)
Framed(s) ==
  \A i \in 1..Len(s) : s[i].k = "pay" => \E j \in 1..i - 1 :
    /\ s[j] = Part("hdr", s[i].m)
    /\ \A k \in j + 1..i - 1 : ~PieceOf(s[k], s[i].m.src)

\* Between its two sends a worker has the recipient's output so for its message,
\* or the recipient gets no more.
Gone == {"closed", "reset"}
HeadersOut ==
  \A t \in Threads : wk[t].pc = "sendpay" =>
    /\ wk[t].dst \in Conns
    /\ peer[wk[t].dst] \in Gone \/ HeaderLast(out[wk[t].dst], wk[t].msg)
FramedInv ==
  /\ OrderInv
  /\ misuse \cap {"send", "recv"} # {} \/ (HeadersOut /\ \A c \in Conns : Framed(out[c]))

LEMMA AppendAt ==
  ASSUME NEW s \in Seq(Chunk), NEW ch \in Chunk, NEW l, l = Append(s, ch)
  PROVE  /\ Len(s) \in Nat /\ Len(l) = Len(s) + 1 /\ l[Len(s) + 1] = ch
         /\ \A i \in 1..Len(s) : l[i] = s[i]
OBVIOUS

LEMMA AppendFramed ==
  ASSUME NEW s \in Seq(Chunk), NEW ch \in Chunk, Framed(s),
         ch.k = "pay" => HeaderLast(s, ch.m)
  PROVE  Framed(Append(s, ch))
<1>1. PICK l : l = Append(s, ch)
  OBVIOUS
<1>2. /\ Len(s) \in Nat /\ Len(l) = Len(s) + 1 /\ l[Len(s) + 1] = ch
      /\ \A i \in 1..Len(s) : l[i] = s[i]
  BY <1>1, AppendAt
<1> SUFFICES ASSUME NEW i \in 1..Len(l), l[i].k = "pay"
             PROVE  \E j \in 1..i - 1 : /\ l[j] = Part("hdr", l[i].m)
                                        /\ \A k \in j + 1..i - 1 : ~PieceOf(l[k], l[i].m.src)
  BY <1>1 DEF Framed
<1>3. CASE i \in 1..Len(s)
  <2>1. PICK j \in 1..i - 1 : /\ s[j] = Part("hdr", s[i].m)
                              /\ \A k \in j + 1..i - 1 : ~PieceOf(s[k], s[i].m.src)
    BY <1>2, <1>3 DEF Framed
  <2>2. l[i] = s[i] /\ l[j] = s[j] /\ \A k \in j + 1..i - 1 : l[k] = s[k]
    BY <1>2, <1>3, <2>1
  <2> QED BY <2>1, <2>2
<1>4. CASE i = Len(s) + 1
  <2>1. PICK j \in 1..Len(s) : /\ s[j] = Part("hdr", ch.m)
                               /\ \A k \in j + 1..Len(s) : ~PieceOf(s[k], ch.m.src)
    BY <1>2, <1>4 DEF HeaderLast
  <2>2. l[i] = ch /\ l[j] = s[j] /\ \A k \in j + 1..Len(s) : l[k] = s[k]
    BY <1>2, <1>4, <2>1
  <2>3. i - 1 = Len(s)
    BY <1>2, <1>4
  <2> QED BY <2>1, <2>2, <2>3
<1> QED BY <1>2, <1>3, <1>4

\* Pieces of other senders leave a header the last of its own.
LEMMA AppendKeepsHeader ==
  ASSUME NEW s \in Seq(Chunk), NEW ch \in Chunk, NEW m, HeaderLast(s, m),
         ~PieceOf(ch, m.src)
  PROVE  HeaderLast(Append(s, ch), m)
<1>1. PICK l : l = Append(s, ch)
  OBVIOUS
<1>2. /\ Len(s) \in Nat /\ Len(l) = Len(s) + 1 /\ l[Len(s) + 1] = ch
      /\ \A i \in 1..Len(s) : l[i] = s[i]
  BY <1>1, AppendAt
<1>3. PICK j \in 1..Len(s) : /\ s[j] = Part("hdr", m)
                             /\ \A k \in j + 1..Len(s) : ~PieceOf(s[k], m.src)
  BY DEF HeaderLast
<1>4. j \in 1..Len(l) /\ l[j] = Part("hdr", m)
  BY <1>2, <1>3
<1>5. ASSUME NEW k \in j + 1..Len(l)
      PROVE  ~PieceOf(l[k], m.src)
  <2>1. CASE k = Len(s) + 1
    BY <1>2, <2>1
  <2>2. CASE k \in j + 1..Len(s)
    BY <1>2, <1>3, <2>2
  <2> QED BY <1>2, <2>1, <2>2
<1> QED BY <1>1, <1>4, <1>5 DEF HeaderLast

LEMMA AppendHeader ==
  ASSUME NEW s \in Seq(Chunk), NEW m, Part("hdr", m) \in Chunk
  PROVE  HeaderLast(Append(s, Part("hdr", m)), m)
<1>1. PICK l : l = Append(s, Part("hdr", m))
  OBVIOUS
<1>2. Len(s) \in Nat /\ Len(l) = Len(s) + 1 /\ l[Len(l)] = Part("hdr", m)
  BY <1>1, AppendAt
<1>3. Len(l) \in 1..Len(l) /\ Len(l) + 1..Len(l) = {}
  BY <1>2
<1> QED BY <1>1, <1>2, <1>3 DEF HeaderLast

\* A send leaves every output but one, to which it appends if it is open.
LEMMA SentTo ==
  ASSUME TypeOK, NEW f, NEW ch, SendOk(f, ch)
  PROVE  /\ At(f) \in Conns
         /\ \A c \in Conns \ {At(f)} : out'[c] = out[c]
         /\ \/ peer[At(f)] = "open" /\ out'[At(f)] = Append(out[At(f)], ch)
            \/ peer[At(f)] = "closed" /\ out'[At(f)] = out[At(f)]
BY DEF SendOk, TypeOK

LEMMA SendFramed ==
  ASSUME TypeOK, NEW f, NEW ch \in Chunk, SendOk(f, ch), \A c \in Conns : Framed(out[c]),
         ch.k = "pay" /\ peer[At(f)] = "open" => HeaderLast(out[At(f)], ch.m)
  PROVE  \A c \in Conns : Framed(out'[c])
<1>1. PICK d : d = At(f)
  OBVIOUS
<1>2. /\ d \in Conns /\ out[d] \in Seq(Chunk) /\ Framed(out[d])
      /\ \A c \in Conns \ {d} : out'[c] = out[c]
      /\ \/ peer[d] = "open" /\ out'[d] = Append(out[d], ch)
         \/ out'[d] = out[d]
  BY <1>1, SentTo DEF TypeOK
<1>3. CASE peer[d] = "open" /\ out'[d] = Append(out[d], ch)
  <2>1. Framed(Append(out[d], ch))
    BY <1>1, <1>2, <1>3, AppendFramed
  <2> QED BY <1>2, <1>3, <2>1
<1>4. CASE out'[d] = out[d]
  BY <1>2, <1>4
<1> QED BY <1>2, <1>3, <1>4

LEMMA SendKeepsHeader ==
  ASSUME TypeOK, NEW f, NEW ch \in Chunk, SendOk(f, ch), NEW d, NEW m,
         HeaderLast(out[d], m), ~PieceOf(ch, m.src), d \in Conns
  PROVE  HeaderLast(out'[d], m)
<1>1. out[d] \in Seq(Chunk) /\ out'[d] \in {out[d], Append(out[d], ch)}
  BY SentTo DEF TypeOK
<1> QED BY <1>1, AppendKeepsHeader

\* Who has left gets no more.
LEMMA GoneStays ==
  ASSUME TypeOK, Next, NEW c, peer[c] \in Gone, c \in Conns
  PROVE  peer'[c] \in Gone
<1>1. CASE Main
  BY <1>1 DEF Main, Accept, SendChallenge, RecvAnswer, Refuse, Authorise, EpollAdd, SetFd,
              SetName, Register, clientVars
<1>2. ASSUME NEW t \in Threads, Worker(t)
      PROVE  peer'[c] \in Gone
  <2>1. CASE RecvHeader(t) \/ RecvPayload(t)
    BY <2>1 DEF RecvHeader, RecvPayload, TypeOK, Gone
  <2>2. ~(RecvHeader(t) \/ RecvPayload(t)) => UNCHANGED peer
    BY <1>2 DEF Worker, EpollWait, NextEvent, SendError, CloseClient, Unregister, Rehashed,
                Lookup, RelayHeader, RelayPayload, Relay, clientVars
  <2> QED BY <2>1, <2>2
<1>3. ASSUME NEW d \in Conns, Client(d)
      PROVE  peer'[c] \in Gone
  BY <1>3 DEF Client, Connect, Answer, SendMessageHeader, SendMessagePayload, Leave,
              TypeOK, Gone
<1> QED BY <1>1, <1>2, <1>3 DEF Next

\* Only by a lookup, or after a header, does a worker come to send.
LEMMA WorkerSends ==
  ASSUME TypeOK, NEW t \in Threads, Worker(t), wk'[t].pc \in Sending
  PROVE  Lookup(t) \/ RelayHeader(t)
<1>1. \A b \in SUBSET Conns : WkIdle(b).pc \notin Sending
  BY DEF WkIdle, Sending
<1>2. ~Done(t)
  BY <1>1, DoneState DEF TypeOK, WkState
<1>3. \A pc : Goto(t, pc) => pc \in Sending
  BY GotoState
<1>4. ~EpollWait(t)
  <2>1. EpollWait(t) => wk'[t].pc = "idle"
    BY DEF EpollWait, TypeOK, WkState
  <2> QED BY <2>1 DEF Sending
<1>5. ~NextEvent(t)
  <2>1. NextEvent(t) => wk'[t].pc = "header"
    BY DEF NextEvent, TypeOK, WkState, WkIdle
  <2> QED BY <2>1 DEF Sending
<1>6. ~RecvHeader(t)
  <2>1. RecvHeader(t) => \/ wk'[t].pc \in {"error", "payload"} \/ Done(t) \/ Goto(t, "error")
                         \/ Goto(t, "garbled") \/ Goto(t, "close")
    BY DEF RecvHeader, TypeOK, WkState
  <2> QED BY <1>2, <1>3, <2>1 DEF Sending
<1>7. ~RecvPayload(t)
  <2>1. RecvPayload(t) => Done(t) \/ Goto(t, "error") \/ Goto(t, "errorEof") \/ Goto(t, "lookup")
    BY DEF RecvPayload
  <2> QED BY <1>2, <1>3, <2>1 DEF Sending
<1>8. ~SendError(t) /\ ~CloseClient(t) /\ ~Unregister(t) /\ ~Rehashed(t) /\ ~RelayPayload(t)
  BY <1>2, <1>3 DEF SendError, CloseClient, Unregister, Rehashed, RelayPayload, Relay, Sending
<1> QED BY <1>4, <1>5, <1>6, <1>7, <1>8 DEF Worker

\* What a lookup finds is in the table it is at.
LEMMA LookupIs ==
  ASSUME TypeOK, NEW t \in Threads, Lookup(t)
  PROVE  \/ \E d \in Named(wk[t].scan, wk[t].msg.to) :
              wk'[t].pc = "sendhdr" /\ wk'[t].dst = d
         \/ wk'[t].pc \in {"lookup", "idle"}
<1>1. PICK w : w = wk[t]
  OBVIOUS
<1>2. w \in WkState /\ wk \in [Threads -> WkState] /\ w.pc = "lookup"
  BY <1>1 DEF TypeOK, Lookup
<1>3. ASSUME NEW d, wk' = [wk EXCEPT ![t].pc = "sendhdr", ![t].dst = d, ![t].dfd = fdOf[d]]
      PROVE  wk'[t].pc = "sendhdr" /\ wk'[t].dst = d
  BY <1>1, <1>2, <1>3 DEF WkState
<1>4. ASSUME NEW i, wk' = [wk EXCEPT ![t].scan = i]
      PROVE  wk'[t].pc = "lookup"
  <2>1. wk'[t] = [w EXCEPT !.scan = i]
    BY <1>1, <1>2, <1>4
  <2> QED BY <1>2, <2>1 DEF WkState
<1>5. Done(t) => wk'[t].pc = "idle"
  BY DoneAt
<1>6. \/ \E d \in Named(wk[t].scan, wk[t].msg.to) :
           wk' = [wk EXCEPT ![t].pc = "sendhdr", ![t].dst = d, ![t].dfd = fdOf[d]]
      \/ \E i : wk' = [wk EXCEPT ![t].scan = i]
      \/ Done(t)
  BY Zenon DEF Lookup
<1> QED BY <1>3, <1>4, <1>5, <1>6

\* Workers that carry a packet at the same time have packets of different senders.
LEMMA OthersFramed ==
  ASSUME FramedInv, misuse \cap {"send", "recv"} = {}, NEW t \in Threads, NEW u \in Threads \ {t},
         wk[t].pc \in Carrying, wk[u].pc \in Carrying
  PROVE  wk[t].msg.src # wk[u].msg.src
<1> USE DEF FramedInv, OrderInv, PacketInv
<1>1. \A v \in {t, u} : wk[v].msg.src = wk[v].cl /\ wk[v].msg.src \in Conns
  BY DEF OwnStreams, PacketsTrue, MessageOf, Message
<1> QED BY <1>1, ClientsApart

\* So what one sends leaves what the others have sent as it was.
LEMMA SendHeaders ==
  ASSUME FramedInv, Next, misuse \cap {"send", "recv"} = {}, HeadersOut,
         NEW f, NEW ch \in Chunk, SendOk(f, ch), NEW u \in Threads,
         wk[u].pc = "sendpay", UNCHANGED <<wk[u]>>, ~PieceOf(ch, wk[u].msg.src)
  PROVE  /\ wk'[u].dst \in Conns
         /\ peer'[wk'[u].dst] \in Gone \/ HeaderLast(out'[wk'[u].dst], wk'[u].msg)
<1>1. TypeOK
  BY DEF FramedInv, OrderInv, PacketInv
<1>2. PICK d, m : d = wk[u].dst /\ m = wk[u].msg
  OBVIOUS
<1>3. d \in Conns /\ (peer[d] \in Gone \/ HeaderLast(out[d], m))
  BY <1>2 DEF HeadersOut
<1>4. peer'[d] \in Gone \/ HeaderLast(out'[d], m)
  BY <1>1, <1>2, <1>3, GoneStays, SendKeepsHeader
<1> QED BY <1>2, <1>3, <1>4

LEMMA QuietHeaders ==
  ASSUME TypeOK, Next, HeadersOut, UNCHANGED out, NEW u \in Threads,
         wk[u].pc = "sendpay", UNCHANGED <<wk[u]>>
  PROVE  /\ wk'[u].dst \in Conns
         /\ peer'[wk'[u].dst] \in Gone \/ HeaderLast(out'[wk'[u].dst], wk'[u].msg)
BY GoneStays DEF HeadersOut

LEMMA WorkerFramed ==
  ASSUME FramedInv, NEW t \in Threads, Worker(t), Next, misuse' \cap {"send", "recv"} = {}
  PROVE  HeadersOut' /\ \A c \in Conns : Framed(out'[c])
<1>1. /\ TypeOK /\ wk[t] \in WkState
      /\ \A u \in Threads \ {t} : wk'[u] = wk[u]
  BY OtherWorkers DEF FramedInv, OrderInv, PacketInv, TypeOK
<1>2. misuse \cap {"send", "recv"} = {}
  BY WorkerMisuse
<1>3. HeadersOut /\ \A c \in Conns : Framed(out[c])
  BY <1>2 DEF FramedInv
<1>4. CASE UNCHANGED out /\ wk'[t].pc # "sendpay"
  <2>1. HeadersOut'
    BY <1>1, <1>3, <1>4, QuietHeaders DEF HeadersOut
  <2> QED BY <1>3, <1>4, <2>1
<1>5. ASSUME NEW f, NEW ch \in Chunk, SendOk(f, ch),
             ch.k \in {"hdr", "pay"} => wk[t].pc \in Carrying /\ ch.m = wk[t].msg
      PROVE  \A u \in Threads \ {t} : wk'[u].pc = "sendpay" =>
               /\ wk'[u].dst \in Conns
               /\ peer'[wk'[u].dst] \in Gone \/ HeaderLast(out'[wk'[u].dst], wk'[u].msg)
  <2> SUFFICES ASSUME NEW u \in Threads \ {t}, wk[u].pc = "sendpay"
               PROVE  /\ wk'[u].dst \in Conns
                      /\ peer'[wk'[u].dst] \in Gone
                         \/ HeaderLast(out'[wk'[u].dst], wk'[u].msg)
    BY <1>1
  <2>1. ~PieceOf(ch, wk[u].msg.src)
    BY <1>2, <1>5, OthersFramed DEF PieceOf, Carrying, Holding
  <2> QED BY <1>1, <1>2, <1>3, <1>5, <2>1, SendHeaders
<1>6. CASE SendError(t)
  <2>1. Plain("error") \in Chunk /\ Plain("error").k \notin {"hdr", "pay"}
    BY InitialChunks DEF Plain
  <2>2. wk'[t].pc # "sendpay"
    BY <1>6, GotoAt, DoneAt, <1>1 DEF SendError
  <2>3. CASE SendOk(wk[t].fd, Plain("error"))
    <3>1. HeadersOut'
      BY <1>1, <1>5, <2>1, <2>2, <2>3 DEF HeadersOut
    <3> QED BY <1>1, <1>3, <2>1, <2>3, <3>1, SendFramed
  <2> QED BY <1>4, <1>6, <2>2, <2>3 DEF SendError, SendFails
<1>7. CASE RelayHeader(t)
  <2>1. PICK f, m, d : f = wk[t].dfd /\ m = wk[t].msg /\ d = wk[t].dst
    OBVIOUS
  <2>2. /\ wk[t].pc \in Carrying /\ UNCHANGED peer
        /\ Part("hdr", m) \in Chunk /\ Part("hdr", m).k = "hdr" /\ Part("hdr", m).m = m
    BY <1>1, <1>7, <2>1, InitialChunks
    DEF RelayHeader, Relay, Part, WkState, Carrying, Holding, clientVars
  <2>3. \/ SendOk(f, Part("hdr", m)) /\ Misuse(Stale("send", f, d)) /\ Goto(t, "sendpay")
        \/ UNCHANGED out /\ Done(t)
    BY <1>7, <2>1 DEF RelayHeader, Relay, SendFails
  <2>4. CASE SendOk(f, Part("hdr", m)) /\ Misuse(Stale("send", f, d)) /\ Goto(t, "sendpay")
    <3>1. At(f) = d /\ d \in Conns
      <4>1. At(f) \in Conns /\ Stale("send", f, d) = {}
        BY <1>1, <2>4, SentTo, StaleType DEF Misuse
      <4> QED BY <4>1, ConstantsAssumption DEF Stale
    <3>2. \/ peer[d] = "open" /\ out'[d] = Append(out[d], Part("hdr", m))
          \/ peer[d] = "closed"
      BY <1>1, <2>4, <3>1, SentTo
    <3>3. peer'[d] \in Gone \/ HeaderLast(out'[d], m)
      <4>1. out[d] \in Seq(Chunk)
        BY <1>1, <3>1 DEF TypeOK
      <4> QED BY <2>2, <3>2, <4>1, AppendHeader DEF Gone
    <3>4. wk'[t].dst = d /\ wk'[t].msg = m
      BY <1>1, <2>1, <2>4, GotoState
    <3>5. HeadersOut'
      BY <1>1, <1>5, <2>1, <2>2, <2>4, <3>1, <3>3, <3>4 DEF HeadersOut
    <3> QED BY <1>1, <1>3, <2>2, <2>4, <3>5, SendFramed
  <2>5. CASE UNCHANGED out /\ Done(t)
    BY <1>1, <1>4, <2>5, DoneAt
  <2> QED BY <2>3, <2>4, <2>5
<1>8. CASE RelayPayload(t)
  <2>1. PICK f, m, d : f = wk[t].dfd /\ m = wk[t].msg /\ d = wk[t].dst
    OBVIOUS
  <2>2. /\ wk[t].pc = "sendpay" /\ wk[t].pc \in Carrying
        /\ Part("pay", m) \in Chunk /\ Part("pay", m).m = m
    BY <1>1, <1>8, <2>1, InitialChunks
    DEF RelayPayload, Relay, Part, WkState, Carrying, Holding
  <2>3. /\ wk'[t].pc # "sendpay"
        /\ \/ SendOk(f, Part("pay", m)) /\ Misuse(Stale("send", f, d))
           \/ UNCHANGED out
    BY <1>1, <1>8, <2>1, DoneAt DEF RelayPayload, Relay, SendFails
  <2>4. CASE SendOk(f, Part("pay", m)) /\ Misuse(Stale("send", f, d))
    <3>1. At(f) = d /\ d \in Conns
      <4>1. At(f) \in Conns /\ Stale("send", f, d) = {}
        BY <1>1, <2>4, SentTo, StaleType DEF Misuse
      <4> QED BY <4>1, ConstantsAssumption DEF Stale
    <3>2. peer[d] = "open" => HeaderLast(out[d], m)
      BY <1>3, <2>1, <2>2 DEF HeadersOut, Gone
    <3>3. \A c \in Conns : Framed(out'[c])
      BY <1>1, <1>3, <2>2, <2>4, <3>1, <3>2, SendFramed
    <3>4. HeadersOut'
      BY <1>1, <1>5, <2>1, <2>2, <2>3, <2>4 DEF HeadersOut
    <3> QED BY <3>3, <3>4
  <2> QED BY <1>4, <2>3, <2>4
<1>9. CASE ~(SendError(t) \/ RelayHeader(t) \/ RelayPayload(t))
  <2>1. UNCHANGED out
    BY <1>9, WorkerWrites
  <2>2. wk'[t].pc # "sendpay"
    <3>1. CASE Lookup(t)
      BY <1>1, <3>1, LookupIs
    <3> QED BY <1>1, <1>9, <3>1, WorkerSends DEF Sending
  <2> QED BY <1>4, <2>1, <2>2
<1> QED BY <1>6, <1>7, <1>8, <1>9

\* The accept thread sends no piece of a message.
LEMMA MainFramed ==
  ASSUME FramedInv, Main, Next, misuse' \cap {"send", "recv"} = {}
  PROVE  HeadersOut' /\ \A c \in Conns : Framed(out'[c])
<1>1. TypeOK
  BY DEF FramedInv, OrderInv, PacketInv
<1>2. UNCHANGED wk /\ misuse \subseteq misuse'
  BY DEF Main, Accept, SendChallenge, RecvAnswer, Refuse, Authorise, EpollAdd, SetFd,
         SetName, Register
<1>3. misuse \cap {"send", "recv"} = {} /\ HeadersOut /\ \A c \in Conns : Framed(out[c])
  BY <1>2 DEF FramedInv
<1>4. CASE UNCHANGED out
  BY <1>1, <1>2, <1>3, <1>4, QuietHeaders DEF HeadersOut
<1>5. ASSUME NEW k \in {"challenge", "unauthorised", "authorised"}, SendOk(acc.fd, Plain(k))
      PROVE  HeadersOut' /\ \A c \in Conns : Framed(out'[c])
  <2>1. Plain(k) \in Chunk /\ Plain(k).k \notin {"hdr", "pay"}
    BY InitialChunks DEF Plain
  <2>2. \A src : ~PieceOf(Plain(k), src)
    BY <2>1 DEF PieceOf
  <2>3. \A c \in Conns : Framed(out'[c])
    BY <1>1, <1>3, <1>5, <2>1, SendFramed
  <2>4. HeadersOut'
    BY <1>2, <1>3, <1>5, <2>1, <2>2, SendHeaders DEF HeadersOut
  <2> QED BY <2>3, <2>4
<1>6. \/ UNCHANGED out
      \/ \E k \in {"challenge", "unauthorised", "authorised"} : SendOk(acc.fd, Plain(k))
  BY DEF Main, Accept, SendChallenge, RecvAnswer, Refuse, Authorise, EpollAdd, SetFd,
         SetName, Register, SendFails, netVars
<1> QED BY <1>4, <1>5, <1>6

LEMMA StepFramed == FramedInv /\ [Next]_vars => FramedInv'
<1> SUFFICES ASSUME FramedInv, [Next]_vars PROVE FramedInv'
  OBVIOUS
<1>1. OrderInv' /\ TypeOK
  BY StepOrder DEF FramedInv, OrderInv, PacketInv
<1>2. CASE UNCHANGED vars
  <2>1. UNCHANGED <<peer, out, wk, misuse>>
    BY <1>2 DEF vars, clientVars, netVars
  <2> QED BY <1>1, <2>1 DEF FramedInv, HeadersOut
<1>3. ASSUME NEW c \in Conns, Client(c), Next
      PROVE  FramedInv'
  <2>1. UNCHANGED <<wk, misuse, out>>
    BY <1>3 DEF Client, Connect, Answer, SendMessageHeader, SendMessagePayload, Leave, netVars
  <2>2. HeadersOut => HeadersOut'
    BY <1>1, <1>3, <2>1, QuietHeaders DEF HeadersOut
  <2> QED BY <1>1, <2>1, <2>2 DEF FramedInv
<1>4. CASE Next
  BY <1>1, <1>3, <1>4, MainFramed, WorkerFramed DEF Next, FramedInv
<1> QED BY <1>2, <1>4

LEMMA InitFramed == Init => FramedInv
<1> SUFFICES ASSUME Init PROVE FramedInv
  OBVIOUS
<1>1. \A c \in Conns : Framed(out[c])
  BY DEF Init, Framed
<1>2. HeadersOut
  BY DEF Init, HeadersOut, WkIdle
<1> QED BY <1>1, <1>2, InitOrder DEF FramedInv

\* However many workers relay to one connection at a time, a payload there comes
\* after its header with nothing of the same sender between the two, as long as
\* no read or send has hit a descriptor given out again: one worker reads a
\* stream, and sends both pieces before it reads on.
THEOREM WholeCorrect == Spec => []WholePerSender
<1>1. FramedInv => WholePerSender
  BY DEF FramedInv, WholePerSender, Framed, Relayed, PieceOf
<1> QED BY <1>1, InitFramed, StepFramed, PTL DEF Spec

----------------------------------------------------------------------------
(* The relay as a service.  Whoever is told that it is authorised has       *)
(* answered, and rightly; no two workers carry one message; and a worker    *)
(* sends only to clients that were authenticated.                           *)

Passed == {"authorise", "epoll", "setfd", "setname", "register"}
Answered ==
  \A c \in Conns :
    /\ Got(c, "authorised") \/ (acc.pc \in Passed /\ acc.c = c)
         => sent[c] # -1 /\ c \notin BadKeys
    /\ inq[c] # <<>> => sent[c] # -1
CarriedOnce ==
  \A t, u \in Threads :
    wk[t].pc \in Carrying /\ wk[u].pc \in Carrying /\ wk[t].msg = wk[u].msg => t = u
TargetsPassed == \A t \in Threads : wk[t].pc \in Sending => wk[t].dst \notin BadKeys

ServiceInv == /\ OnceInv
              /\ OrderInv
              /\ RoutingInv
              /\ Answered
              /\ CarriedOnce
              /\ TargetsPassed

\* A client gets a packet of one kind only from a send of that kind to it.
LEMMA GotGrows ==
  ASSUME TypeOK, NEW f, NEW ch, SendOk(f, ch), NEW c \in Conns, NEW k, Got(c, k)'
  PROVE  Got(c, k) \/ (ch.k = k /\ c = At(f))
<1>1. out[c] \in Seq(Chunk) /\ Len(out[c]) \in Nat
  BY DEF TypeOK
<1>2. out'[c] = out[c] \/ (c = At(f) /\ out'[c] = Append(out[c], ch))
  BY SentTo
<1>3. CASE out'[c] = out[c]
  BY <1>3 DEF Got
<1>4. CASE c = At(f) /\ out'[c] = Append(out[c], ch)
  <2>1. PICK i \in 1..Len(out[c]) + 1 : out'[c][i].k = k
    BY <1>1, <1>4 DEF Got
  <2>2. CASE i \in 1..Len(out[c])
    <3>1. out'[c][i] = out[c][i]
      BY <1>1, <1>4, <2>2
    <3> QED BY <2>1, <2>2, <3>1 DEF Got
  <2>3. CASE i = Len(out[c]) + 1
    <3>1. out'[c][i] = ch
      BY <1>1, <1>4, <2>3
    <3> QED BY <1>4, <2>1, <3>1
  <2> QED BY <1>1, <2>1, <2>2, <2>3
<1> QED BY <1>2, <1>3, <1>4

\* Nothing is read from a stream that is empty.
LEMMA EmptyStays ==
  ASSUME TypeOK, NEW s, inq[s] # <<>>, NEW r, inq' = [inq EXCEPT ![s] = r]
  PROVE  \A c \in Conns : inq'[c] # <<>> => inq[c] # <<>>
  BY DEF TypeOK

LEMMA MainAnswered == ASSUME EntryInv, Answered, Main PROVE Answered'
<1> USE DEF EntryInv
<1>1. UNCHANGED sent
  BY DEF Main, Accept, SendChallenge, RecvAnswer, Refuse, Authorise, EpollAdd, SetFd,
         SetName, Register, clientVars
<1>2. \A pc : AccGoto(pc) => acc'.pc = pc /\ acc'.c = acc.c
  BY AccGotoEntries
<1>3. AccIdle.pc \notin Passed
  BY DEF AccIdle, Passed
<1>4. \A c \in Conns : inq'[c] # <<>> => inq[c] # <<>>
  <2>1. \/ UNCHANGED inq
        \/ \E s : inq[s] # <<>> /\ inq' = [inq EXCEPT ![s] = Tail(inq[s])]
    BY DEF Main, Accept, SendChallenge, RecvAnswer, Refuse, Authorise, EpollAdd, SetFd,
           SetName, Register, netVars
  <2> QED BY <2>1, EmptyStays
<1>5. ASSUME NEW c \in Conns, acc'.pc \in Passed, acc'.c = c
      PROVE  sent[c] # -1 /\ c \notin BadKeys
  <2>1. CASE RecvAnswer /\ acc' # AccIdle
    <3>1. acc'.c = acc.c /\ Busy
      BY <1>2, <2>1 DEF RecvAnswer, HangUp, Busy
    <3>2. inq[c] # <<>>
      <4>1. At(acc.fd) \in Conns /\ inq[At(acc.fd)] # <<>>
        BY <2>1 DEF RecvAnswer, HangUp
      <4>2. At(acc.fd) = acc.c
        BY <3>1, <4>1, ConstantsAssumption DEF AccOwnsFd
      <4> QED BY <1>5, <3>1, <4>1, <4>2
    <3>3. c \notin BadKeys
      <4>1. At(acc.fd) = acc.c
        BY <2>1, <3>1, ConstantsAssumption DEF RecvAnswer, HangUp, AccOwnsFd
      <4>2. Verified(acc.c)
        BY <1>2, <1>5, <2>1, <4>1 DEF RecvAnswer, HangUp, Passed
      <4> QED BY <1>5, <3>1, <4>2 DEF Verified
    <3> QED BY <3>2, <3>3 DEF Answered
  <2>2. CASE Accept
    <3>1. UNCHANGED acc \/ acc'.pc = "challenge"
      BY <2>2 DEF Accept
    <3> QED BY <1>5, <3>1 DEF Answered, Passed
  <2>3. CASE acc' = AccIdle \/ SendChallenge
    BY <1>2, <1>3, <1>5, <2>3 DEF SendChallenge, HangUp, Passed
  <2>4. CASE Authorise \/ EpollAdd \/ SetFd \/ SetName
    <3>1. acc' = AccIdle \/ (acc.pc \in Passed /\ acc'.c = acc.c)
      BY <1>2, <2>4 DEF Authorise, EpollAdd, SetFd, SetName, Passed
    <3> QED BY <1>3, <1>5, <3>1 DEF Answered
  <2>5. Refuse \/ Register => acc' = AccIdle
    BY DEF Refuse, Register, HangUp
  <2> QED BY <2>1, <2>2, <2>3, <2>4, <2>5 DEF Main
<1>6. ASSUME NEW c \in Conns, Got(c, "authorised")'
      PROVE  sent[c] # -1 /\ c \notin BadKeys
  <2>1. CASE UNCHANGED out
    BY <1>6, <2>1 DEF Answered, Got
  <2>2. ASSUME NEW k \in {"challenge", "unauthorised"}, SendOk(acc.fd, Plain(k))
        PROVE  sent[c] # -1 /\ c \notin BadKeys
    <3>1. Got(c, "authorised")
      BY <1>6, <2>2, GotGrows DEF Plain
    <3> QED BY <3>1 DEF Answered
  <2>3. CASE Authorise /\ SendOk(acc.fd, Plain("authorised"))
    <3>1. CASE c = At(acc.fd)
      <4>1. acc.pc \in Passed /\ acc.c = c
        BY <2>3, <3>1, ConstantsAssumption DEF Authorise, Passed, AccOwnsFd, Busy
      <4> QED BY <4>1 DEF Answered
    <3>2. CASE c # At(acc.fd)
      <4>1. Got(c, "authorised")
        BY <1>6, <2>3, <3>2, GotGrows
      <4> QED BY <4>1 DEF Answered
    <3> QED BY <3>1, <3>2
  <2>4. \/ UNCHANGED out
        \/ \E k \in {"challenge", "unauthorised"} : SendOk(acc.fd, Plain(k))
        \/ Authorise /\ SendOk(acc.fd, Plain("authorised"))
    BY DEF Main, Accept, SendChallenge, RecvAnswer, Refuse, Authorise, EpollAdd, SetFd,
           SetName, Register, SendFails, netVars
  <2> QED BY <2>1, <2>2, <2>3, <2>4
<1> QED BY <1>1, <1>4, <1>5, <1>6 DEF Answered

LEMMA WorkerAnswered ==
  ASSUME TypeOK, Answered, NEW t \in Threads, Worker(t)
  PROVE  Answered'
<1>1. UNCHANGED <<sent, acc>>
  <2>1. UNCHANGED sent
    BY WorkerLeaves
  <2> QED BY <2>1, WorkerFrame
<1>2. \A c \in Conns : inq'[c] # <<>> => inq[c] # <<>>
  <2>1. CASE RecvHeader(t) \/ RecvPayload(t)
    <3>1. PICK s : s = At(wk[t].fd)
      OBVIOUS
    <3>2. \/ UNCHANGED inq
          \/ inq[s] # <<>> /\ \E r : inq' = [inq EXCEPT ![s] = r]
      BY <2>1, <3>1 DEF RecvHeader, RecvPayload
    <3> QED BY <3>2, EmptyStays
  <2>2. ~(RecvHeader(t) \/ RecvPayload(t)) => UNCHANGED inq
    BY WorkerReads
  <2> QED BY <2>1, <2>2
<1>3. ASSUME NEW c \in Conns, Got(c, "authorised")'
      PROVE  Got(c, "authorised")
  <2>1. \/ UNCHANGED out
        \/ \E f : SendOk(f, Plain("error"))
        \/ \E f, m : SendOk(f, Part("hdr", m))
        \/ \E f, m : SendOk(f, Part("pay", m))
    <3>1. CASE SendError(t)
      BY <3>1 DEF SendError, SendFails
    <3>2. CASE RelayHeader(t) \/ RelayPayload(t)
      BY <3>2 DEF RelayHeader, RelayPayload, Relay, SendFails
    <3>3. SendError(t) \/ RelayHeader(t) \/ RelayPayload(t) \/ UNCHANGED out
      BY WorkerWrites
    <3> QED BY <3>1, <3>2, <3>3
  <2>2. Plain("error").k # "authorised"
    BY DEF Plain
  <2>3. \A m : Part("hdr", m).k # "authorised" /\ Part("pay", m).k # "authorised"
    BY DEF Part
  <2>4. CASE UNCHANGED out
    BY <1>3, <2>4 DEF Got
  <2> QED BY <1>3, <2>1, <2>2, <2>3, <2>4, GotGrows
<1> QED BY <1>1, <1>2, <1>3 DEF Answered

LEMMA ClientAnswered ==
  ASSUME PacketInv, Answered, NEW c \in Conns, Client(c)
  PROVE  Answered'
<1> USE DEF PacketInv
<1>1. UNCHANGED <<acc, out>>
  BY DEF Client, Connect, Answer, SendMessageHeader, SendMessagePayload, Leave, netVars
<1>2. \A d \in Conns \ {c} : sent'[d] = sent[d] /\ inq'[d] = inq[d]
  BY DEF Client, Connect, Answer, SendMessageHeader, SendMessagePayload, Leave, netVars,
         Send, TypeOK
<1>3. sent[c] \in Nat \/ sent[c] = -1
  BY DEF TypeOK
<1>4. sent[c] # -1 => sent'[c] # -1
  <2>1. sent'[c] \in {sent[c], 0, sent[c] + 1}
    BY DEF Client, Connect, Answer, SendMessageHeader, SendMessagePayload, Leave, TypeOK
  <2> QED BY <1>3, <2>1
<1>5. inq'[c] # <<>> => sent'[c] # -1
  <2>1. CASE Connect(c) \/ Leave(c)
    BY <1>4, <2>1 DEF Connect, Leave, netVars, Answered
  <2>2. CASE Answer(c)
    BY <2>2 DEF Answer, TypeOK
  <2>3. CASE SendMessageHeader(c)
    BY <1>4, <2>3 DEF SendMessageHeader, Answered
  <2>4. CASE SendMessagePayload(c)
    <3>1. part[c] \in Message /\ part[c].seq = sent[c] /\ UNCHANGED sent
      BY <2>4 DEF SendMessagePayload, PartsTrue, TypeOK
    <3> QED BY <3>1 DEF Message
  <2> QED BY <2>1, <2>2, <2>3, <2>4 DEF Client
<1> QED BY <1>1, <1>2, <1>4, <1>5 DEF Answered, Got

\* A worker takes up a message that no other has, and sends only to what it
\* finds in a table.
LEMMA WorkerService ==
  ASSUME ServiceInv, NEW t \in Threads, Worker(t)
  PROVE  CarriedOnce' /\ TargetsPassed'
<1> USE DEF ServiceInv, OnceInv, OrderInv, PacketInv, ClaimInv
<1>0. \A u \in Threads \ {t} : wk'[u] = wk[u]
  BY OtherWorkers
<1>1. CarriedOnce'
  <2> SUFFICES ASSUME wk'[t].pc \in Carrying, NEW u \in Threads \ {t},
                      wk[u].pc \in Carrying
               PROVE  wk'[t].msg # wk[u].msg
    BY <1>0 DEF CarriedOnce
  <2>1. CASE wk[t].pc \in Carrying /\ wk'[t].msg = wk[t].msg
    BY <2>1 DEF CarriedOnce
  <2>2. CASE TakesHeader(t, At(wk[t].fd))
    <3>1. wk'[t].msg \in Headers
      BY <2>2, HeaderTaken, WorkerConsumes
    <3>2. Before(wk[u].msg, wk'[t].msg)
      BY <3>1 DEF CarriedFirst
    <3>3. wk[u].msg.seq \in Nat
      BY DEF PacketsTrue, MessageOf, Message
    <3> QED BY <3>2, <3>3 DEF Before
  <2> QED BY <2>1, <2>2, WorkerPackets DEF TakesPayload, KeepsPacket, Carrying
<1>2. TargetsPassed'
  <2> SUFFICES ASSUME wk'[t].pc \in Sending PROVE wk'[t].dst \notin BadKeys
    BY <1>0 DEF TargetsPassed
  <2>1. CASE Lookup(t)
    <3>1. PICK d \in Named(wk[t].scan, wk[t].msg.to) : wk'[t].dst = d
      BY <2>1, LookupIs DEF Sending
    <3>2. wk[t].scan \in Threads
      BY DEF TypeOK, WkState
    <3> QED BY <3>1, <3>2 DEF Named, EntryInv, EntriesComplete
  <2>2. CASE RelayHeader(t)
    <3>1. Goto(t, "sendpay") /\ wk[t].pc = "sendhdr"
      BY <2>2, DoneAt DEF RelayHeader, Relay, Sending
    <3> QED BY <3>1, GotoState DEF TargetsPassed, Sending
  <2> QED BY <2>1, <2>2, WorkerSends
<1> QED BY <1>1, <1>2

LEMMA InitService == Init => ServiceInv
<1> SUFFICES ASSUME Init PROVE ServiceInv
  OBVIOUS
<1>1. Answered
  BY DEF Init, Answered, Got, AccIdle, Passed
<1>2. CarriedOnce /\ TargetsPassed
  BY DEF Init, CarriedOnce, TargetsPassed, WkIdle, Carrying, Holding, Sending
<1> QED BY <1>1, <1>2, InitOnce, InitOrder, InitRouting DEF ServiceInv

LEMMA StepService == ServiceInv /\ [Next]_vars => ServiceInv'
<1> SUFFICES ASSUME ServiceInv, [Next]_vars PROVE ServiceInv'
  OBVIOUS
<1>1. OnceInv' /\ OrderInv' /\ RoutingInv'
  BY StepOnce, StepOrder, StepRouting DEF ServiceInv
<1>2. PacketInv /\ EntryInv /\ TypeOK
  BY DEF ServiceInv, OnceInv, OrderInv, PacketInv, ClaimInv
<1>3. CASE UNCHANGED vars
  <2>1. UNCHANGED <<inq, out, sent, acc, wk>>
    BY <1>3 DEF vars, clientVars, netVars
  <2>2. Answered'
    BY <2>1 DEF ServiceInv, Answered, Got
  <2>3. CarriedOnce' /\ TargetsPassed'
    BY <2>1 DEF ServiceInv, CarriedOnce, TargetsPassed
  <2> QED BY <1>1, <2>2, <2>3 DEF ServiceInv
<1>4. ASSUME NEW t \in Threads, Worker(t)
      PROVE  ServiceInv'
  BY <1>1, <1>2, <1>4, WorkerAnswered, WorkerService DEF ServiceInv
<1>5. ASSUME UNCHANGED wk, Answered'
      PROVE  ServiceInv'
  BY <1>1, <1>5 DEF ServiceInv, CarriedOnce, TargetsPassed
<1>6. Main => UNCHANGED wk
  BY DEF Main, Accept, SendChallenge, RecvAnswer, Refuse, Authorise, EpollAdd, SetFd,
         SetName, Register
<1>7. \A c \in Conns : Client(c) => UNCHANGED wk
  BY DEF Client, Connect, Answer, SendMessageHeader, SendMessagePayload, Leave
<1> QED BY <1>2, <1>3, <1>4, <1>5, <1>6, <1>7, MainAnswered, ClientAnswered
        DEF Next, ServiceInv

\* The members of Deliveries, in a state and in the next.
LEMMA DeliveriesAre ==
  ASSUME NEW x
  PROVE  /\ x \in Deliveries <=>
              \E c \in Conns : \E i \in Relayed(c) : x = [m |-> out[c][i].m, at |-> c]
         /\ x \in Deliveries' <=>
              \E c \in Conns : \E i \in Relayed(c)' : x = [m |-> out'[c][i].m, at |-> c]
<1>1. \A c \in Conns :
        /\ x \in DeliveredTo(c) <=> \E i \in Relayed(c) : x = [m |-> out[c][i].m, at |-> c]
        /\ x \in DeliveredTo(c)' <=> \E i \in Relayed(c)' : x = [m |-> out'[c][i].m, at |-> c]
  BY DEF DeliveredTo
<1> QED BY <1>1 DEF Deliveries

\* A send makes a delivery of a payload, and of nothing else.
LEMMA SendDelivers ==
  ASSUME TypeOK, NEW d \in Conns, NEW ch \in Chunk,
         out' = [out EXCEPT ![d] = Append(@, ch)]
  PROVE  Deliveries' = IF ch.k = "pay" THEN Deliveries \cup {[m |-> ch.m, at |-> d]}
                                      ELSE Deliveries
<1>1. /\ out[d] \in Seq(Chunk) /\ Len(out[d]) \in Nat
      /\ out'[d] = Append(out[d], ch)
      /\ \A c \in Conns \ {d} : out'[c] = out[c]
  BY DEF TypeOK
<1>2. PICK n : n = Len(out[d])
  OBVIOUS
<1>3. /\ n \in Nat /\ Len(out'[d]) = n + 1 /\ out'[d][n + 1] = ch
      /\ \A i \in 1..n : out'[d][i] = out[d][i]
  BY <1>1, <1>2
<1>4. /\ \A c \in Conns \ {d} : Relayed(c)' = Relayed(c)
      /\ \A i : i \in Relayed(d)' <=> i \in Relayed(d) \/ (i = n + 1 /\ ch.k = "pay")
  BY <1>1, <1>2, <1>3 DEF Relayed
<1>5. \A i \in Relayed(d) : i \in 1..n /\ out'[d][i] = out[d][i]
  BY <1>2, <1>3 DEF Relayed
<1>6. ASSUME NEW x \in Deliveries'
      PROVE  x \in Deliveries \/ (ch.k = "pay" /\ x = [m |-> ch.m, at |-> d])
  <2>0. PICK c \in Conns : \E i \in Relayed(c)' : x = [m |-> out'[c][i].m, at |-> c]
    BY <1>6, DeliveriesAre
  <2>1. PICK i \in Relayed(c)' : x = [m |-> out'[c][i].m, at |-> c]
    BY <2>0
  <2>2. CASE i \in Relayed(c) /\ out'[c][i] = out[c][i]
    BY <2>1, <2>2, DeliveriesAre
  <2>3. CASE c = d /\ i = n + 1 /\ ch.k = "pay"
    BY <1>3, <2>1, <2>3
  <2> QED BY <1>1, <1>4, <1>5, <2>1, <2>2, <2>3
<1>7. ASSUME NEW x \in Deliveries
      PROVE  x \in Deliveries'
  <2>0. PICK c \in Conns : \E i \in Relayed(c) : x = [m |-> out[c][i].m, at |-> c]
    BY <1>7, DeliveriesAre
  <2>1. PICK i \in Relayed(c) : x = [m |-> out[c][i].m, at |-> c]
    BY <2>0
  <2>2. i \in Relayed(c)' /\ out'[c][i] = out[c][i]
    BY <1>1, <1>4, <1>5, <2>1
  <2> QED BY <2>1, <2>2, DeliveriesAre
<1>8. ch.k = "pay" => [m |-> ch.m, at |-> d] \in Deliveries'
  <2> SUFFICES ASSUME ch.k = "pay" PROVE [m |-> ch.m, at |-> d] \in Deliveries'
    OBVIOUS
  <2>1. n + 1 \in Relayed(d)' /\ out'[d][n + 1].m = ch.m
    BY <1>3, <1>4
  <2> QED BY <2>1, DeliveriesAre
<1> QED BY <1>6, <1>7, <1>8

LEMMA SendOtherwise ==
  ASSUME TypeOK, NEW f, NEW ch \in Chunk, SendOk(f, ch), ch.k # "pay"
  PROVE  Deliveries' = Deliveries
<1>1. CASE UNCHANGED out
  BY <1>1 DEF Deliveries, DeliveredTo, Relayed
<1>2. PICK d : d = At(f)
  OBVIOUS
<1>3. UNCHANGED out \/ (d \in Conns /\ out' = [out EXCEPT ![d] = Append(@, ch)])
  BY <1>2 DEF SendOk
<1> QED BY <1>1, <1>3, SendDelivers

\* A step that puts no new message on its way and delivers none.
LEMMA NothingPosted ==
  ASSUME UNCHANGED sent, misuse \subseteq misuse', InTransit' \subseteq InTransit,
         Deliveries' = Deliveries
  PROVE  Service!Drop
<1>1. Posted' = Posted
  BY DEF Posted
<1> QED BY <1>1 DEF Service!Drop

LEMMA MainServes == ASSUME ServiceInv, Main PROVE Service!Drop
<1> USE DEF ServiceInv, OnceInv, OrderInv, PacketInv
<1>1. UNCHANGED <<sent, part, wk>> /\ misuse \subseteq misuse'
  <2>1. UNCHANGED <<sent, part, wk>>
    BY DEF Main, Accept, SendChallenge, RecvAnswer, Refuse, Authorise, EpollAdd, SetFd,
           SetName, Register, clientVars
  <2>2. misuse \subseteq misuse'
    BY DEF Main, Accept, SendChallenge, RecvAnswer, Refuse, Authorise, EpollAdd, SetFd,
           SetName, Register
  <2> QED BY <2>1, <2>2
<1>2. Headers' \subseteq Headers /\ Streamed' \subseteq Streamed
  BY MainConsumes, ConsumedOnce, ConsumedOrdered
<1>3. InTransit' \subseteq InTransit
  BY <1>1, <1>2 DEF InTransit
<1>4. Deliveries' = Deliveries
  <2>1. \/ UNCHANGED out
        \/ \E k \in {"challenge", "unauthorised", "authorised"} : SendOk(acc.fd, Plain(k))
    BY DEF Main, Accept, SendChallenge, RecvAnswer, Refuse, Authorise, EpollAdd, SetFd,
           SetName, Register, SendFails, netVars
  <2>2. \A k \in {"challenge", "unauthorised", "authorised"} :
          Plain(k) \in Chunk /\ Plain(k).k # "pay"
    BY InitialChunks DEF Plain
  <2>3. CASE UNCHANGED out
    BY <2>3 DEF Deliveries, DeliveredTo, Relayed
  <2> QED BY <2>1, <2>2, <2>3, SendOtherwise
<1> QED BY <1>1, <1>3, <1>4, NothingPosted

\* What a worker takes up was on its way.
LEMMA WorkerTransit ==
  ASSUME ServiceInv, NEW t \in Threads, Worker(t)
  PROVE  InTransit' \subseteq InTransit
<1> USE DEF ServiceInv, OnceInv, OrderInv, PacketInv
<1>1. UNCHANGED part /\ \A u \in Threads \ {t} : wk'[u] = wk[u]
  <2>1. UNCHANGED part
    BY WorkerLeaves
  <2> QED BY <2>1, OtherWorkers
<1>2. Headers' \subseteq Headers /\ Streamed' \subseteq Streamed
  BY WorkerConsumes, ConsumedOnce, ConsumedOrdered
<1>3. wk'[t].pc \in Carrying =>
        wk'[t].msg \in Headers \/ (wk[t].pc \in Carrying /\ wk'[t].msg = wk[t].msg)
  <2> SUFFICES ASSUME wk'[t].pc \in Carrying
               PROVE  wk'[t].msg \in Headers \/ (wk[t].pc \in Carrying /\ wk'[t].msg = wk[t].msg)
    OBVIOUS
  <2>1. CASE TakesHeader(t, At(wk[t].fd))
    BY <2>1, HeaderTaken, WorkerConsumes
  <2> QED BY <2>1, WorkerPackets DEF TakesPayload, KeepsPacket, Carrying
<1> QED BY <1>1, <1>2, <1>3 DEF InTransit

\* The sending of a payload is a delivery, unless nobody is there to get it.
LEMMA PayloadServes ==
  ASSUME ServiceInv, NEW t \in Threads, RelayPayload(t), ~UNCHANGED out
  PROVE  \E c \in Conns : \E m \in InTransit : Service!Deliver(m, c)
<1> USE DEF ServiceInv, OnceInv, OrderInv, PacketInv
<1>1. PICK m, f, d : m = wk[t].msg /\ f = wk[t].dfd /\ d = At(f)
  OBVIOUS
<1>2. /\ wk[t].pc = "sendpay" /\ SendOk(f, Part("pay", m))
      /\ Misuse(Stale("send", f, wk[t].dst)) /\ Done(t)
      /\ UNCHANGED <<peer, sent, part, inq>>
  BY <1>1 DEF RelayPayload, Relay, SendFails, clientVars
<1>3. d \in Conns /\ out' = [out EXCEPT ![d] = Append(@, Part("pay", m))]
  BY <1>1, <1>2 DEF SendOk
<1>4. /\ wk[t].pc \in Holding /\ wk[t].pc \in Carrying /\ wk[t].pc \in Sending
      /\ wk'[t].pc \notin Carrying
      /\ \A u \in Threads \ {t} : wk'[u] = wk[u]
  <2>1. Worker(t)
    BY DEF Worker
  <2> QED BY <1>2, <2>1, DoneAt, OtherWorkers DEF Holding, Carrying, Sending
<1>5. m \in Message /\ m.kind = "msg" /\ m.seq \in Nat
  BY <1>1, <1>4 DEF PacketsTrue, MessageOf, Message
<1>6. Deliveries' = Deliveries \cup {[m |-> m, at |-> d]}
  <2>1. Part("pay", m) \in Chunk /\ Part("pay", m).k = "pay" /\ Part("pay", m).m = m
    BY <1>5, InitialChunks DEF Part
  <2> QED BY <1>3, <2>1, SendDelivers
<1>7. m \in InTransit
  BY <1>1, <1>4 DEF InTransit
<1>8. InTransit' = InTransit \ {m}
  <2>1. Headers' = Headers /\ Streamed' = Streamed
    BY <1>2 DEF Headers, Streamed, Streams
  <2>2. m \notin Headers
    <3>1. ~Before(m, m)
      BY <1>5 DEF Before
    <3> QED BY <1>1, <1>4, <3>1 DEF CarriedFirst
  <2>3. m \notin Streamed /\ \A c \in Conns : part[c] # NoMsg => part[c] # m
    BY <1>1, <1>4 DEF StreamedNotHeld, PartsUnread, Holds
  <2>4. \A u \in Threads \ {t} : wk[u].pc \in Carrying => wk[u].msg # m
    BY <1>1, <1>4 DEF CarriedOnce
  <2> QED BY <1>1, <1>2, <1>4, <2>1, <2>2, <2>3, <2>4 DEF InTransit
<1>9. "send" \in misuse' \/ (m.to = UserOf[d] /\ d \notin BadKeys)
  <2> SUFFICES ASSUME "send" \notin misuse' PROVE m.to = UserOf[d] /\ d \notin BadKeys
    OBVIOUS
  <2>1. d = wk[t].dst
    BY <1>1, <1>2, <1>3, ConstantsAssumption DEF Misuse, Stale
  <2> QED BY <1>1, <1>4, <2>1 DEF RoutingInv, TargetsTrue, TargetsPassed
<1>10. "recv" \in misuse' \/ \A x \in Deliveries : x.m.src = m.src => x.m.seq < m.seq
  <2> SUFFICES ASSUME "recv" \notin misuse', NEW x \in Deliveries, x.m.src = m.src
               PROVE  x.m.seq < m.seq
    OBVIOUS
  <2>1. "recv" \notin misuse
    BY <1>2 DEF Misuse
  <2>2. PICK c \in Conns : \E i \in Relayed(c) : x = [m |-> out[c][i].m, at |-> c]
    BY DeliveriesAre
  <2>3. PICK i \in Relayed(c) : x = [m |-> out[c][i].m, at |-> c]
    BY <2>2
  <2>4. Before(out[c][i].m, m)
    BY <1>1, <1>4, <2>1, <2>3 DEF RelayedEarlier
  <2> QED BY <2>3, <2>4 DEF Before
<1>11. misuse \subseteq misuse' /\ Posted' = Posted
  BY <1>2 DEF Misuse, Posted
<1>12. Service!Deliver(m, d)
  BY <1>5, <1>6, <1>8, <1>9, <1>10, <1>11 DEF Service!Deliver
<1> QED BY <1>3, <1>7, <1>12

LEMMA WorkerServes ==
  ASSUME ServiceInv, NEW t \in Threads, Worker(t)
  PROVE  Service!Next
<1> USE DEF ServiceInv, OnceInv, OrderInv, PacketInv
<1>1. UNCHANGED sent /\ misuse \subseteq misuse'
  <2>1. UNCHANGED sent
    BY WorkerLeaves
  <2>2. misuse \subseteq misuse'
    BY WorkerMisuse
  <2> QED BY <2>1, <2>2
<1>2. CASE RelayPayload(t) /\ ~UNCHANGED out
  BY <1>2, PayloadServes DEF Service!Next
<1>3. CASE Deliveries' = Deliveries
  BY <1>1, <1>3, WorkerTransit, NothingPosted DEF Service!Next
<1>4. ~(RelayPayload(t) /\ ~UNCHANGED out) => Deliveries' = Deliveries
  <2>1. CASE UNCHANGED out
    BY <2>1 DEF Deliveries, DeliveredTo, Relayed
  <2>2. CASE SendError(t)
    <3>1. Plain("error") \in Chunk /\ Plain("error").k # "pay"
      BY InitialChunks DEF Plain
    <3> QED BY <2>1, <2>2, <3>1, SendOtherwise DEF SendError, SendFails
  <2>3. CASE RelayHeader(t)
    <3>1. Part("hdr", wk[t].msg) \in Chunk /\ Part("hdr", wk[t].msg).k # "pay"
      BY InitialChunks DEF Part, TypeOK, WkState
    <3> QED BY <2>1, <2>3, <3>1, SendOtherwise DEF RelayHeader, Relay, SendFails
  <2>4. SendError(t) \/ RelayHeader(t) \/ RelayPayload(t) \/ UNCHANGED out
    BY WorkerWrites
  <2> QED BY <2>1, <2>2, <2>3, <2>4
<1> QED BY <1>2, <1>3, <1>4

\* What a client has sent stays in its stream.
LEMMA StreamKept ==
  ASSUME TypeOK, NEW c \in Conns, NEW ch \in Chunk, Send(c, ch), NEW k
  PROVE  Streams(k) \subseteq Streams(k)' /\ (ch.k = k => ch.m \in Streams(k)')
<1>1. /\ inq[c] \in Seq(Chunk) /\ Len(inq[c]) \in Nat
      /\ inq'[c] = Append(inq[c], ch)
      /\ \A d \in Conns \ {c} : inq'[d] = inq[d]
  BY DEF Send, TypeOK
<1>2. PICK n : n = Len(inq[c])
  OBVIOUS
<1>3. /\ n \in Nat /\ Len(inq'[c]) = n + 1 /\ inq'[c][n + 1] = ch
      /\ \A i \in 1..n : inq'[c][i] = inq[c][i]
  BY <1>1, <1>2
<1>4. \A d \in Conns : \A i \in 1..Len(inq[d]) :
        i \in 1..Len(inq'[d]) /\ inq'[d][i] = inq[d][i]
  BY <1>1, <1>2, <1>3
<1>5. Streams(k) \subseteq Streams(k)'
  BY <1>4 DEF Streams
<1>6. ch.k = k => ch.m \in Streams(k)'
  BY <1>3 DEF Streams
<1> QED BY <1>5, <1>6

\* The header of a message posts it.
LEMMA HeaderPosts ==
  ASSUME ServiceInv, NEW c \in Conns, SendMessageHeader(c)
  PROVE  Service!Post(c)
<1> USE DEF ServiceInv, OnceInv, OrderInv, PacketInv
<1>1. sent[c] # -1 /\ c \notin BadKeys /\ sent[c] \in Nat
  BY DEF SendMessageHeader, Answered, TypeOK
<1>2. PICK to \in Users, kind \in Kinds :
        LET m == [src |-> c, seq |-> sent[c] + 1, to |-> to, kind |-> kind]
        IN  part' = [part EXCEPT ![c] = m] /\ Send(c, Part("hdr", m))
  BY DEF SendMessageHeader
<1>3. PICK m : m = [src |-> c, seq |-> sent[c] + 1, to |-> to, kind |-> kind]
  OBVIOUS
<1>4. m \in Message /\ m # NoMsg
  BY <1>1, <1>3, ConstantsAssumption DEF Message
<1>5. /\ part[c] = NoMsg /\ part' = [part EXCEPT ![c] = m] /\ Send(c, Part("hdr", m))
      /\ sent' = [sent EXCEPT ![c] = sent[c] + 1] /\ UNCHANGED <<out, wk, misuse>>
  BY <1>2, <1>3 DEF SendMessageHeader, netVars
<1>6. Part("hdr", m) \in Chunk /\ Part("hdr", m).k = "hdr" /\ Part("hdr", m).m = m
  BY <1>4, InitialChunks DEF Part
<1>7. Headers' = Headers \cup {m} /\ Streamed' = Streamed
  <2>1. \A d \in Conns : \A i \in 1..Len(inq'[d]) :
          \/ i \in 1..Len(inq[d]) /\ inq'[d][i] = inq[d][i]
          \/ inq'[d][i] = Part("hdr", m)
    BY <1>5, <1>6, StreamGrows
  <2>2. Headers' \subseteq Headers \cup {m}
    BY <1>6, <2>1 DEF Headers, Streams
  <2>3. Streamed' \subseteq Streamed
    BY <1>6, <2>1 DEF Streamed, Streams
  <2>4. Headers \subseteq Headers' /\ m \in Headers' /\ Streamed \subseteq Streamed'
    BY <1>5, <1>6, StreamKept DEF Headers, Streamed
  <2> QED BY <2>2, <2>3, <2>4
<1>8. \A d \in Conns : part'[d] = IF d = c THEN m ELSE part[d]
  BY <1>5 DEF TypeOK
<1>9. InTransit' = InTransit \cup {m}
  <2>1. {part'[d] : d \in Conns} \ {NoMsg} = ({part[d] : d \in Conns} \ {NoMsg}) \cup {m}
    BY <1>4, <1>5, <1>8
  <2> QED BY <1>5, <1>7, <2>1 DEF InTransit
<1>10. Posted' = [Posted EXCEPT ![c] = @ + 1] /\ Posted[c] = sent[c]
  <2>1. \A d \in Conns : sent'[d] = IF d = c THEN sent[c] + 1 ELSE sent[d]
    BY <1>5 DEF TypeOK
  <2>2. sent[c] + 1 # -1
    BY <1>1
  <2> QED BY <1>1, <2>1, <2>2 DEF Posted
<1>11. Deliveries' = Deliveries
  BY <1>5 DEF Deliveries, DeliveredTo, Relayed
<1> QED BY <1>1, <1>3, <1>5, <1>9, <1>10, <1>11 DEF Service!Post

LEMMA ClientServes ==
  ASSUME ServiceInv, NEW c \in Conns, Client(c)
  PROVE  Service!Next
<1> USE DEF ServiceInv, OnceInv, OrderInv, PacketInv
<1>1. CASE SendMessageHeader(c)
  BY <1>1, HeaderPosts DEF Service!Next
<1>2. UNCHANGED <<out, wk, misuse>>
  BY DEF Client, Connect, Answer, SendMessageHeader, SendMessagePayload, Leave, netVars
<1>3. Deliveries' = Deliveries
  BY <1>2 DEF Deliveries, DeliveredTo, Relayed
<1>4. ASSUME NEW ch \in Chunk, Send(c, ch), ch.k # "hdr"
      PROVE  /\ Headers' \subseteq Headers
             /\ Streamed' \subseteq Streamed \cup (IF ch.k = "pay" THEN {ch.m} ELSE {})
  <2>1. \A d \in Conns : \A i \in 1..Len(inq'[d]) :
          \/ i \in 1..Len(inq[d]) /\ inq'[d][i] = inq[d][i]
          \/ inq'[d][i] = ch
    BY <1>4, StreamGrows
  <2>2. Headers' \subseteq Headers
    BY <1>4, <2>1 DEF Headers, Streams
  <2>3. Streamed' \subseteq Streamed \cup (IF ch.k = "pay" THEN {ch.m} ELSE {})
    BY <2>1 DEF Streamed, Streams
  <2> QED BY <2>2, <2>3
<1>5. ASSUME UNCHANGED part \/ part' = [part EXCEPT ![c] = NoMsg]
      PROVE  {part'[d] : d \in Conns} \ {NoMsg} \subseteq {part[d] : d \in Conns} \ {NoMsg}
  BY <1>5 DEF TypeOK
<1>6. CASE Connect(c) \/ Leave(c)
  <2>1. UNCHANGED <<inq, sent>> /\ (UNCHANGED part \/ part' = [part EXCEPT ![c] = NoMsg])
    BY <1>6 DEF Connect, Leave, netVars
  <2>2. Headers' = Headers /\ Streamed' = Streamed
    BY <2>1 DEF Headers, Streamed, Streams
  <2>3. InTransit' \subseteq InTransit
    BY <1>2, <1>5, <2>1, <2>2 DEF InTransit
  <2> QED BY <1>2, <1>3, <2>1, <2>3, NothingPosted DEF Service!Next
<1>7. CASE Answer(c)
  <2>1. Plain("auth") \in Chunk /\ Plain("auth").k \notin {"hdr", "pay"}
    BY InitialChunks DEF Plain
  <2>2. Headers' \subseteq Headers /\ Streamed' \subseteq Streamed
    BY <1>4, <1>7, <2>1 DEF Answer
  <2>3. InTransit' \subseteq InTransit
    BY <1>2, <1>7, <2>2 DEF Answer, InTransit
  <2>4. Posted' = Posted
    BY <1>7 DEF Answer, Posted, TypeOK
  <2> QED BY <1>2, <1>3, <2>3, <2>4 DEF Service!Drop, Service!Next
<1>8. CASE SendMessagePayload(c)
  <2>1. PICK m : m = part[c]
    OBVIOUS
  <2>2. /\ m # NoMsg /\ m \in Message /\ part' = [part EXCEPT ![c] = NoMsg]
        /\ Send(c, Part("pay", m)) /\ UNCHANGED sent
    BY <1>8, <2>1 DEF SendMessagePayload, TypeOK
  <2>3. Part("pay", m) \in Chunk /\ Part("pay", m).k = "pay" /\ Part("pay", m).m = m
    BY <2>2, InitialChunks DEF Part
  <2>4. Headers' \subseteq Headers /\ Streamed' \subseteq Streamed \cup {m}
    BY <1>4, <2>2, <2>3
  <2>5. m \in {part[d] : d \in Conns} \ {NoMsg}
    BY <2>1, <2>2
  <2>6. InTransit' \subseteq InTransit
    BY <1>2, <1>5, <2>2, <2>4, <2>5 DEF InTransit
  <2> QED BY <1>2, <1>3, <2>2, <2>6, NothingPosted DEF Service!Next
<1> QED BY <1>1, <1>6, <1>7, <1>8 DEF Client

LEMMA ServiceInit == Init => Service!Init
<1> SUFFICES ASSUME Init PROVE Service!Init
  OBVIOUS
<1>1. Headers = {} /\ Streamed = {}
  BY DEF Init, Headers, Streamed, Streams
<1>2. InTransit = {}
  BY <1>1 DEF Init, InTransit, WkIdle, Carrying, Holding
<1>3. Deliveries = {}
  BY DEF Init, Deliveries, DeliveredTo, Relayed
<1>4. Posted = [c \in Conns |-> 0]
  BY DEF Init, Posted
<1> QED BY <1>2, <1>3, <1>4 DEF Init, Service!Init

\* The relay is a RelayService, for any number of clients, workers and
\* descriptors: every step of zmr.c or of a client posts a message, delivers one
\* as the service promises, loses some, or is invisible.
THEOREM ServiceCorrect == Spec => ImplementsService
<1>1. ServiceInv /\ [Next]_vars =>
        [Service!Next]_<<Posted, InTransit, Deliveries, misuse \cap {"send", "recv"}>>
  <2> SUFFICES ASSUME ServiceInv, [Next]_vars
               PROVE  \/ Service!Next
                      \/ UNCHANGED <<Posted, InTransit, Deliveries,
                                     misuse \cap {"send", "recv"}>>
    OBVIOUS
  <2>1. CASE UNCHANGED vars
    <3>1. UNCHANGED <<sent, part, inq, out, wk, misuse>>
      BY <2>1 DEF vars, clientVars, netVars
    <3>2. Headers' = Headers /\ Streamed' = Streamed /\ Deliveries' = Deliveries
      BY <3>1 DEF Headers, Streamed, Streams, Deliveries, DeliveredTo, Relayed
    <3> QED BY <3>1, <3>2 DEF Posted, InTransit
  <2>2. CASE Next
    BY <2>2, MainServes, WorkerServes, ClientServes DEF Next, Service!Next
  <2> QED BY <2>1, <2>2
<1> QED BY <1>1, ServiceInit, InitService, StepService, PTL
        DEF Spec, ImplementsService, Service!Spec
=============================================================================
