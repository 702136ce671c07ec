----------------------------- MODULE ZmrProofs -----------------------------
(***************************************************************************)
(* Theorems about the relay server, for every set of connections and       *)
(* users, every number of threads and every bound: where a message goes,   *)
(* who is in the tables, that a descriptor has one owner, and that the     *)
(* tables stay within their bounds.                                        *)
(***************************************************************************)
EXTENDS Zmr, FiniteSetTheorems, TLAPS

----------------------------------------------------------------------------
(* Facts about the operators of the specification.                         *)

\* The rotation stays within the threads.
LEMMA NextThreadType == num_thread \in Threads => NextThread \in Threads
  BY ConstantsAssumption DEF Threads, NextThread

LEMMA InitialChunks ==
  /\ \A k \in {"auth", "junk", "challenge", "authorised", "unauthorised", "error"} :
       Plain(k) \in Chunk
  /\ \A k \in {"hdr", "pay"}, m \in Message \cup {NoMsg} : Part(k, m) \in Chunk
  BY DEF Plain, Part, Chunk

\* A descriptor stands for a connection or for nothing.
LEMMA AtType == ASSUME fdt \in [Fds -> Conns \cup {NoConn}], NEW f
                PROVE  At(f) \in Conns \cup {NoConn}
  BY DEF At

\* A stream that an erroneous read leaves behind is still a stream.
LEMMA ResyncType == ASSUME NEW q \in Seq(Chunk), q # <<>>
                    PROVE  Resync(q) \subseteq Seq(Chunk)
<1>1. Tail(q) \in Seq(Chunk)
  OBVIOUS
<1>2. <<Plain("junk")>> \in Seq(Chunk)
  BY InitialChunks
<1>3. ASSUME NEW i \in 2..Len(q) + 1
      PROVE  /\ SubSeq(q, i, Len(q)) \in Seq(Chunk)
             /\ <<Plain("junk")>> \o SubSeq(q, i, Len(q)) \in Seq(Chunk)
  <2>1. SubSeq(q, i, Len(q)) \in Seq(Chunk)
    OBVIOUS
  <2> QED BY <1>2, <2>1
<1>4. ASSUME NEW i \in (IF Head(q).k = "junk" THEN 3 ELSE 2)..Len(q) + 1
      PROVE  i \in 2..Len(q) + 1
  BY Len(q) \in Nat
<1> DEFINE rests == {SubSeq(q, i, Len(q)) :
                       i \in (IF Head(q).k = "junk" THEN 3 ELSE 2)..Len(q) + 1}
<1>5. \A r \in rests : r \in Seq(Chunk) /\ <<Plain("junk")>> \o r \in Seq(Chunk)
  BY <1>3, <1>4
<1>6. Resync(q) = {Tail(q)} \cup rests \cup {<<Plain("junk")>> \o r : r \in rests}
  BY DEF Resync
<1> HIDE DEF rests
<1> QED BY <1>1, <1>5, <1>6

\* Closing a descriptor keeps the two tables of the kernel well formed.
LEMMA CloseFdType ==
  ASSUME TypeOK, NEW f, CloseFd(f)
  PROVE  /\ fdt' \in [Fds -> Conns \cup {NoConn}]
         /\ interest' \in [Threads -> SUBSET Conns]
  BY DEF TypeOK, CloseFd

LEMMA SendOkType ==
  ASSUME TypeOK, NEW f, NEW ch \in Chunk, SendOk(f, ch)
  PROVE  out' \in [Conns -> Seq(Chunk)]
<1>1. CASE UNCHANGED out
  BY <1>1 DEF TypeOK
<1>2. CASE /\ At(f) \in Conns
           /\ out' = [out EXCEPT ![At(f)] = Append(@, ch)]
  <2> DEFINE c == At(f)
  <2>1. c \in Conns /\ out' = [out EXCEPT ![c] = Append(@, ch)]
    BY <1>2
  <2>2. out \in [Conns -> Seq(Chunk)]
    BY DEF TypeOK
  <2>3. Append(out[c], ch) \in Seq(Chunk)
    BY <2>1, <2>2
  <2> HIDE DEF c
  <2> QED BY <2>1, <2>2, <2>3
<1> QED BY <1>1, <1>2 DEF SendOk

LEMMA StaleType ==
  ASSUME NEW tag, NEW f, NEW c
  PROVE  Stale(tag, f, c) \subseteq {tag}
  BY DEF Stale

LEMMA WkIdleType == ASSUME NEW batch \in SUBSET Conns
                    PROVE  WkIdle(batch) \in WkState
  BY ConstantsAssumption DEF WkIdle, WkState, WkPc, Threads

LEMMA AccIdleType == AccIdle \in AccState
  BY DEF AccIdle, AccState, AccPc

LEMMA AccGotoType ==
  ASSUME TypeOK, acc.pc # "idle", NEW pc \in AccPc, AccGoto(pc)
  PROVE  acc' \in AccState
<1>1. acc \in AccState /\ acc' = [acc EXCEPT !.pc = pc]
  BY DEF TypeOK, AccGoto
<1> QED BY <1>1 DEF AccState

LEMMA GotoType ==
  ASSUME TypeOK, NEW t \in Threads, NEW pc \in WkPc, Goto(t, pc)
  PROVE  wk' \in [Threads -> WkState]
<1>1. wk \in [Threads -> WkState] /\ wk' = [wk EXCEPT ![t] = [wk[t] EXCEPT !.pc = pc]]
  BY DEF TypeOK, Goto
<1>2. [wk[t] EXCEPT !.pc = pc] \in WkState
  BY <1>1 DEF WkState
<1> QED BY <1>1, <1>2

LEMMA DoneType ==
  ASSUME TypeOK, NEW t \in Threads, Done(t)
  PROVE  wk' \in [Threads -> WkState]
<1>1. wk[t].batch \in SUBSET Conns
  BY DEF TypeOK, WkState
<1> QED BY <1>1, WkIdleType DEF TypeOK, Done

\* A receive takes chunks off the front of one stream.
LEMMA RecvType ==
  ASSUME TypeOK, NEW c \in Conns, NEW q \in Seq(Chunk),
         inq' = [inq EXCEPT ![c] = q]
  PROVE  inq' \in [Conns -> Seq(Chunk)]
  BY DEF TypeOK

LEMMA SendType ==
  ASSUME TypeOK, NEW c \in Conns, NEW ch \in Chunk, Send(c, ch)
  PROVE  inq' \in [Conns -> Seq(Chunk)]
<1>1. inq[c] \in Seq(Chunk)
  BY DEF TypeOK
<1>2. Append(inq[c], ch) \in Seq(Chunk)
  BY <1>1
<1> QED BY <1>2 DEF Send, TypeOK

----------------------------------------------------------------------------
(* Type correctness.                                                       *)

LEMMA ClientType ==
  ASSUME TypeOK, NEW c \in Conns, Client(c)
  PROVE  TypeOK'
<1>1. CASE Connect(c)
  BY <1>1 DEF Connect, TypeOK, fdVars, dirVars
<1>2. CASE Answer(c)
  <2>1. Plain("auth") \in Chunk
    BY InitialChunks
  <2>2. inq' \in [Conns -> Seq(Chunk)]
    BY <1>2, <2>1, SendType DEF Answer
  <2> QED BY <1>2, <2>2 DEF Answer, TypeOK, fdVars, dirVars
<1>3. CASE SendMessageHeader(c)
  <2>0. sent[c] + 1 \in Nat
    <3>1. sent[c] \in Nat \/ sent[c] = -1
      BY DEF TypeOK
    <3> QED BY <3>1
  <2>1. PICK m \in Message : /\ part' = [part EXCEPT ![c] = m]
                             /\ Send(c, Part("hdr", m))
    <3>1. PICK to \in Users, kind \in Kinds :
            LET m == [src |-> c, seq |-> sent[c] + 1, to |-> to, kind |-> kind]
            IN  part' = [part EXCEPT ![c] = m] /\ Send(c, Part("hdr", m))
      BY <1>3 DEF SendMessageHeader
    <3>2. [src |-> c, seq |-> sent[c] + 1, to |-> to, kind |-> kind] \in Message
      BY <2>0 DEF Message
    <3> QED BY <3>1, <3>2
  <2>2. Part("hdr", m) \in Chunk
    BY InitialChunks
  <2>3. inq' \in [Conns -> Seq(Chunk)]
    BY <2>1, <2>2, SendType
  <2>4. sent' \in [Conns -> Nat \cup {-1}]
    BY <1>3, <2>0 DEF SendMessageHeader, TypeOK
  <2> QED BY <1>3, <2>1, <2>3, <2>4 DEF SendMessageHeader, TypeOK, fdVars, dirVars
<1>4. CASE SendMessagePayload(c)
  <2>1. part[c] \in Message \cup {NoMsg}
    BY DEF TypeOK
  <2>2. Part("pay", part[c]) \in Chunk
    BY <2>1, InitialChunks
  <2>3. inq' \in [Conns -> Seq(Chunk)]
    BY <1>4, <2>2, SendType DEF SendMessagePayload
  <2> QED BY <1>4, <2>3 DEF SendMessagePayload, TypeOK, fdVars, dirVars
<1>5. CASE Leave(c)
  BY <1>5 DEF Leave, TypeOK, netVars, fdVars, dirVars
<1> QED BY <1>1, <1>2, <1>3, <1>4, <1>5 DEF Client

LEMMA MainType ==
  ASSUME TypeOK, Main
  PROVE  TypeOK'
<1>1. CASE Accept
  <2>1. PICK c \in backlog, full \in BOOLEAN, f \in Fds, g \in Garbage :
          /\ backlog' = backlog \ {c}
          /\ misuse' = misuse \cup (IF full = TableFull(num_thread)
                                    THEN {} ELSE {"table"})
          /\ IF full
             THEN UNCHANGED <<fdt, fdOf, acc>>
             ELSE /\ fdt' = [fdt EXCEPT ![f] = c]
                  /\ fdOf' = [fdOf EXCEPT ![c] = g]
                  /\ acc' = [pc |-> "challenge", c |-> c, fd |-> f]
    BY <1>1 DEF Accept
  <2>2. c \in Conns /\ f \in Int /\ g \in Int
    BY ConstantsAssumption DEF TypeOK
  <2>3. acc' \in AccState
    BY <2>1, <2>2 DEF TypeOK, AccState, AccPc
  <2>4. fdt' \in [Fds -> Conns \cup {NoConn}] /\ fdOf' \in [Conns -> Int]
    <3>1. fdt \in [Fds -> Conns \cup {NoConn}] /\ fdOf \in [Conns -> Int]
      BY DEF TypeOK
    <3>2. fdt' \in {fdt, [fdt EXCEPT ![f] = c]} /\ fdOf' \in {fdOf, [fdOf EXCEPT ![c] = g]}
      BY <2>1
    <3>3. fdt' \in [Fds -> Conns \cup {NoConn}]
      BY <2>2, <3>1, <3>2
    <3>4. fdOf' \in [Conns -> Int]
      BY <2>2, <3>1, <3>2
    <3> QED BY <3>3, <3>4
  <2>5. backlog' \subseteq Conns /\ misuse' \subseteq {"send", "recv", "close", "table"}
    BY <2>1 DEF TypeOK
  <2> QED BY <1>1, <2>3, <2>4, <2>5 DEF Accept, TypeOK, clientVars
<1>2. CASE SendChallenge
  <2>1. out' \in [Conns -> Seq(Chunk)]
    BY <1>2, SendOkType, InitialChunks DEF SendChallenge, SendFails, TypeOK
  <2>2. acc' \in AccState
    <3>1. "answer" \in AccPc
      BY DEF AccPc
    <3> QED BY <1>2, <3>1, AccGotoType, AccIdleType DEF SendChallenge, HangUp
  <2>3. fdt' \in [Fds -> Conns \cup {NoConn}] /\ interest' \in [Threads -> SUBSET Conns]
    BY <1>2, CloseFdType DEF SendChallenge, HangUp, fdVars, TypeOK
  <2> QED BY <1>2, <2>1, <2>2, <2>3 DEF SendChallenge, TypeOK, clientVars, dirVars
<1>3. CASE RecvAnswer
  <2>1. inq' \in [Conns -> Seq(Chunk)]
    <3>1. CASE UNCHANGED inq
      BY <3>1 DEF TypeOK
    <3>2. ASSUME At(acc.fd) \in Conns, inq[At(acc.fd)] # <<>>,
                 inq' = [inq EXCEPT ![At(acc.fd)] = Tail(@)]
          PROVE  inq' \in [Conns -> Seq(Chunk)]
      <4> DEFINE s == At(acc.fd)
      <4>1. inq[s] \in Seq(Chunk) /\ inq[s] # <<>>
        BY <3>2 DEF TypeOK
      <4>2. Tail(inq[s]) \in Seq(Chunk)
        BY <4>1
      <4>3. s \in Conns /\ inq' = [inq EXCEPT ![s] = Tail(inq[s])]
        BY <3>2
      <4> HIDE DEF s
      <4> QED BY <4>2, <4>3 DEF TypeOK
    <3> QED BY <1>3, <3>1, <3>2 DEF RecvAnswer
  <2>2. acc' \in AccState
    <3>1. {"refuse", "authorise"} \subseteq AccPc
      BY DEF AccPc
    <3> QED BY <1>3, <3>1, AccGotoType, AccIdleType DEF RecvAnswer, HangUp
  <2>3. fdt' \in [Fds -> Conns \cup {NoConn}] /\ interest' \in [Threads -> SUBSET Conns]
    BY <1>3, CloseFdType DEF RecvAnswer, HangUp, fdVars, TypeOK
  <2> QED BY <1>3, <2>1, <2>2, <2>3 DEF RecvAnswer, TypeOK, clientVars, dirVars
<1>4. CASE Refuse
  <2>1. out' \in [Conns -> Seq(Chunk)]
    BY <1>4, SendOkType, InitialChunks DEF Refuse, SendFails, TypeOK
  <2>2. fdt' \in [Fds -> Conns \cup {NoConn}] /\ interest' \in [Threads -> SUBSET Conns]
    BY <1>4, CloseFdType DEF Refuse, HangUp
  <2>3. acc' \in AccState /\ up' \in BOOLEAN
    BY <1>4, AccIdleType DEF Refuse, HangUp, DoubleFree, TypeOK
  <2> QED BY <1>4, <2>1, <2>2, <2>3 DEF Refuse, TypeOK, clientVars, dirVars
<1>5. CASE Authorise
  <2>1. out' \in [Conns -> Seq(Chunk)]
    BY <1>5, SendOkType, InitialChunks DEF Authorise, SendFails, TypeOK
  <2>2. fdt' \in [Fds -> Conns \cup {NoConn}] /\ interest' \in [Threads -> SUBSET Conns]
    BY <1>5, CloseFdType DEF Authorise, fdVars, TypeOK
  <2>3. acc' \in AccState
    <3>1. "epoll" \in AccPc
      BY DEF AccPc
    <3> QED BY <1>5, <3>1, AccGotoType DEF Authorise
  <2>4. up' \in BOOLEAN
    BY <1>5 DEF Authorise, DoubleFree, TypeOK
  <2> QED BY <1>5, <2>1, <2>2, <2>3, <2>4 DEF Authorise, TypeOK, clientVars, dirVars
<1>6. CASE EpollAdd
  <2>1. acc' \in AccState
    <3>1. "setfd" \in AccPc
      BY DEF AccPc
    <3> QED BY <1>6, <3>1, AccGotoType, AccIdleType DEF EpollAdd
  <2>2. interest' \in [Threads -> SUBSET Conns]
    <3>1. CASE At(acc.fd) = NoConn
      BY <1>6, <3>1 DEF EpollAdd, TypeOK
    <3>2. CASE At(acc.fd) # NoConn
      <4>1. acc.c \in Conns /\ num_thread \in Threads
        BY <1>6 DEF EpollAdd, TypeOK, AccState
      <4>2. interest' = [interest EXCEPT ![num_thread] = @ \cup {acc.c}]
        BY <1>6, <3>2 DEF EpollAdd, Watch
      <4> QED BY <4>1, <4>2 DEF TypeOK
    <3> QED BY <3>1, <3>2
  <2> QED BY <1>6, <2>1, <2>2 DEF EpollAdd, TypeOK, clientVars, netVars, dirVars
<1>7. CASE SetFd
  <2>1. acc' \in AccState
    <3>1. "setname" \in AccPc
      BY DEF AccPc
    <3> QED BY <1>7, <3>1, AccGotoType DEF SetFd
  <2>2. fdOf' \in [Conns -> Int]
    BY <1>7 DEF SetFd, TypeOK, AccState
  <2> QED BY <1>7, <2>1, <2>2 DEF SetFd, TypeOK, clientVars, netVars, fdVars
<1>8. CASE SetName
  <2>1. acc' \in AccState
    <3>1. "register" \in AccPc
      BY DEF AccPc
    <3> QED BY <1>8, <3>1, AccGotoType DEF SetName
  <2>2. nameOf' \in [Conns -> Users \cup {NoName}]
    BY <1>8, ConstantsAssumption DEF SetName, TypeOK, AccState
  <2> QED BY <1>8, <2>1, <2>2 DEF SetName, TypeOK, clientVars, netVars, fdVars
<1>9. CASE Register
  <2>1. PICK lost \in SUBSET (table[num_thread] \cup {acc.c}) :
          table' = [table EXCEPT ![num_thread] = (table[num_thread] \cup {acc.c}) \ lost]
    BY <1>9 DEF Register
  <2>2. table' \in [Threads -> SUBSET Conns]
    BY <1>9, <2>1 DEF Register, TypeOK, AccState
  <2>3. num_thread' \in Threads
    BY <1>9, NextThreadType DEF Register, TypeOK
  <2> QED BY <1>9, <2>2, <2>3, AccIdleType
          DEF Register, TypeOK, clientVars, netVars, fdVars
<1> QED BY <1>1, <1>2, <1>3, <1>4, <1>5, <1>6, <1>7, <1>8, <1>9 DEF Main

\* What a system call may add to the history of misuses.
LEMMA MisuseType ==
  ASSUME TypeOK, NEW set \in SUBSET {"send", "recv", "close", "table"}, Misuse(set)
  PROVE  misuse' \subseteq {"send", "recv", "close", "table"}
  BY DEF TypeOK, Misuse

\* A receive from whatever connection a descriptor stands for.
LEMMA TakeType ==
  ASSUME TypeOK, NEW s \in Conns, inq[s] # <<>>,
         \/ inq' = [inq EXCEPT ![s] = Tail(inq[s])]
         \/ \E rest \in Resync(inq[s]) : inq' = [inq EXCEPT ![s] = rest]
  PROVE  inq' \in [Conns -> Seq(Chunk)]
<1>1. inq[s] \in Seq(Chunk)
  BY DEF TypeOK
<1>2. Tail(inq[s]) \in Seq(Chunk)
  BY <1>1
<1>3. Resync(inq[s]) \subseteq Seq(Chunk)
  BY <1>1, ResyncType
<1> QED BY <1>2, <1>3, RecvType

LEMMA RecvHeaderType ==
  ASSUME TypeOK, NEW t \in Threads, RecvHeader(t)
  PROVE  TypeOK'
<1> DEFINE s == At(wk[t].fd)
           q == inq[s]
<1>2. misuse' \subseteq {"send", "recv", "close", "table"}
  BY MisuseType, StaleType DEF RecvHeader
<1>3. inq' \in [Conns -> Seq(Chunk)]
  <2>1. CASE UNCHANGED inq
    BY <2>1 DEF TypeOK
  <2>2. ASSUME s \in Conns, q # <<>>,
               \/ inq' = [inq EXCEPT ![s] = Tail(q)]
               \/ \E rest \in Resync(q) : inq' = [inq EXCEPT ![s] = rest]
        PROVE  inq' \in [Conns -> Seq(Chunk)]
    BY <2>2, TakeType
  <2>3. \/ UNCHANGED inq
        \/ /\ s \in Conns /\ q # <<>>
           /\ \/ inq' = [inq EXCEPT ![s] = Tail(q)]
              \/ \E rest \in Resync(q) : inq' = [inq EXCEPT ![s] = rest]
    BY DEF RecvHeader
  <2> QED BY <2>1, <2>2, <2>3
<1>4. peer' \in [Conns -> {"off", "open", "closed", "reset"}]
  BY DEF RecvHeader, TypeOK
<1>5. wk' \in [Threads -> WkState]
  <2>1. ASSUME s \in Conns, q # <<>>, Head(q).k \in {"hdr"},
               wk' = [wk EXCEPT ![t].pc = IF Head(q).m.kind = "long" THEN "error"
                                                                    ELSE "payload",
                                ![t].msg = Head(q).m]
        PROVE  wk' \in [Threads -> WkState]
    <3>1. q \in Seq(Chunk)
      BY <2>1 DEF TypeOK
    <3>2. Head(q) \in Chunk
      BY <2>1, <3>1
    <3>3. Head(q).m \in Message \cup {NoMsg}
      BY <3>2 DEF Chunk
    <3> DEFINE m  == Head(q).m
               pc == IF m.kind = "long" THEN "error" ELSE "payload"
    <3>4. pc \in WkPc /\ m \in Message \cup {NoMsg}
      BY <3>3 DEF WkPc
    <3>5. wk' = [wk EXCEPT ![t] = [wk[t] EXCEPT !.pc = pc, !.msg = m]]
      BY <2>1
    <3> HIDE DEF m, pc
    <3>6. wk[t] \in WkState
      BY DEF TypeOK
    <3>7. [wk[t] EXCEPT !.pc = pc, !.msg = m] \in WkState
      BY <3>4, <3>6 DEF WkState
    <3> QED BY <3>5, <3>7 DEF TypeOK
  <2>2. {"error", "garbled", "close"} \subseteq WkPc
    BY DEF WkPc
  <2>3. \/ Done(t) \/ Goto(t, "error") \/ Goto(t, "garbled") \/ Goto(t, "close")
        \/ /\ s \in Conns /\ q # <<>> /\ Head(q).k \in {"hdr"}
           /\ wk' = [wk EXCEPT ![t].pc = IF Head(q).m.kind = "long" THEN "error"
                                                                    ELSE "payload",
                               ![t].msg = Head(q).m]
    BY DEF RecvHeader
  <2> QED BY <2>1, <2>2, <2>3, GotoType, DoneType
<1> QED BY <1>2, <1>3, <1>4, <1>5 DEF RecvHeader, TypeOK, fdVars, dirVars

LEMMA RecvPayloadType ==
  ASSUME TypeOK, NEW t \in Threads, RecvPayload(t)
  PROVE  TypeOK'
<1> DEFINE s == At(wk[t].fd)
<1>1. misuse' \subseteq {"send", "recv", "close", "table"}
  BY MisuseType, StaleType DEF RecvPayload
<1>2. inq' \in [Conns -> Seq(Chunk)]
  <2>1. \/ UNCHANGED inq
        \/ /\ s \in Conns /\ inq[s] # <<>>
           /\ \/ inq' = [inq EXCEPT ![s] = Tail(inq[s])]
              \/ \E rest \in Resync(inq[s]) : inq' = [inq EXCEPT ![s] = rest]
    BY DEF RecvPayload
  <2> HIDE DEF s
  <2> QED BY <2>1, TakeType DEF TypeOK
<1>3. peer' \in [Conns -> {"off", "open", "closed", "reset"}]
  BY DEF RecvPayload, TypeOK
<1>4. wk' \in [Threads -> WkState]
  <2>1. {"error", "errorEof", "lookup"} \subseteq WkPc
    BY DEF WkPc
  <2> QED BY <2>1, GotoType, DoneType DEF RecvPayload
<1> QED BY <1>1, <1>2, <1>3, <1>4 DEF RecvPayload, TypeOK, fdVars, dirVars

LEMMA RelayType ==
  ASSUME TypeOK, NEW t \in Threads, RelayHeader(t) \/ RelayPayload(t)
  PROVE  TypeOK'
<1>1. /\ Part("hdr", wk[t].msg) \in Chunk
      /\ Part("pay", wk[t].msg) \in Chunk
  BY InitialChunks DEF TypeOK, WkState
<1>2. out' \in [Conns -> Seq(Chunk)]
  BY <1>1, SendOkType DEF RelayHeader, RelayPayload, Relay, SendFails, TypeOK
<1>3. fdt' \in [Fds -> Conns \cup {NoConn}] /\ interest' \in [Threads -> SUBSET Conns]
  BY CloseFdType DEF RelayHeader, RelayPayload, Relay, TypeOK, fdVars
<1>4. misuse' \subseteq {"send", "recv", "close", "table"}
  BY MisuseType, StaleType DEF RelayHeader, RelayPayload, Relay
<1>5. wk' \in [Threads -> WkState]
  <2>1. "sendpay" \in WkPc
    BY DEF WkPc
  <2> QED BY <2>1, GotoType, DoneType DEF RelayHeader, RelayPayload, Relay
<1> QED BY <1>2, <1>3, <1>4, <1>5
        DEF RelayHeader, RelayPayload, Relay, TypeOK, clientVars, dirVars

LEMMA WorkerType ==
  ASSUME TypeOK, NEW t \in Threads, Worker(t)
  PROVE  TypeOK'
<1>1. CASE EpollWait(t)
  <2> DEFINE ready == {c \in interest[t] : Readable(c)}
  <2>1. wk[t] \in WkState /\ ready \in SUBSET Conns
    BY DEF TypeOK
  <2>2. wk' = [wk EXCEPT ![t] = [wk[t] EXCEPT !.batch = ready]]
    BY <1>1 DEF EpollWait
  <2> HIDE DEF ready
  <2>3. [wk[t] EXCEPT !.batch = ready] \in WkState
    BY <2>1 DEF WkState
  <2>4. wk' \in [Threads -> WkState]
    BY <2>2, <2>3 DEF TypeOK
  <2> QED BY <1>1, <2>4
          DEF EpollWait, TypeOK, clientVars, netVars, fdVars, dirVars
<1>2. CASE NextEvent(t)
  <2>1. PICK c \in wk[t].batch :
          wk' = [wk EXCEPT ![t] = [WkIdle(wk[t].batch \ {c}) EXCEPT
                                    !.pc = "header", !.cl = c, !.fd = fdOf[c]]]
    BY <1>2 DEF NextEvent
  <2> DEFINE idle == WkIdle(wk[t].batch \ {c})
  <2>2. c \in Conns /\ fdOf[c] \in Int /\ "header" \in WkPc
    BY DEF TypeOK, WkState, WkPc
  <2>3. idle \in WkState
    BY WkIdleType DEF TypeOK, WkState
  <2> HIDE DEF idle
  <2>4. [idle EXCEPT !.pc = "header", !.cl = c, !.fd = fdOf[c]] \in WkState
    BY <2>2, <2>3 DEF WkState
  <2> QED BY <1>2, <2>1, <2>4
          DEF NextEvent, TypeOK, clientVars, netVars, fdVars, dirVars, idle
<1>3. CASE RecvHeader(t)
  BY <1>3, RecvHeaderType
<1>4. CASE RecvPayload(t)
  BY <1>4, RecvPayloadType
<1>5. CASE SendError(t)
  <2>1. out' \in [Conns -> Seq(Chunk)]
    BY <1>5, SendOkType, InitialChunks DEF SendError, SendFails, TypeOK
  <2>2. fdt' \in [Fds -> Conns \cup {NoConn}] /\ interest' \in [Threads -> SUBSET Conns]
    BY <1>5, CloseFdType DEF SendError, TypeOK, fdVars
  <2>3. misuse' \subseteq {"send", "recv", "close", "table"}
    <3>1. UNCHANGED misuse \/ Misuse(Stale("close", wk[t].fd, wk[t].cl))
      BY <1>5 DEF SendError
    <3>2. Stale("close", wk[t].fd, wk[t].cl) \in SUBSET {"send", "recv", "close", "table"}
      BY StaleType
    <3>3. UNCHANGED misuse => misuse' \subseteq {"send", "recv", "close", "table"}
      BY DEF TypeOK
    <3> QED BY <3>1, <3>2, <3>3, MisuseType
  <2>4. wk' \in [Threads -> WkState]
    <3>1. "close" \in WkPc
      BY DEF WkPc
    <3> QED BY <1>5, <3>1, GotoType, DoneType DEF SendError
  <2>5. up' \in BOOLEAN
    BY <1>5 DEF SendError, DoubleFree, TypeOK
  <2> QED BY <1>5, <2>1, <2>2, <2>3, <2>4, <2>5 DEF SendError, TypeOK, clientVars, dirVars
<1>6. CASE CloseClient(t)
  <2>1. fdt' \in [Fds -> Conns \cup {NoConn}] /\ interest' \in [Threads -> SUBSET Conns]
    BY <1>6, CloseFdType DEF CloseClient
  <2>2. misuse' \subseteq {"send", "recv", "close", "table"}
    BY <1>6, MisuseType, StaleType DEF CloseClient
  <2>3. wk' \in [Threads -> WkState]
    <3>1. "unregister" \in WkPc
      BY DEF WkPc
    <3> QED BY <1>6, <3>1, GotoType DEF CloseClient
  <2> QED BY <1>6, <2>1, <2>2, <2>3 DEF CloseClient, TypeOK, clientVars, netVars, dirVars
<1>7. CASE Unregister(t)
  <2>1. wk' \in [Threads -> WkState]
    <3>1. "rehash" \in WkPc
      BY DEF WkPc
    <3> QED BY <1>7, <3>1, GotoType, DoneType DEF Unregister
  <2>2. table' \in [Threads -> SUBSET Conns]
    <3>1. table \in [Threads -> SUBSET Conns]
      BY DEF TypeOK
    <3>2. \/ UNCHANGED table
          \/ \E d : table' = [table EXCEPT ![t] = @ \ {d}]
      BY <1>7 DEF Unregister
    <3> QED BY <3>1, <3>2
  <2> QED BY <1>7, <2>1, <2>2 DEF Unregister, TypeOK, clientVars, netVars, fdVars
<1>8. CASE Rehashed(t)
  <2>1. wk' \in [Threads -> WkState]
    BY <1>8, DoneType DEF Rehashed
  <2> QED BY <1>8, <2>1 DEF Rehashed, TypeOK, clientVars, netVars, fdVars, dirVars
<1>9. CASE Lookup(t)
  <2>1. misuse' \subseteq {"send", "recv", "close", "table"}
    <3>1. \/ UNCHANGED misuse
          \/ Misuse({}) \/ Misuse({"table"})
      BY <1>9 DEF Lookup
    <3> QED BY <3>1, MisuseType DEF TypeOK
  <2>2. wk' \in [Threads -> WkState]
    <3>0. wk[t] \in WkState
      BY DEF TypeOK
    <3>1. ASSUME NEW d \in Conns,
                 wk' = [wk EXCEPT ![t].pc = "sendhdr", ![t].dst = d, ![t].dfd = fdOf[d]]
          PROVE  wk' \in [Threads -> WkState]
      <4>1. wk' = [wk EXCEPT ![t] = [wk[t] EXCEPT !.pc = "sendhdr", !.dst = d,
                                                  !.dfd = fdOf[d]]]
        BY <3>1
      <4>2. fdOf[d] \in Int /\ "sendhdr" \in WkPc
        BY DEF TypeOK, WkPc
      <4>3. [wk[t] EXCEPT !.pc = "sendhdr", !.dst = d, !.dfd = fdOf[d]] \in WkState
        BY <3>0, <4>2 DEF WkState
      <4> QED BY <4>1, <4>3 DEF TypeOK
    <3>2. ASSUME MoreTables(wk[t].scan), wk' = [wk EXCEPT ![t].scan = wk[t].scan + 1]
          PROVE  wk' \in [Threads -> WkState]
      <4>1. wk[t].scan + 1 \in Threads
        BY <3>0, <3>2, ConstantsAssumption DEF MoreTables, WkState, Threads
      <4>2. wk' = [wk EXCEPT ![t] = [wk[t] EXCEPT !.scan = wk[t].scan + 1]]
        BY <3>2
      <4>3. [wk[t] EXCEPT !.scan = wk[t].scan + 1] \in WkState
        BY <3>0, <4>1 DEF WkState
      <4> QED BY <4>2, <4>3 DEF TypeOK
    <3>3. wk[t].scan \in Threads
      BY <3>0 DEF WkState
    <3>4. Named(wk[t].scan, wk[t].msg.to) \subseteq Conns
      BY <3>3 DEF TypeOK, Named
    <3>5. \/ \E d \in Named(wk[t].scan, wk[t].msg.to) :
               wk' = [wk EXCEPT ![t].pc = "sendhdr", ![t].dst = d, ![t].dfd = fdOf[d]]
          \/ MoreTables(wk[t].scan) /\ wk' = [wk EXCEPT ![t].scan = wk[t].scan + 1]
          \/ Done(t)
      BY <1>9 DEF Lookup
    <3> QED BY <3>1, <3>2, <3>4, <3>5, DoneType
  <2> QED BY <1>9, <2>1, <2>2 DEF Lookup, TypeOK, clientVars, netVars, fdVars, dirVars
<1>10. CASE RelayHeader(t) \/ RelayPayload(t)
  BY <1>10, RelayType
<1> QED BY <1>1, <1>2, <1>3, <1>4, <1>5, <1>6, <1>7, <1>8, <1>9, <1>10 DEF Worker

LEMMA InitType == Init => TypeOK
<1> SUFFICES ASSUME Init PROVE TypeOK
  OBVIOUS
<1>1. wk \in [Threads -> WkState]
  BY WkIdleType DEF Init
<1>2. acc \in AccState
  BY AccIdleType DEF Init
<1>3. num_thread \in Threads
  BY ConstantsAssumption DEF Init, Threads
<1> QED BY <1>1, <1>2, <1>3 DEF Init, TypeOK

LEMMA StepType == TypeOK /\ [Next]_vars => TypeOK'
<1> SUFFICES ASSUME TypeOK, [Next]_vars PROVE TypeOK'
  OBVIOUS
<1>1. CASE UNCHANGED vars
  BY <1>1 DEF vars, clientVars, netVars, fdVars, dirVars, TypeOK
<1> QED BY <1>1, MainType, WorkerType, ClientType DEF Next

\* Every reachable state of the relay server is well formed, for any number of
\* connections, users and threads: in particular num_thread, fd and table
\* indices never leave their ranges.
THEOREM TypeCorrect == Spec => []TypeOK
<1> QED BY InitType, StepType, PTL DEF Spec

----------------------------------------------------------------------------
(* Routing.  A message reaches the right user because a name, once written  *)
(* into a client_t, is that of the connection's key, and because a worker   *)
(* that is sending holds a client_t of that name whose descriptor, unless   *)
(* it has been recycled, is that connection's.                              *)

NamesTrue == \A c \in Conns : nameOf[c] \in {NoName, UserOf[c]}

Sending == {"sendhdr", "sendpay"}
TargetsTrue ==
  \A t \in Threads : wk[t].pc \in Sending =>
    wk[t].dst \in Conns /\ UserOf[wk[t].dst] = wk[t].msg.to

RoutingInv == TypeOK /\ NamesTrue /\ TargetsTrue /\ RoutedToRecipient

\* Whatever is sent that is no misrouted message keeps the routing right.
LEMMA SendRouted ==
  ASSUME RoutingInv, NEW f, NEW ch \in Chunk,
         SendOk(f, ch) \/ UNCHANGED out, misuse \subseteq misuse',
         ch.k = "pay" => \/ "send" \in misuse'
                         \/ At(f) \in Conns => ch.m.to = UserOf[At(f)]
  PROVE  RoutedToRecipient'
<1> SUFFICES ASSUME "send" \notin misuse',
                    NEW c \in Conns, NEW i \in Relayed(c)'
             PROVE  out[c][i].m.to' = UserOf[c]
  BY DEF RoutedToRecipient
<1>1. \A j \in Relayed(c) : out[c][j].m.to = UserOf[c]
  BY DEF RoutingInv, RoutedToRecipient
<1>2. CASE out'[c] = out[c]
  BY <1>1, <1>2 DEF Relayed
<1>3. CASE At(f) = c /\ out'[c] = Append(out[c], ch)
  <2>1. out[c] \in Seq(Chunk)
    BY DEF RoutingInv, TypeOK
  <2>2. i \in 1..Len(out[c]) + 1 /\ out'[c][i].k = "pay"
    BY <1>3, <2>1 DEF Relayed
  <2>3. CASE i \in 1..Len(out[c])
    <3>1. out'[c][i] = out[c][i]
      BY <1>3, <2>1, <2>3
    <3> QED BY <1>1, <2>2, <2>3, <3>1 DEF Relayed
  <2>4. CASE i = Len(out[c]) + 1
    <3>1. out'[c][i] = ch
      BY <1>3, <2>1, <2>4
    <3> QED BY <1>3, <2>2, <3>1
  <2> QED BY <2>2, <2>3, <2>4
<1>4. out'[c] = out[c] \/ (At(f) = c /\ out'[c] = Append(out[c], ch))
  BY DEF SendOk, RoutingInv, TypeOK
<1> QED BY <1>2, <1>3, <1>4

\* A step that sends nothing.
LEMMA SilentRouted ==
  ASSUME RoutingInv, UNCHANGED out, misuse \subseteq misuse'
  PROVE  RoutedToRecipient'
  BY DEF RoutingInv, RoutedToRecipient, Relayed

LEMMA ClientRouted ==
  ASSUME RoutingInv, NEW c \in Conns, Client(c)
  PROVE  (NamesTrue /\ TargetsTrue /\ RoutedToRecipient)'
<1>1. UNCHANGED <<out, nameOf, wk, misuse>>
  BY DEF Client, Connect, Answer, SendMessageHeader, SendMessagePayload, Leave,
         fdVars, dirVars, netVars
<1> QED BY <1>1 DEF RoutingInv, NamesTrue, TargetsTrue, RoutedToRecipient, Relayed

LEMMA MainRouted ==
  ASSUME RoutingInv, Main
  PROVE  (NamesTrue /\ TargetsTrue /\ RoutedToRecipient)'
<1>1. UNCHANGED wk
  BY DEF Main, Accept, SendChallenge, RecvAnswer, Refuse, Authorise, EpollAdd, SetFd,
         SetName, Register
<1>2. misuse \subseteq misuse'
  BY DEF Main, Accept, SendChallenge, RecvAnswer, Refuse, Authorise, EpollAdd, SetFd,
         SetName, Register
<1>3. NamesTrue'
  <2>1. CASE SetName
    <3>1. acc.c \in Conns
      BY <2>1 DEF SetName, RoutingInv, TypeOK, AccState
    <3> QED BY <2>1, <3>1 DEF SetName, NamesTrue, RoutingInv, TypeOK
  <2>2. CASE UNCHANGED nameOf
    BY <2>2 DEF NamesTrue, RoutingInv
  <2>3. SetName \/ UNCHANGED nameOf
    BY DEF Main, Accept, SendChallenge, RecvAnswer, Refuse, Authorise, EpollAdd, SetFd,
           Register, dirVars
  <2> QED BY <2>1, <2>2, <2>3
<1>4. TargetsTrue'
  BY <1>1 DEF TargetsTrue, RoutingInv
<1>5. RoutedToRecipient'
  <2>1. \/ UNCHANGED out
        \/ \E k \in {"challenge", "unauthorised", "authorised"} : SendOk(acc.fd, Plain(k))
    BY DEF Main, Accept, SendChallenge, RecvAnswer, Refuse, Authorise, EpollAdd, SetFd,
           SetName, Register, SendFails, netVars
  <2>2. ASSUME NEW k \in {"challenge", "unauthorised", "authorised"},
               SendOk(acc.fd, Plain(k))
        PROVE  RoutedToRecipient'
    <3>1. Plain(k) \in Chunk /\ Plain(k).k # "pay"
      BY InitialChunks DEF Plain
    <3> QED BY <1>2, <2>2, <3>1, SendRouted
  <2> QED BY <1>2, <2>1, <2>2, SilentRouted
<1> QED BY <1>3, <1>4, <1>5

LEMMA GotoAt ==
  ASSUME TypeOK, NEW t \in Threads, NEW pc, Goto(t, pc)
  PROVE  wk'[t].pc = pc /\ wk'[t].dst = wk[t].dst /\ wk'[t].msg = wk[t].msg
<1>1. wk[t] \in WkState /\ wk'[t] = [wk[t] EXCEPT !.pc = pc]
  BY DEF TypeOK, Goto
<1> QED BY <1>1 DEF WkState

LEMMA DoneAt ==
  ASSUME TypeOK, NEW t \in Threads, Done(t)
  PROVE  wk'[t].pc = "idle"
  BY DEF TypeOK, Done, WkIdle

LEMMA WorkerRouted ==
  ASSUME RoutingInv, NEW t \in Threads, Worker(t)
  PROVE  (NamesTrue /\ TargetsTrue /\ RoutedToRecipient)'
<1> USE DEF RoutingInv
<1>1. UNCHANGED nameOf
  BY DEF Worker, EpollWait, NextEvent, RecvHeader, RecvPayload, SendError, CloseClient,
         Unregister, Rehashed, Lookup, RelayHeader, RelayPayload, Relay, dirVars
<1>2. misuse \subseteq misuse'
  BY DEF Worker, EpollWait, NextEvent, RecvHeader, RecvPayload, SendError, CloseClient,
         Unregister, Rehashed, Lookup, RelayHeader, RelayPayload, Relay, Misuse
<1>3. NamesTrue'
  BY <1>1 DEF NamesTrue
<1>4. TargetsTrue'
  <2>1. \A u \in Threads \ {t} : wk'[u] = wk[u]
    BY DEF Worker, EpollWait, NextEvent, RecvHeader, RecvPayload, SendError, CloseClient,
           Unregister, Rehashed, Lookup, RelayHeader, RelayPayload, Relay, Goto, Done,
           TypeOK
  <2>2. ASSUME wk'[t].pc \in Sending
        PROVE  wk'[t].dst \in Conns /\ UserOf[wk'[t].dst] = wk'[t].msg.to
    <3>0. wk[t] \in WkState
      BY DEF TypeOK
    <3>1. CASE Lookup(t)
      <4>1. ~(MoreTables(wk[t].scan) /\ wk' = [wk EXCEPT ![t].scan = wk[t].scan + 1])
        <5> SUFFICES ASSUME wk' = [wk EXCEPT ![t].scan = wk[t].scan + 1] PROVE FALSE
          OBVIOUS
        <5>1. wk'[t] = [wk[t] EXCEPT !.scan = wk[t].scan + 1]
          BY DEF TypeOK
        <5>2. wk'[t].pc = "lookup"
          BY <3>0, <3>1, <5>1 DEF Lookup, WkState
        <5> QED BY <2>2, <5>2 DEF Sending
      <4>2. ~Done(t)
        BY <2>2, DoneAt DEF Sending
      <4>3. PICK d \in Named(wk[t].scan, wk[t].msg.to) :
              wk' = [wk EXCEPT ![t].pc = "sendhdr", ![t].dst = d, ![t].dfd = fdOf[d]]
        BY <3>1, <4>1, <4>2 DEF Lookup
      <4>4. wk[t].scan \in Threads
        BY <3>0 DEF WkState
      <4>5. d \in Conns /\ nameOf[d] = wk[t].msg.to /\ nameOf[d] # NoName
        BY <4>4 DEF Named, TypeOK
      <4>6. UserOf[d] = wk[t].msg.to
        BY <4>5 DEF NamesTrue
      <4>7. wk'[t] = [wk[t] EXCEPT !.pc = "sendhdr", !.dst = d, !.dfd = fdOf[d]]
        BY <4>3 DEF TypeOK
      <4>8. wk'[t].dst = d /\ wk'[t].msg = wk[t].msg
        BY <3>0, <4>7 DEF WkState
      <4> QED BY <4>5, <4>6, <4>8
    <3>2. CASE RelayHeader(t)
      <4>1. Goto(t, "sendpay") /\ wk[t].pc \in Sending
        BY <2>2, <3>2, DoneAt DEF RelayHeader, Relay, Sending
      <4> QED BY <4>1, GotoAt DEF TargetsTrue
    <3>3. ~RelayPayload(t)
      BY <2>2, DoneAt DEF RelayPayload, Relay, Sending
    <3>4. ~(EpollWait(t) \/ NextEvent(t) \/ RecvHeader(t))
      <4>1. EpollWait(t) => wk'[t].pc = "idle"
        BY <3>0 DEF EpollWait, TypeOK, WkState
      <4>2. NextEvent(t) => wk'[t].pc = "header"
        BY DEF NextEvent, WkIdle, TypeOK
      <4>3. ASSUME RecvHeader(t)
            PROVE  wk'[t].pc \in {"idle", "error", "payload", "garbled", "close"}
        <5>1. \/ Done(t) \/ Goto(t, "error") \/ Goto(t, "garbled") \/ Goto(t, "close")
              \/ \E m : wk' = [wk EXCEPT ![t].pc = IF m.kind = "long" THEN "error"
                                                                     ELSE "payload",
                                         ![t].msg = m]
          BY <4>3 DEF RecvHeader
        <5>2. ASSUME NEW pc \in {"error", "payload"}, NEW m,
                     wk' = [wk EXCEPT ![t].pc = pc, ![t].msg = m]
              PROVE  wk'[t].pc = pc
          BY <3>0, <5>2 DEF TypeOK, WkState
        <5>3. (\E m : wk' = [wk EXCEPT ![t].pc = IF m.kind = "long" THEN "error"
                                                                      ELSE "payload",
                                       ![t].msg = m])
              => wk'[t].pc \in {"error", "payload"}
          BY <5>2
        <5>4. Done(t) => wk'[t].pc = "idle"
          BY DoneAt
        <5>5. \A pc \in {"error", "garbled", "close"} : Goto(t, pc) => wk'[t].pc = pc
          BY GotoAt
        <5> QED BY <5>1, <5>3, <5>4, <5>5
      <4> QED BY <2>2, <4>1, <4>2, <4>3 DEF Sending
    <3>5. ~(RecvPayload(t) \/ SendError(t) \/ CloseClient(t) \/ Unregister(t)
              \/ Rehashed(t))
      <4>1. /\ Done(t) => wk'[t].pc \notin Sending
            /\ \A pc \in {"error", "errorEof", "lookup", "close", "unregister", "rehash"} :
                 Goto(t, pc) => wk'[t].pc \notin Sending
        BY DoneAt, GotoAt DEF Sending
      <4>2. RecvPayload(t) => \/ Done(t) \/ Goto(t, "error") \/ Goto(t, "errorEof")
                              \/ Goto(t, "lookup")
        BY DEF RecvPayload
      <4>3. SendError(t) \/ CloseClient(t) \/ Unregister(t) \/ Rehashed(t)
            => \/ Done(t) \/ Goto(t, "close") \/ Goto(t, "unregister")
               \/ Goto(t, "rehash")
        BY DEF SendError, CloseClient, Unregister, Rehashed
      <4> QED BY <2>2, <4>1, <4>2, <4>3
    <3> QED BY <3>1, <3>2, <3>3, <3>4, <3>5 DEF Worker
  <2> QED BY <2>1, <2>2 DEF TargetsTrue
<1>5. RoutedToRecipient'
  <2>1. CASE SendError(t)
    <3>1. Plain("error") \in Chunk /\ Plain("error").k # "pay"
      BY InitialChunks DEF Plain
    <3> QED BY <1>2, <2>1, <3>1, SendRouted DEF SendError, SendFails
  <2>2. CASE RelayHeader(t)
    <3>1. Part("hdr", wk[t].msg) \in Chunk /\ Part("hdr", wk[t].msg).k # "pay"
      BY InitialChunks DEF Part, TypeOK, WkState
    <3> QED BY <1>2, <2>2, <3>1, SendRouted DEF RelayHeader, Relay, SendFails
  <2>3. CASE RelayPayload(t)
    <3> DEFINE f  == wk[t].dfd
               ch == Part("pay", wk[t].msg)
    <3>1. ch \in Chunk /\ ch.m = wk[t].msg
      BY InitialChunks DEF Part, TypeOK, WkState
    <3>2. UserOf[wk[t].dst] = wk[t].msg.to
      BY <2>3 DEF RelayPayload, Relay, TargetsTrue, Sending
    <3>3. CASE SendOk(f, ch) /\ Misuse(Stale("send", f, wk[t].dst))
      <4>1. "send" \in misuse' \/ (At(f) \in Conns => ch.m.to = UserOf[At(f)])
        BY <3>1, <3>2, <3>3, ConstantsAssumption DEF Stale, Misuse
      <4> HIDE DEF f, ch
      <4> QED BY <1>2, <3>1, <3>3, <4>1, SendRouted
    <3>4. CASE UNCHANGED out
      BY <1>2, <3>4, SilentRouted
    <3> QED BY <2>3, <3>3, <3>4 DEF RelayPayload, Relay, SendFails
  <2>4. CASE UNCHANGED out
    BY <1>2, <2>4, SilentRouted
  <2>5. SendError(t) \/ RelayHeader(t) \/ RelayPayload(t) \/ UNCHANGED out
    BY DEF Worker, EpollWait, NextEvent, RecvHeader, RecvPayload, CloseClient,
           Unregister, Rehashed, Lookup, netVars
  <2> QED BY <2>1, <2>2, <2>3, <2>4, <2>5
<1> QED BY <1>3, <1>4, <1>5

LEMMA InitRouting == Init => RoutingInv
<1> SUFFICES ASSUME Init PROVE RoutingInv
  OBVIOUS
<1>1. NamesTrue /\ TargetsTrue
  BY DEF Init, NamesTrue, TargetsTrue, WkIdle, Sending
<1>2. RoutedToRecipient
  BY DEF Init, RoutedToRecipient, Relayed
<1> QED BY <1>1, <1>2, InitType DEF RoutingInv

LEMMA StepRouting == RoutingInv /\ [Next]_vars => RoutingInv'
<1> SUFFICES ASSUME RoutingInv, [Next]_vars PROVE RoutingInv'
  OBVIOUS
<1>1. TypeOK'
  BY StepType DEF RoutingInv
<1>2. CASE UNCHANGED vars
  BY <1>1, <1>2 DEF vars, dirVars, netVars, RoutingInv, NamesTrue, TargetsTrue,
                    RoutedToRecipient, Relayed
<1>3. CASE Next
  BY <1>1, <1>3, MainRouted, WorkerRouted, ClientRouted DEF Next, RoutingInv
<1> QED BY <1>2, <1>3

\* A relayed message reaches only connections of its recipient, whatever the
\* interleaving of lookups, arrivals, departures and removals, until a send
\* hits a recycled descriptor.
THEOREM RoutingCorrect == Spec => []RoutedToRecipient
<1>1. RoutingInv => RoutedToRecipient
  BY DEF RoutingInv
<1> QED BY <1>1, InitRouting, StepRouting, PTL DEF Spec

----------------------------------------------------------------------------
(* The entries of the client tables: whoever is in one has proved to hold  *)
(* the key of its name.                                                    *)

Busy == acc.pc # "idle"

\* A connection not yet accepted is nowhere in the server.
FreshOutside ==
  \A c \in Conns : peer[c] = "off" \/ c \in backlog =>
    /\ Busy => acc.c # c
    /\ \A t \in Threads : c \notin table[t]
OffNotPending == \A c \in Conns : peer[c] = "off" => c \notin backlog

\* The accept thread's descriptor stands for its client, even if a worker has
\* closed it: nobody but the accept thread is given descriptors.
AccOwnsFd == Busy => At(acc.fd) \in {acc.c, NoConn}

\* What the accept thread has established about its client so far.
AccChecked ==
  acc.pc \in {"authorise", "epoll", "setfd", "setname", "register"}
    => acc.c \notin BadKeys
AccFilledIn ==
  /\ acc.pc \in {"setname", "register"} => fdOf[acc.c] = acc.fd
  /\ acc.pc = "register" => nameOf[acc.c] = UserOf[acc.c]
AccNotYetIn == Busy => \A t \in Threads : acc.c \notin table[t]

EntryInv == /\ TypeOK
            /\ FreshOutside
            /\ OffNotPending
            /\ AccOwnsFd
            /\ AccChecked
            /\ AccFilledIn
            /\ AccNotYetIn
            /\ EntriesComplete

\* Steps of the others: they open no descriptor, register nothing, write no
\* client_t, and no client becomes unborn.
LEMMA QuietEntries ==
  ASSUME EntryInv, TypeOK', UNCHANGED <<fdOf, nameOf, backlog, acc>>,
         \A t \in Threads : table'[t] \subseteq table[t],
         \A c \in Conns : peer'[c] = "off" => peer[c] = "off",
         \A f \in Fds : fdt'[f] \in {fdt[f], NoConn}
  PROVE  EntryInv'
<1>1. FreshOutside' /\ OffNotPending' /\ AccNotYetIn'
  BY DEF EntryInv, FreshOutside, OffNotPending, AccNotYetIn, Busy
<1>2. AccOwnsFd'
  BY DEF EntryInv, AccOwnsFd, Busy, At
<1>3. AccChecked' /\ AccFilledIn'
  BY DEF EntryInv, AccChecked, AccFilledIn
<1>4. EntriesComplete'
  BY DEF EntryInv, EntriesComplete
<1> QED BY <1>1, <1>2, <1>3, <1>4 DEF EntryInv

LEMMA CloseFdEntries ==
  ASSUME NEW f, CloseFd(f)
  PROVE  \A g \in Fds : fdt'[g] \in {fdt[g], NoConn}
  BY DEF CloseFd

LEMMA WorkerEntries ==
  ASSUME EntryInv, TypeOK', NEW t \in Threads, Worker(t)
  PROVE  EntryInv'
<1>1. UNCHANGED <<fdOf, nameOf, backlog, acc>>
  BY DEF Worker, EpollWait, NextEvent, RecvHeader, RecvPayload, SendError,
         CloseClient, Unregister, Rehashed, Lookup, RelayHeader, RelayPayload,
         Relay, dirVars, netVars
<1>2. \A u \in Threads : table'[u] \subseteq table[u]
  <2>1. CASE Unregister(t)
    <3>1. \A d : table' = [table EXCEPT ![t] = @ \ {d}]
                  => \A u \in Threads : table'[u] \subseteq table[u]
      BY DEF EntryInv, TypeOK
    <3>2. UNCHANGED table \/ \E d : table' = [table EXCEPT ![t] = @ \ {d}]
      BY <2>1 DEF Unregister
    <3> QED BY <3>1, <3>2
  <2>2. CASE UNCHANGED table
    BY <2>2
  <2> QED BY <2>1, <2>2 DEF Worker, EpollWait, NextEvent, RecvHeader, RecvPayload,
             SendError, CloseClient, Rehashed, Lookup, RelayHeader, RelayPayload,
             Relay, dirVars
<1>3. \A c \in Conns : peer'[c] = "off" => peer[c] = "off"
  <2>1. CASE \E s : peer' = [peer EXCEPT ![s] = "closed"]
    BY <2>1 DEF EntryInv, TypeOK
  <2>2. CASE UNCHANGED peer
    BY <2>2
  <2>3. RecvHeader(t) \/ RecvPayload(t)
          => UNCHANGED peer \/ \E s : peer' = [peer EXCEPT ![s] = "closed"]
    BY DEF RecvHeader, RecvPayload
  <2> QED BY <2>1, <2>2, <2>3 DEF Worker, EpollWait, NextEvent, SendError,
             CloseClient, Unregister, Rehashed, Lookup, RelayHeader, RelayPayload,
             Relay, clientVars
<1>4. \A f \in Fds : fdt'[f] \in {fdt[f], NoConn}
  <2>1. UNCHANGED fdt \/ \E f : CloseFd(f)
    BY DEF Worker, EpollWait, NextEvent, RecvHeader, RecvPayload, SendError,
           CloseClient, Unregister, Rehashed, Lookup, RelayHeader, RelayPayload,
           Relay, fdVars
  <2> QED BY <2>1, CloseFdEntries
<1> QED BY <1>1, <1>2, <1>3, <1>4, QuietEntries

LEMMA ClientEntries ==
  ASSUME EntryInv, TypeOK', NEW c \in Conns, Client(c)
  PROVE  EntryInv'
<1>1. CASE Connect(c)
  <2> USE DEF EntryInv
  <2>1. /\ UNCHANGED <<fdt, fdOf, nameOf, table, acc>>
        /\ backlog' = backlog \cup {c} /\ peer[c] = "off"
        /\ \A d \in Conns : peer'[d] = IF d = c THEN "open" ELSE peer[d]
    BY <1>1 DEF Connect, fdVars, dirVars, TypeOK
  <2>2. FreshOutside'
    BY <2>1 DEF FreshOutside, Busy
  <2>3. OffNotPending'
    BY <2>1 DEF OffNotPending
  <2>4. AccOwnsFd' /\ AccChecked' /\ AccFilledIn' /\ AccNotYetIn'
    BY <2>1 DEF AccOwnsFd, AccChecked, AccFilledIn, AccNotYetIn, Busy, At
  <2>5. EntriesComplete'
    BY <2>1 DEF EntriesComplete
  <2> QED BY <2>2, <2>3, <2>4, <2>5
<1>2. CASE Answer(c) \/ SendMessageHeader(c) \/ SendMessagePayload(c)
  <2>1. UNCHANGED <<peer, fdt, fdOf, nameOf, backlog, table, acc>>
    BY <1>2 DEF Answer, SendMessageHeader, SendMessagePayload, fdVars, dirVars
  <2> QED BY <2>1, QuietEntries
<1>3. CASE Leave(c)
  <2>1. UNCHANGED <<fdt, fdOf, nameOf, backlog, table, acc>>
    BY <1>3 DEF Leave, fdVars, dirVars, netVars
  <2>2. \A d \in Conns : peer'[d] = "off" => peer[d] = "off"
    BY <1>3 DEF Leave, EntryInv, TypeOK
  <2> QED BY <2>1, <2>2, QuietEntries
<1> QED BY <1>1, <1>2, <1>3 DEF Client

----------------------------------------------------------------------------
(* The accept thread.                                                      *)

LEMMA AccGotoEntries ==
  ASSUME TypeOK, NEW pc, AccGoto(pc)
  PROVE  acc'.pc = pc /\ acc'.c = acc.c /\ acc'.fd = acc.fd
  BY DEF AccGoto, TypeOK, AccState

\* A step of the accept thread on its client that registers nothing yet.
LEMMA AccStepEntries ==
  ASSUME EntryInv, TypeOK', Busy, UNCHANGED <<peer, backlog, table>>,
         acc' = AccIdle \/ (acc'.c = acc.c /\ acc'.fd = acc.fd),
         \A f \in Fds : fdt'[f] \in {fdt[f], NoConn},
         AccChecked', AccFilledIn', EntriesComplete'
  PROVE  EntryInv'
<1>1. acc' = AccIdle => ~Busy'
  BY DEF AccIdle, Busy
<1>2. FreshOutside' /\ OffNotPending' /\ AccNotYetIn'
  BY <1>1 DEF EntryInv, FreshOutside, OffNotPending, AccNotYetIn, Busy
<1>3. AccOwnsFd'
  BY <1>1 DEF EntryInv, AccOwnsFd, Busy, At
<1> QED BY <1>2, <1>3 DEF EntryInv

\* Giving the client up.
LEMMA HangUpEntries ==
  ASSUME EntryInv, TypeOK', Busy, HangUp,
         UNCHANGED <<peer, backlog, table, fdOf, nameOf>>
  PROVE  EntryInv'
<1>1. acc' = AccIdle /\ \A f \in Fds : fdt'[f] \in {fdt[f], NoConn}
  BY CloseFdEntries DEF HangUp
<1>2. AccChecked' /\ AccFilledIn'
  BY <1>1 DEF AccIdle, AccChecked, AccFilledIn
<1>3. EntriesComplete'
  BY DEF EntryInv, EntriesComplete
<1> QED BY <1>1, <1>2, <1>3, AccStepEntries

LEMMA AcceptEntries ==
  ASSUME EntryInv, TypeOK', Accept
  PROVE  EntryInv'
<1> USE DEF EntryInv
<1>1. PICK c \in backlog, full \in BOOLEAN, f \in Fds, g \in Garbage :
        /\ backlog' = backlog \ {c}
        /\ IF full
           THEN UNCHANGED <<fdt, fdOf, acc>>
           ELSE /\ fdt' = [fdt EXCEPT ![f] = c]
                /\ fdOf' = [fdOf EXCEPT ![c] = g]
                /\ acc' = [pc |-> "challenge", c |-> c, fd |-> f]
  BY DEF Accept
<1>2. c \in Conns /\ UNCHANGED <<peer, nameOf, table>>
  BY DEF Accept, TypeOK, clientVars
<1>3. peer[c] # "off" /\ \A t \in Threads : c \notin table[t]
  BY <1>2 DEF OffNotPending, FreshOutside
<1>4. CASE full
  <2>1. UNCHANGED <<fdt, fdOf, acc>>
    BY <1>1, <1>4
  <2>2. FreshOutside' /\ OffNotPending' /\ AccNotYetIn'
    BY <1>1, <1>2, <2>1 DEF FreshOutside, OffNotPending, AccNotYetIn, Busy
  <2>3. AccOwnsFd' /\ AccChecked' /\ AccFilledIn' /\ EntriesComplete'
    BY <1>2, <2>1 DEF AccOwnsFd, AccChecked, AccFilledIn, EntriesComplete, Busy, At
  <2> QED BY <2>2, <2>3
<1>5. CASE ~full
  <2>1. /\ fdt' = [fdt EXCEPT ![f] = c]
        /\ fdOf' = [fdOf EXCEPT ![c] = g]
        /\ acc' = [pc |-> "challenge", c |-> c, fd |-> f]
    BY <1>1, <1>5
  <2>2. FreshOutside' /\ OffNotPending' /\ AccNotYetIn'
    BY <1>1, <1>2, <1>3, <2>1 DEF FreshOutside, OffNotPending, AccNotYetIn, Busy
  <2>3. AccOwnsFd' /\ AccChecked' /\ AccFilledIn'
    BY <2>1 DEF AccOwnsFd, AccChecked, AccFilledIn, Busy, At, TypeOK
  <2>4. \A d \in Conns : d # c => fdOf'[d] = fdOf[d]
    BY <2>1 DEF TypeOK
  <2>5. \A t \in Threads : table[t] \subseteq Conns \ {c}
    BY <1>3 DEF TypeOK
  <2>6. EntriesComplete'
    BY <1>2, <2>4, <2>5 DEF EntriesComplete
  <2> QED BY <2>2, <2>3, <2>6
<1> QED BY <1>4, <1>5

LEMMA RegisterEntries ==
  ASSUME EntryInv, TypeOK', Register
  PROVE  EntryInv'
<1> USE DEF EntryInv
<1> DEFINE t == num_thread
<1>1. /\ acc.pc = "register" /\ Busy /\ acc' = AccIdle
      /\ UNCHANGED <<peer, backlog, fdt, fdOf, nameOf>>
  BY DEF Register, Busy, clientVars, netVars, fdVars
<1>2. acc.c \in Conns /\ acc.fd \in Fds /\ t \in Threads
  BY <1>1 DEF TypeOK, AccState
<1>3. \A u \in Threads :
        table'[u] \subseteq IF u = t THEN table[u] \cup {acc.c} ELSE table[u]
  <2>1. PICK lost : table' = [table EXCEPT ![t] = (table[t] \cup {acc.c}) \ lost]
    BY DEF Register
  <2> QED BY <2>1 DEF TypeOK
<1>4. ~Busy' /\ AccOwnsFd' /\ AccChecked' /\ AccFilledIn' /\ AccNotYetIn'
  BY <1>1 DEF AccIdle, Busy, AccOwnsFd, AccChecked, AccFilledIn, AccNotYetIn
<1>5. FreshOutside' /\ OffNotPending'
  BY <1>1, <1>3, <1>4 DEF FreshOutside, OffNotPending
<1>6. EntriesComplete'
  <2>1. fdOf[acc.c] \in Fds /\ nameOf[acc.c] = UserOf[acc.c] /\ acc.c \notin BadKeys
    BY <1>1, <1>2 DEF AccFilledIn, AccChecked
  <2>2. \A u \in Threads : acc.c \notin table[u]
    BY <1>1 DEF AccNotYetIn
  <2> HIDE DEF t
  <2> QED BY <1>1, <1>3, <2>1, <2>2 DEF EntriesComplete
<1> QED BY <1>4, <1>5, <1>6

LEMMA MainEntries ==
  ASSUME EntryInv, TypeOK', Main
  PROVE  EntryInv'
<1> USE DEF EntryInv
<1>1. CASE Accept
  BY <1>1, AcceptEntries
<1>2. CASE SendChallenge
  <2>1. Busy /\ UNCHANGED <<peer, backlog, table, fdOf, nameOf>>
    BY <1>2 DEF SendChallenge, Busy, clientVars, dirVars
  <2>2. CASE AccGoto("answer") /\ UNCHANGED fdVars
    <3>1. acc'.pc = "answer" /\ acc'.c = acc.c /\ acc'.fd = acc.fd
      BY <2>2, AccGotoEntries
    <3>2. AccChecked' /\ AccFilledIn' /\ EntriesComplete'
      BY <2>1, <3>1 DEF AccChecked, AccFilledIn, EntriesComplete
    <3> QED BY <2>1, <2>2, <3>1, <3>2, AccStepEntries DEF fdVars
  <2> QED BY <1>2, <2>1, <2>2, HangUpEntries DEF SendChallenge
<1>3. CASE RecvAnswer
  <2>1. Busy /\ UNCHANGED <<peer, backlog, table, fdOf, nameOf>>
    BY <1>3 DEF RecvAnswer, Busy, clientVars, dirVars
  <2>2. ASSUME NEW pc, AccGoto(pc), UNCHANGED fdVars, At(acc.fd) \in Conns,
               pc = IF Verified(At(acc.fd)) THEN "authorise" ELSE "refuse"
        PROVE  EntryInv'
    <3>1. acc'.pc = pc /\ acc'.c = acc.c /\ acc'.fd = acc.fd
      BY <2>2, AccGotoEntries
    <3>2. At(acc.fd) = acc.c
      BY <2>1, <2>2, ConstantsAssumption DEF AccOwnsFd
    <3>3. AccChecked' /\ AccFilledIn' /\ EntriesComplete'
      BY <2>1, <2>2, <3>1, <3>2
         DEF AccChecked, AccFilledIn, EntriesComplete, Verified
    <3> QED BY <2>1, <2>2, <3>1, <3>3, AccStepEntries DEF fdVars
  <2> QED BY <1>3, <2>1, <2>2, HangUpEntries DEF RecvAnswer
<1>4. CASE Refuse
  <2>1. Busy /\ HangUp /\ UNCHANGED <<peer, backlog, table, fdOf, nameOf>>
    BY <1>4 DEF Refuse, Busy, clientVars, dirVars
  <2> QED BY <2>1, HangUpEntries
<1>5. CASE Authorise
  <2>1. Busy /\ UNCHANGED <<peer, backlog, table, fdOf, nameOf>>
    BY <1>5 DEF Authorise, Busy, clientVars, dirVars
  <2>2. acc'.pc = "epoll" /\ acc'.c = acc.c /\ acc'.fd = acc.fd
    BY <1>5, AccGotoEntries DEF Authorise
  <2>3. \A f \in Fds : fdt'[f] \in {fdt[f], NoConn}
    BY <1>5, CloseFdEntries DEF Authorise, fdVars
  <2>4. AccChecked' /\ AccFilledIn' /\ EntriesComplete'
    BY <1>5, <2>1, <2>2 DEF Authorise, AccChecked, AccFilledIn, EntriesComplete
  <2> QED BY <2>1, <2>2, <2>3, <2>4, AccStepEntries
<1>6. CASE EpollAdd
  <2>1. Busy /\ UNCHANGED <<peer, backlog, table, fdOf, nameOf, fdt>>
    BY <1>6 DEF EpollAdd, Busy, clientVars, dirVars, netVars
  <2>2. CASE acc' = AccIdle
    <3>1. AccChecked' /\ AccFilledIn' /\ EntriesComplete'
      BY <2>1, <2>2 DEF AccIdle, AccChecked, AccFilledIn, EntriesComplete
    <3> QED BY <2>1, <2>2, <3>1, AccStepEntries
  <2>3. CASE AccGoto("setfd")
    <3>1. acc'.pc = "setfd" /\ acc'.c = acc.c /\ acc'.fd = acc.fd
      BY <2>3, AccGotoEntries
    <3>2. AccChecked' /\ AccFilledIn' /\ EntriesComplete'
      BY <1>6, <2>1, <3>1 DEF EpollAdd, AccChecked, AccFilledIn, EntriesComplete
    <3> QED BY <2>1, <3>1, <3>2, AccStepEntries
  <2> QED BY <1>6, <2>2, <2>3 DEF EpollAdd
<1>7. CASE SetFd \/ SetName
  <2>1. Busy /\ UNCHANGED <<peer, backlog, table, fdt>>
    BY <1>7 DEF SetFd, SetName, Busy, clientVars, netVars, fdVars
  <2>2. acc'.c = acc.c /\ acc'.fd = acc.fd
        /\ acc'.pc = IF acc.pc = "setfd" THEN "setname" ELSE "register"
    BY <1>7, AccGotoEntries DEF SetFd, SetName
  <2>3. acc.c \in Conns
    BY <2>1 DEF TypeOK, AccState, Busy
  <2>4. AccChecked' /\ AccFilledIn'
    BY <1>7, <2>2, <2>3 DEF SetFd, SetName, AccChecked, AccFilledIn, TypeOK
  <2>5. \A d \in Conns : d # acc.c => fdOf'[d] = fdOf[d] /\ nameOf'[d] = nameOf[d]
    BY <1>7 DEF SetFd, SetName, TypeOK
  <2>6. \A t \in Threads : table[t] \subseteq Conns \ {acc.c}
    BY <2>1 DEF AccNotYetIn, TypeOK
  <2>7. EntriesComplete'
    BY <2>1, <2>5, <2>6 DEF EntriesComplete
  <2> QED BY <2>1, <2>2, <2>4, <2>7, AccStepEntries
<1>8. CASE Register
  BY <1>8, RegisterEntries
<1> QED BY <1>1, <1>2, <1>3, <1>4, <1>5, <1>6, <1>7, <1>8 DEF Main

LEMMA InitEntries == Init => EntryInv
<1> SUFFICES ASSUME Init PROVE EntryInv
  OBVIOUS
<1>1. ~Busy /\ AccChecked /\ AccFilledIn
  BY DEF Init, AccIdle, Busy, AccChecked, AccFilledIn
<1>2. FreshOutside /\ OffNotPending /\ EntriesComplete
  BY <1>1 DEF Init, FreshOutside, OffNotPending, EntriesComplete
<1> QED BY <1>1, <1>2, InitType DEF EntryInv, AccOwnsFd, AccNotYetIn

LEMMA StepEntries == EntryInv /\ [Next]_vars => EntryInv'
<1> SUFFICES ASSUME EntryInv, [Next]_vars PROVE EntryInv'
  OBVIOUS
<1>1. TypeOK'
  BY StepType DEF EntryInv
<1>2. CASE UNCHANGED vars
  <2>1. UNCHANGED <<fdOf, nameOf, backlog, acc, table, peer, fdt>>
    BY <1>2 DEF vars, clientVars, netVars, fdVars, dirVars
  <2> QED BY <1>1, <2>1, QuietEntries
<1>3. CASE Next
  BY <1>1, <1>3, MainEntries, WorkerEntries, ClientEntries DEF Next
<1> QED BY <1>2, <1>3

\* Whatever connection a worker can look up has answered its challenge with the
\* key of the name it is filed under, is completely filled in, and is filed
\* with one worker only, even if descriptors are closed under the accept thread.
THEOREM EntriesCorrect == Spec => []EntriesComplete
<1>1. EntryInv => EntriesComplete
  BY DEF EntryInv
<1> QED BY <1>1, InitEntries, StepEntries, PTL DEF Spec

----------------------------------------------------------------------------
(* Descriptors.                                                            *)

\* A descriptor is of a connection that was accepted, and of one only.
FdsAccepted ==
  \A f \in Fds : fdt[f] # NoConn => peer[fdt[f]] # "off" /\ fdt[f] \notin backlog
FdsDistinct ==
  \A f, g \in Fds : fdt[f] = fdt[g] /\ fdt[f] # NoConn => f = g

\* The accept thread's client has at most the descriptor the thread knows, is
\* watched by nobody until epoll_ctl, and is watched from then on while open.
AccOnlyFd == Busy => \A f \in Fds : fdt[f] = acc.c => f = acc.fd
AccUnwatched ==
  acc.pc \in {"challenge", "answer", "refuse", "authorise", "epoll"}
    => \A t \in Threads : acc.c \notin interest[t]
AccWatched ==
  acc.pc \in {"setfd", "setname", "register"}
    => \A f \in Fds : fdt[f] = acc.c => \E t \in Threads : acc.c \in interest[t]

OwnerInv == /\ EntryInv
            /\ FdsAccepted
            /\ FdsDistinct
            /\ AccOnlyFd
            /\ AccUnwatched
            /\ AccWatched
            /\ DescriptorsOwned

\* A step that opens and closes nothing.
LEMMA QuietOwners ==
  ASSUME OwnerInv, EntryInv', UNCHANGED <<fdt, interest, acc>>,
         \A c \in Conns : peer'[c] = "off" => peer[c] = "off",
         \A c \in backlog' : c \in backlog \/ peer[c] = "off"
  PROVE  OwnerInv'
<1>1. FdsAccepted'
  BY DEF OwnerInv, FdsAccepted, EntryInv, TypeOK
<1>2. FdsDistinct' /\ AccOnlyFd' /\ AccUnwatched' /\ AccWatched'
  BY DEF OwnerInv, FdsDistinct, AccOnlyFd, AccUnwatched, AccWatched, Busy
<1>3. DescriptorsOwned'
  BY DEF OwnerInv, DescriptorsOwned
<1> QED BY <1>1, <1>2, <1>3 DEF OwnerInv

\* What close does to the two tables of the kernel: only the connection of the
\* descriptor, which has no other, is no longer open and no longer watched.
LEMMA CloseFdOwners ==
  ASSUME OwnerInv, NEW f, CloseFd(f)
  PROVE  /\ \A g \in Fds : fdt'[g] = IF g = f THEN NoConn ELSE fdt[g]
         /\ \A t \in Threads : interest'[t] = interest[t] \ {At(f)}
         /\ \A g \in Fds : fdt'[g] # NoConn => g # f /\ fdt[g] # At(f)
<1>1. \A g \in Fds : fdt'[g] = IF g = f THEN NoConn ELSE fdt[g]
  BY DEF CloseFd
<1>2. \A t \in Threads : interest'[t] = interest[t] \ {At(f)}
  BY DEF CloseFd
<1>3. ASSUME NEW g \in Fds, fdt'[g] # NoConn
      PROVE  g # f /\ fdt[g] # At(f)
  BY <1>1, <1>3 DEF OwnerInv, FdsDistinct, At
<1> QED BY <1>1, <1>2, <1>3

\* close, on whatever descriptor and on whoever's behalf, unless it is the
\* accept thread giving up its client.
LEMMA CloseOwners ==
  ASSUME OwnerInv, EntryInv', NEW f, CloseFd(f), UNCHANGED <<peer, backlog>>,
         \/ UNCHANGED acc
         \/ acc' = AccIdle /\ f = acc.fd /\ Busy
         \/ /\ acc.pc = "authorise" /\ acc'.pc = "epoll"
            /\ acc'.c = acc.c /\ acc'.fd = acc.fd
  PROVE  OwnerInv'
<1>1. /\ \A g \in Fds : fdt'[g] = IF g = f THEN NoConn ELSE fdt[g]
      /\ \A t \in Threads : interest'[t] = interest[t] \ {At(f)}
      /\ \A g \in Fds : fdt'[g] # NoConn => g # f /\ fdt[g] # At(f)
  BY CloseFdOwners
<1>2. acc' = AccIdle => ~Busy'
  BY DEF AccIdle, Busy
<1>3. FdsAccepted' /\ FdsDistinct'
  BY <1>1 DEF OwnerInv, FdsAccepted, FdsDistinct
<1>4. Busy' => Busy /\ acc'.c = acc.c /\ acc'.fd = acc.fd /\ acc.c \in Conns
  BY <1>2 DEF Busy, OwnerInv, EntryInv, TypeOK, AccState
<1>5. AccOnlyFd'
  BY <1>1, <1>4, ConstantsAssumption DEF OwnerInv, AccOnlyFd
<1>6. AccUnwatched'
  BY <1>1, <1>2 DEF OwnerInv, AccUnwatched, Busy
<1>7. AccWatched'
  <2> SUFFICES ASSUME acc'.pc \in {"setfd", "setname", "register"},
                      NEW g \in Fds, fdt'[g] = acc.c
               PROVE  \E t \in Threads : acc.c \in interest'[t]
    BY <1>2, <1>4 DEF AccWatched, Busy
  <2>1. UNCHANGED acc
    BY <1>2 DEF Busy
  <2>2. acc.c \in Conns
    BY <1>4, <2>1 DEF Busy
  <2>3. fdt[g] = acc.c /\ acc.c # At(f)
    BY <1>1, <2>2, ConstantsAssumption
  <2> QED BY <1>1, <2>1, <2>3 DEF OwnerInv, AccWatched
<1>8. DescriptorsOwned'
  <2>1. ASSUME NEW g \in Fds, fdt'[g] # NoConn
        PROVE  \/ acc'.pc # "idle" /\ acc'.c = fdt'[g]
               \/ \E t \in Threads : fdt'[g] \in interest'[t]
    <3>1. g # f /\ fdt[g] # At(f) /\ fdt'[g] = fdt[g]
      BY <1>1, <2>1
    <3>2. CASE \E t \in Threads : fdt[g] \in interest[t]
      BY <1>1, <3>1, <3>2
    <3>3. CASE acc.pc # "idle" /\ acc.c = fdt[g]
      <4>1. g = acc.fd
        BY <3>3 DEF OwnerInv, AccOnlyFd, Busy
      <4> QED BY <3>1, <3>3, <4>1 
    <3> QED BY <2>1, <3>1, <3>2, <3>3 DEF OwnerInv, DescriptorsOwned
  <2>2. ASSUME NEW t \in Threads, NEW c \in interest'[t]
        PROVE  /\ \E g \in Fds : fdt'[g] = c
               /\ \A u \in Threads \ {t} : c \notin interest'[u]
    <3>1. c \in interest[t] /\ c # At(f)
      BY <1>1, <2>2
    <3>2. PICK g \in Fds : fdt[g] = c
      BY <3>1 DEF OwnerInv, DescriptorsOwned
    <3>3. g # f
      BY <3>1, <3>2 DEF At
    <3>4. \A u \in Threads \ {t} : c \notin interest[u]
      BY <3>1 DEF OwnerInv, DescriptorsOwned
    <3> QED BY <1>1, <3>2, <3>3, <3>4
  <2> QED BY <2>1, <2>2 DEF DescriptorsOwned
<1> QED BY <1>3, <1>5, <1>6, <1>7, <1>8 DEF OwnerInv

\* What no step of a worker touches.
LEMMA WorkerFrame ==
  ASSUME NEW t \in Threads, Worker(t)
  PROVE  UNCHANGED <<backlog, acc, fdOf, nameOf, num_thread>>
  BY DEF Worker, EpollWait, NextEvent, RecvHeader, RecvPayload, SendError,
         CloseClient, Unregister, Rehashed, Lookup, RelayHeader, RelayPayload,
         Relay, dirVars, netVars

\* A receive makes no client unborn.
LEMMA WorkerPeers ==
  ASSUME TypeOK, NEW t \in Threads, Worker(t)
  PROVE  \A c \in Conns : peer'[c] = "off" => peer[c] = "off"
<1>1. CASE \E s : peer' = [peer EXCEPT ![s] = "closed"]
  BY <1>1 DEF TypeOK
<1>2. CASE UNCHANGED peer
  BY <1>2
<1>3. RecvHeader(t) \/ RecvPayload(t)
        => UNCHANGED peer \/ \E s : peer' = [peer EXCEPT ![s] = "closed"]
  BY DEF RecvHeader, RecvPayload
<1> QED BY <1>1, <1>2, <1>3 DEF Worker, EpollWait, NextEvent, SendError,
           CloseClient, Unregister, Rehashed, Lookup, RelayHeader, RelayPayload,
           Relay, clientVars

LEMMA WorkerOwners ==
  ASSUME OwnerInv, EntryInv', NEW t \in Threads, Worker(t)
  PROVE  OwnerInv'
<1>1. UNCHANGED <<backlog, acc>>
  BY WorkerFrame
<1>2. \A c \in Conns : peer'[c] = "off" => peer[c] = "off"
  BY WorkerPeers DEF OwnerInv, EntryInv
<1>3. CASE UNCHANGED fdVars
  BY <1>1, <1>2, <1>3, QuietOwners DEF fdVars
<1>4. ASSUME NEW f, CloseFd(f), UNCHANGED peer
      PROVE  OwnerInv'
  BY <1>1, <1>4, CloseOwners
<1>5. UNCHANGED fdVars \/ (UNCHANGED peer /\ \E f : CloseFd(f))
  BY DEF Worker, EpollWait, NextEvent, RecvHeader, RecvPayload, SendError,
         CloseClient, Unregister, Rehashed, Lookup, RelayHeader, RelayPayload,
         Relay, clientVars
<1> QED BY <1>3, <1>4, <1>5

LEMMA ClientOwners ==
  ASSUME OwnerInv, EntryInv', NEW c \in Conns, Client(c)
  PROVE  OwnerInv'
<1>1. UNCHANGED <<fdt, interest, acc>>
  BY DEF Client, Connect, Answer, SendMessageHeader, SendMessagePayload, Leave,
         fdVars
<1>2. \A d \in Conns : peer'[d] = "off" => peer[d] = "off"
  BY DEF Client, Connect, Answer, SendMessageHeader, SendMessagePayload, Leave,
         OwnerInv, EntryInv, TypeOK
<1>3. \A d \in backlog' : d \in backlog \/ peer[d] = "off"
  BY DEF Client, Connect, Answer, SendMessageHeader, SendMessagePayload, Leave,
         netVars
<1> QED BY <1>1, <1>2, <1>3, QuietOwners

\* accept gives out a free descriptor, to a connection that had none.
LEMMA AcceptOwners ==
  ASSUME OwnerInv, EntryInv', Accept
  PROVE  OwnerInv'
<1>1. PICK c \in backlog, full \in BOOLEAN, f \in Fds, g \in Garbage :
        /\ LowestFree(f)
        /\ backlog' = backlog \ {c}
        /\ IF full
           THEN UNCHANGED <<fdt, fdOf, acc>>
           ELSE /\ fdt' = [fdt EXCEPT ![f] = c]
                /\ fdOf' = [fdOf EXCEPT ![c] = g]
                /\ acc' = [pc |-> "challenge", c |-> c, fd |-> f]
  BY DEF Accept
<1>2. /\ c \in Conns /\ fdt[f] = NoConn /\ acc.pc = "idle"
      /\ UNCHANGED <<peer, interest>>
  BY <1>1 DEF Accept, LowestFree, clientVars, OwnerInv, EntryInv, TypeOK
<1>3. \A h \in Fds : fdt[h] # c
  BY <1>1, <1>2, ConstantsAssumption DEF OwnerInv, FdsAccepted
<1>4. CASE full
  BY <1>1, <1>2, <1>4, QuietOwners
<1>5. CASE ~full
  <2>1. /\ \A h \in Fds : fdt'[h] = IF h = f THEN c ELSE fdt[h]
        /\ acc'.pc = "challenge" /\ acc'.c = c /\ acc'.fd = f
    BY <1>1, <1>5 DEF OwnerInv, EntryInv, TypeOK
  <2>2. FdsAccepted'
    BY <1>1, <1>2, <2>1 DEF OwnerInv, FdsAccepted, EntryInv, OffNotPending
  <2>3. FdsDistinct' /\ AccOnlyFd' /\ AccWatched'
    BY <1>3, <2>1 DEF OwnerInv, FdsDistinct, AccOnlyFd, AccWatched
  <2>4. AccUnwatched'
    BY <1>2, <1>3, <2>1 DEF OwnerInv, AccUnwatched, DescriptorsOwned
  <2>5. DescriptorsOwned'
    <3>1. \A h \in Fds : fdt[h] # NoConn => \E t \in Threads : fdt[h] \in interest[t]
      BY <1>2 DEF OwnerInv, DescriptorsOwned
    <3>2. ASSUME NEW t \in Threads, NEW d \in interest[t]
          PROVE  \E h \in Fds : fdt'[h] = d
      <4>1. PICK h \in Fds : fdt[h] = d
        BY <3>2 DEF OwnerInv, DescriptorsOwned
      <4>2. d # NoConn
        BY <3>2, ConstantsAssumption DEF OwnerInv, EntryInv, TypeOK
      <4> QED BY <1>2, <2>1, <4>1, <4>2
    <3> QED BY <1>2, <2>1, <3>1, <3>2 DEF OwnerInv, DescriptorsOwned
  <2> QED BY <2>2, <2>3, <2>4, <2>5 DEF OwnerInv
<1> QED BY <1>4, <1>5

\* epoll_ctl ADD gives the client to one worker, or finds that a worker has
\* closed its descriptor already.
LEMMA EpollAddOwners ==
  ASSUME OwnerInv, EntryInv', EpollAdd
  PROVE  OwnerInv'
<1>1. /\ acc.pc = "epoll" /\ acc.c \in Conns /\ num_thread \in Threads
      /\ UNCHANGED <<peer, backlog, fdt>>
  BY DEF EpollAdd, clientVars, netVars, OwnerInv, EntryInv, TypeOK, AccState
<1>2. \A t \in Threads : acc.c \notin interest[t]
  BY <1>1 DEF OwnerInv, AccUnwatched
<1>3. FdsAccepted' /\ FdsDistinct'
  BY <1>1 DEF OwnerInv, FdsAccepted, FdsDistinct
<1>4. \A f \in Fds : fdt[f] = acc.c => f = acc.fd
  BY <1>1 DEF OwnerInv, AccOnlyFd, Busy
<1>5. CASE At(acc.fd) = NoConn /\ acc' = AccIdle /\ UNCHANGED interest
  <2>1. ~Busy'
    BY <1>5 DEF AccIdle, Busy
  <2>2. \A f \in Fds : fdt[f] # acc.c
    BY <1>1, <1>4, <1>5, ConstantsAssumption DEF At
  <2>3. AccOnlyFd' /\ AccUnwatched' /\ AccWatched'
    BY <2>1 DEF AccOnlyFd, AccUnwatched, AccWatched, Busy
  <2>4. DescriptorsOwned'
    BY <1>1, <1>5, <2>2 DEF OwnerInv, DescriptorsOwned
  <2> QED BY <1>3, <2>3, <2>4 DEF OwnerInv
<1>6. CASE At(acc.fd) # NoConn /\ Watch(acc.c) /\ AccGoto("setfd")
  <2>1. acc'.pc = "setfd" /\ acc'.c = acc.c /\ acc'.fd = acc.fd
    BY <1>6, AccGotoEntries DEF OwnerInv, EntryInv
  <2>2. At(acc.fd) = acc.c /\ acc.fd \in Fds
    BY <1>1, <1>6 DEF OwnerInv, EntryInv, AccOwnsFd, Busy, TypeOK, AccState
  <2>3. \A t \in Threads : interest'[t] = IF t = num_thread
                                          THEN interest[t] \cup {acc.c}
                                          ELSE interest[t]
    BY <1>6 DEF Watch, OwnerInv, EntryInv, TypeOK
  <2>4. AccOnlyFd' /\ AccUnwatched' /\ AccWatched'
    BY <1>1, <1>4, <2>1, <2>3 DEF AccOnlyFd, AccUnwatched, AccWatched
  <2>5. DescriptorsOwned'
    <3>1. \A f \in Fds : fdt[f] # NoConn => \E t \in Threads : fdt[f] \in interest'[t]
      BY <1>1, <2>3 DEF OwnerInv, DescriptorsOwned
    <3>2. fdt[acc.fd] = acc.c
      BY <2>2 DEF At
    <3>3. ASSUME NEW t \in Threads, NEW c \in interest'[t]
          PROVE  /\ \E f \in Fds : fdt[f] = c
                 /\ \A u \in Threads \ {t} : c \notin interest'[u]
      <4>1. CASE c = acc.c
        BY <1>2, <2>2, <2>3, <3>2, <3>3, <4>1
      <4>2. CASE c # acc.c
        <5>1. \A u \in Threads : c \in interest'[u] => c \in interest[u]
          BY <2>3, <4>2
        <5>2. c \in interest[t]
          BY <3>3, <5>1
        <5>3. /\ \E f \in Fds : fdt[f] = c
              /\ \A u \in Threads \ {t} : c \notin interest[u]
          BY <5>2 DEF OwnerInv, DescriptorsOwned
        <5> QED BY <5>1, <5>3
      <4> QED BY <4>1, <4>2
    <3> QED BY <1>1, <3>1, <3>3 DEF DescriptorsOwned
  <2> QED BY <1>3, <2>4, <2>5 DEF OwnerInv
<1> QED BY <1>5, <1>6 DEF EpollAdd

\* A step of the accept thread on its client that opens and closes nothing.
LEMMA AccStepOwners ==
  ASSUME OwnerInv, EntryInv', UNCHANGED <<fdt, interest, peer, backlog>>, Busy,
         acc'.c = acc.c, acc'.fd = acc.fd,
         \/ /\ acc.pc \in {"challenge", "answer"}
            /\ acc'.pc \in {"answer", "refuse", "authorise"}
         \/ acc.pc = "authorise" /\ acc'.pc = "epoll"
         \/ acc.pc \in {"setfd", "setname"} /\ acc'.pc \in {"setname", "register"}
  PROVE  OwnerInv'
<1>1. FdsAccepted' /\ FdsDistinct'
  BY DEF OwnerInv, FdsAccepted, FdsDistinct
<1>2. AccOnlyFd' /\ AccUnwatched' /\ AccWatched'
  BY DEF OwnerInv, AccOnlyFd, AccUnwatched, AccWatched, Busy
<1>3. DescriptorsOwned'
  BY DEF OwnerInv, DescriptorsOwned, Busy
<1> QED BY <1>1, <1>2, <1>3 DEF OwnerInv

LEMMA MainOwners ==
  ASSUME OwnerInv, EntryInv', Main
  PROVE  OwnerInv'
<1>1. ASSUME Busy, HangUp, UNCHANGED <<peer, backlog>>
      PROVE  OwnerInv'
  BY <1>1, CloseOwners DEF HangUp
<1>2. ASSUME NEW pc, AccGoto(pc)
      PROVE  acc'.pc = pc /\ acc'.c = acc.c /\ acc'.fd = acc.fd
  BY <1>2, AccGotoEntries DEF OwnerInv, EntryInv
<1>3. CASE Accept
  BY <1>3, AcceptOwners
<1>4. CASE SendChallenge
  <2>1. acc.pc = "challenge" /\ Busy /\ UNCHANGED <<peer, backlog>>
    BY <1>4 DEF SendChallenge, Busy, clientVars
  <2>2. CASE AccGoto("answer") /\ UNCHANGED fdVars
    BY <1>2, <2>1, <2>2, AccStepOwners DEF fdVars
  <2> QED BY <1>1, <1>4, <2>1, <2>2 DEF SendChallenge
<1>5. CASE RecvAnswer
  <2>1. acc.pc = "answer" /\ Busy /\ UNCHANGED <<peer, backlog>>
    BY <1>5 DEF RecvAnswer, Busy, clientVars
  <2>2. ASSUME NEW pc \in {"authorise", "refuse"}, AccGoto(pc), UNCHANGED fdVars
        PROVE  OwnerInv'
    BY <1>2, <2>1, <2>2, AccStepOwners DEF fdVars
  <2> QED BY <1>1, <1>5, <2>1, <2>2 DEF RecvAnswer
<1>6. CASE Refuse
  <2>1. Busy /\ HangUp /\ UNCHANGED <<peer, backlog>>
    BY <1>6 DEF Refuse, Busy, clientVars
  <2> QED BY <1>1, <2>1
<1>7. CASE Authorise
  <2>1. /\ acc.pc = "authorise" /\ Busy /\ UNCHANGED <<peer, backlog>>
        /\ acc'.pc = "epoll" /\ acc'.c = acc.c /\ acc'.fd = acc.fd
    BY <1>2, <1>7 DEF Authorise, Busy, clientVars
  <2>2. CASE UNCHANGED fdVars
    BY <2>1, <2>2, AccStepOwners DEF fdVars
  <2>3. CASE CloseFd(acc.fd)
    BY <2>1, <2>3, CloseOwners
  <2> QED BY <1>7, <2>2, <2>3 DEF Authorise
<1>8. CASE EpollAdd
  BY <1>8, EpollAddOwners
<1>9. CASE SetFd \/ SetName
  <2>1. /\ acc.pc \in {"setfd", "setname"} /\ Busy
        /\ acc'.pc \in {"setname", "register"} /\ acc'.c = acc.c /\ acc'.fd = acc.fd
        /\ UNCHANGED <<peer, backlog, fdt, interest>>
    BY <1>2, <1>9 DEF SetFd, SetName, Busy, clientVars, netVars, fdVars
  <2> QED BY <2>1, AccStepOwners
<1>10. CASE Register
  <2>1. /\ acc.pc = "register" /\ acc' = AccIdle
        /\ UNCHANGED <<peer, backlog, fdt, interest>>
    BY <1>10 DEF Register, clientVars, netVars, fdVars
  <2>2. ~Busy'
    BY <2>1 DEF AccIdle, Busy
  <2>3. FdsAccepted' /\ FdsDistinct' /\ AccOnlyFd' /\ AccUnwatched' /\ AccWatched'
    BY <2>1, <2>2 DEF OwnerInv, FdsAccepted, FdsDistinct, AccOnlyFd, AccUnwatched,
                      AccWatched, Busy
  <2>4. DescriptorsOwned'
    BY <2>1 DEF OwnerInv, DescriptorsOwned, AccWatched
  <2> QED BY <2>3, <2>4 DEF OwnerInv
<1> QED BY <1>3, <1>4, <1>5, <1>6, <1>7, <1>8, <1>9, <1>10 DEF Main

LEMMA InitOwners == Init => OwnerInv
<1> SUFFICES ASSUME Init PROVE OwnerInv
  OBVIOUS
<1>1. FdsAccepted /\ FdsDistinct /\ AccOnlyFd /\ AccUnwatched /\ AccWatched
  BY DEF Init, AccIdle, Busy, FdsAccepted, FdsDistinct, AccOnlyFd, AccUnwatched,
         AccWatched
<1>2. DescriptorsOwned
  BY DEF Init, DescriptorsOwned
<1> QED BY <1>1, <1>2, InitEntries DEF OwnerInv

LEMMA StepOwners == OwnerInv /\ [Next]_vars => OwnerInv'
<1> SUFFICES ASSUME OwnerInv, [Next]_vars PROVE OwnerInv'
  OBVIOUS
<1>1. EntryInv'
  BY StepEntries DEF OwnerInv
<1>2. CASE UNCHANGED vars
  BY <1>1, <1>2, QuietOwners DEF vars, clientVars, netVars, fdVars
<1> QED BY <1>1, <1>2, MainOwners, WorkerOwners, ClientOwners DEF Next

\* No descriptor leaks and none has two workers, on every error path of zmr.c:
\* an open descriptor is the accept thread's or watched by exactly one worker,
\* and a watched connection has its descriptor, however many are opened and closed.
THEOREM OwnersCorrect == Spec => []DescriptorsOwned
<1>1. OwnerInv => DescriptorsOwned
  BY DEF OwnerInv
<1> QED BY <1>1, InitOwners, StepOwners, PTL DEF Spec

----------------------------------------------------------------------------
(* How a worker moves.                                                     *)

LEMMA GotoState ==
  ASSUME TypeOK, NEW t \in Threads, NEW pc, Goto(t, pc)
  PROVE  /\ wk'[t].pc = pc
         /\ wk'[t].batch = wk[t].batch /\ wk'[t].cl = wk[t].cl
         /\ wk'[t].fd = wk[t].fd /\ wk'[t].msg = wk[t].msg
         /\ wk'[t].dst = wk[t].dst /\ wk'[t].dfd = wk[t].dfd
<1>1. wk[t] \in WkState /\ wk'[t] = [wk[t] EXCEPT !.pc = pc]
  BY DEF TypeOK, Goto
<1> QED BY <1>1 DEF WkState

LEMMA DoneState ==
  ASSUME TypeOK, NEW t \in Threads, Done(t)
  PROVE  wk'[t] = WkIdle(wk[t].batch)
  BY DEF TypeOK, Done

LEMMA OtherWorkers ==
  ASSUME TypeOK, NEW t \in Threads, Worker(t)
  PROVE  \A u \in Threads \ {t} : wk'[u] = wk[u]
  BY DEF Worker, EpollWait, NextEvent, RecvHeader, RecvPayload, SendError, CloseClient,
         Unregister, Rehashed, Lookup, RelayHeader, RelayPayload, Relay, Goto, Done,
         TypeOK

\* The steps by which a worker deals with the end of its client.
Parting == {"errorEof", "close", "unregister", "rehash"}

\* A header or a payload read: only an end of file leads there.
LEMMA RecvParting ==
  ASSUME TypeOK, NEW t \in Threads, RecvHeader(t) \/ RecvPayload(t),
         wk'[t].pc \in Parting
  PROVE  /\ Ended(At(wk[t].fd), {"closed"})
         /\ Misuse(Stale("recv", wk[t].fd, wk[t].cl))
         /\ wk'[t].cl = wk[t].cl
<1>1. wk[t] \in WkState
  BY DEF TypeOK
<1>2. ~Done(t) /\ ~Goto(t, "error") /\ ~Goto(t, "garbled") /\ ~Goto(t, "lookup")
  BY DoneAt, GotoState DEF Parting
<1>3. CASE RecvHeader(t)
  <2>1. ASSUME NEW m, NEW pc \in {"error", "payload"},
               wk' = [wk EXCEPT ![t].pc = pc, ![t].msg = m]
        PROVE  FALSE
    <3>1. wk'[t].pc = pc
      BY <1>1, <2>1 DEF TypeOK, WkState
    <3> QED BY <3>1 DEF Parting
  <2>2. \A m : wk' # [wk EXCEPT ![t].pc = IF m.kind = "long" THEN "error" ELSE "payload",
                                ![t].msg = m]
    BY <2>1
  <2>3. Ended(At(wk[t].fd), {"closed"}) /\ Goto(t, "close")
    BY <1>2, <1>3, <2>2 DEF RecvHeader
  <2> QED BY <1>3, <2>3, GotoState DEF RecvHeader
<1>4. CASE RecvPayload(t)
  <2>1. Ended(At(wk[t].fd), {"closed"}) /\ Goto(t, "errorEof")
    BY <1>2, <1>4 DEF RecvPayload
  <2> QED BY <1>4, <2>1, GotoState DEF RecvPayload
<1> QED BY <1>3, <1>4

\* Any step: it goes on with a client that had ended, or sees one end.
LEMMA WorkerParting ==
  ASSUME TypeOK, NEW t \in Threads, Worker(t), wk'[t].pc \in Parting
  PROVE  /\ wk'[t].cl = wk[t].cl
         /\ \/ wk[t].pc \in {"errorEof", "close", "unregister"}
            \/ /\ Ended(At(wk[t].fd), {"closed"})
               /\ Misuse(Stale("recv", wk[t].fd, wk[t].cl))
<1>1. wk[t] \in WkState
  BY DEF TypeOK
<1>2. CASE RecvHeader(t) \/ RecvPayload(t)
  BY <1>2, RecvParting
<1>3. ~Done(t) /\ \A pc : Goto(t, pc) => wk'[t].cl = wk[t].cl /\ pc \in Parting
  BY DoneAt, GotoState DEF Parting
<1>4. CASE SendError(t)
  BY <1>3, <1>4 DEF SendError
<1>5. CASE CloseClient(t) \/ Unregister(t)
  BY <1>3, <1>5 DEF CloseClient, Unregister
<1>6. ~EpollWait(t) /\ ~NextEvent(t)
  <2>1. EpollWait(t) => wk'[t].pc = "idle"
    BY <1>1 DEF EpollWait, TypeOK, WkState
  <2>2. NextEvent(t) => wk'[t].pc = "header"
    BY DEF NextEvent, WkIdle, TypeOK
  <2> QED BY <2>1, <2>2 DEF Parting
<1>7. ~Rehashed(t) /\ ~RelayHeader(t) /\ ~RelayPayload(t)
  BY <1>3 DEF Rehashed, RelayHeader, RelayPayload, Relay, Parting
<1>8. ~Lookup(t)
  <2> SUFFICES ASSUME Lookup(t) PROVE FALSE
    OBVIOUS
  <2>1. ASSUME NEW d, wk' = [wk EXCEPT ![t].pc = "sendhdr", ![t].dst = d,
                                       ![t].dfd = fdOf[d]]
        PROVE  FALSE
    <3>1. wk'[t].pc = "sendhdr"
      BY <1>1, <2>1 DEF TypeOK, WkState
    <3> QED BY <3>1 DEF Parting
  <2>2. ASSUME NEW i, wk' = [wk EXCEPT ![t].scan = i], wk[t].pc = "lookup"
        PROVE  FALSE
    <3>1. wk'[t].pc = "lookup"
      BY <1>1, <2>2 DEF TypeOK, WkState
    <3> QED BY <3>1 DEF Parting
  <2> QED BY <1>3, <2>1, <2>2 DEF Lookup
<1> QED BY <1>2, <1>4, <1>5, <1>6, <1>7, <1>8 DEF Worker

\* A client that has left stays away.
LEMMA LeaversStay ==
  ASSUME TypeOK, Next
  PROVE  \A c \in Conns :
           peer[c] \in {"closed", "reset"} => peer'[c] \in {"closed", "reset"}
<1>1. CASE UNCHANGED peer
  BY <1>1
<1>2. CASE \E s : peer' = [peer EXCEPT ![s] = "closed"]
  BY <1>2 DEF TypeOK
<1>3. ASSUME NEW c \in Conns, Client(c)
      PROVE  \/ UNCHANGED peer
             \/ \E how : peer[c] \in {"off", "open"} /\ peer' = [peer EXCEPT ![c] = how]
  BY <1>3 DEF Client, Connect, Answer, SendMessageHeader, SendMessagePayload, Leave
<1>4. ASSUME NEW c \in Conns, NEW how, peer[c] \in {"off", "open"},
             peer' = [peer EXCEPT ![c] = how]
      PROVE  \A d \in Conns :
               peer[d] \in {"closed", "reset"} => peer'[d] \in {"closed", "reset"}
  BY <1>4 DEF TypeOK
<1>5. Main => UNCHANGED peer
  BY DEF Main, Accept, SendChallenge, RecvAnswer, Refuse, Authorise, EpollAdd, SetFd,
         SetName, Register, clientVars
<1>6. ASSUME NEW t \in Threads, Worker(t)
      PROVE  UNCHANGED peer \/ \E s : peer' = [peer EXCEPT ![s] = "closed"]
  BY <1>6 DEF Worker, EpollWait, NextEvent, RecvHeader, RecvPayload, SendError,
              CloseClient, Unregister, Rehashed, Lookup, RelayHeader, RelayPayload,
              Relay, clientVars
<1> QED BY <1>1, <1>2, <1>3, <1>4, <1>5, <1>6 DEF Next

----------------------------------------------------------------------------
(* Client tables.                                                          *)

\* Entries leave a table in one kind of step ...
LEMMA WorkerTables ==
  ASSUME NEW t \in Threads, Worker(t)
  PROVE  \/ UNCHANGED table
         \/ /\ wk[t].pc = "unregister" /\ Goto(t, "rehash")
            /\ UNCHANGED misuse
            /\ \E d \in Named(t, nameOf[wk[t].cl]) :
                 table' = [table EXCEPT ![t] = @ \ {d}]
<1>1. CASE Unregister(t)
  BY <1>1 DEF Unregister
<1>2. ~Unregister(t) => UNCHANGED table
  BY DEF Worker, EpollWait, NextEvent, RecvHeader, RecvPayload, SendError,
         CloseClient, Rehashed, Lookup, RelayHeader, RelayPayload, Relay, dirVars
<1> QED BY <1>1, <1>2

\* ... and come into one in another.
LEMMA MainTables == Main => UNCHANGED <<table, num_thread>> \/ Register
  BY DEF Main, Accept, SendChallenge, RecvAnswer, Refuse, Authorise, EpollAdd, SetFd,
         SetName, dirVars

LEMMA ClientTables ==
  ASSUME NEW c \in Conns, Client(c)
  PROVE  UNCHANGED <<fdVars, dirVars, num_thread, acc, wk, misuse>>
  BY DEF Client, Connect, Answer, SendMessageHeader, SendMessagePayload, Leave

LEMMA WorkerMisuse ==
  ASSUME NEW t \in Threads, Worker(t)
  PROVE  misuse \subseteq misuse'
<1>1. CASE EpollWait(t) \/ NextEvent(t) \/ RecvHeader(t) \/ RecvPayload(t) \/ SendError(t)
  BY <1>1 DEF EpollWait, NextEvent, RecvHeader, RecvPayload, SendError, Misuse
<1>2. CASE CloseClient(t) \/ Unregister(t) \/ Rehashed(t)
  BY <1>2 DEF CloseClient, Unregister, Rehashed, Misuse
<1>3. CASE Lookup(t) \/ RelayHeader(t) \/ RelayPayload(t)
  BY <1>3 DEF Lookup, RelayHeader, RelayPayload, Relay, Misuse
<1> QED BY <1>1, <1>2, <1>3 DEF Worker

LEMMA MisuseGrows == Next => misuse \subseteq misuse'
<1>1. Main => misuse \subseteq misuse'
  BY DEF Main, Accept, SendChallenge, RecvAnswer, Refuse, Authorise, EpollAdd, SetFd,
         SetName, Register
<1> QED BY <1>1, WorkerMisuse, ClientTables DEF Next

\* A worker that is parting with its client parts with one that has left.
PartingLeft ==
  misuse = {} => \A t \in Threads : wk[t].pc \in {"errorEof", "close", "unregister"} =>
    wk[t].cl \in Conns /\ peer[wk[t].cl] \in {"closed", "reset"}

LeaverInv == EntryInv /\ RoutingInv /\ PartingLeft

LEMMA StepParting == LeaverInv /\ Next => PartingLeft'
<1> SUFFICES ASSUME LeaverInv, Next, misuse' = {}, NEW t \in Threads,
                    wk'[t].pc \in {"errorEof", "close", "unregister"}
             PROVE  wk'[t].cl \in Conns /\ peer'[wk'[t].cl] \in {"closed", "reset"}
  BY DEF PartingLeft
<1>1. TypeOK /\ misuse = {}
  BY MisuseGrows DEF LeaverInv, EntryInv
<1>2. ASSUME wk[t].pc \in {"errorEof", "close", "unregister"}, wk'[t].cl = wk[t].cl
      PROVE  wk'[t].cl \in Conns /\ peer'[wk'[t].cl] \in {"closed", "reset"}
  BY <1>1, <1>2, LeaversStay DEF LeaverInv, PartingLeft
<1>3. ASSUME NEW u \in Threads, Worker(u)
      PROVE  wk'[t].cl \in Conns /\ peer'[wk'[t].cl] \in {"closed", "reset"}
  <2>1. CASE u # t
    BY <1>1, <1>2, <1>3, <2>1, OtherWorkers
  <2>2. CASE u = t
    <3>1. wk'[t].cl = wk[t].cl
      BY <1>1, <1>3, <2>2, WorkerParting DEF Parting
    <3>2. CASE /\ Ended(At(wk[t].fd), {"closed"})
               /\ Misuse(Stale("recv", wk[t].fd, wk[t].cl))
      <4>1. At(wk[t].fd) \in Conns /\ peer[At(wk[t].fd)] = "closed"
        BY <3>2 DEF Ended
      <4>2. At(wk[t].fd) = wk[t].cl
        BY <3>2, <4>1, ConstantsAssumption DEF Stale, Misuse
      <4> QED BY <1>1, <3>1, <4>1, <4>2, LeaversStay
    <3> QED BY <1>1, <1>2, <1>3, <2>2, <3>1, <3>2, WorkerParting DEF Parting
  <2> QED BY <2>1, <2>2
<1>4. CASE UNCHANGED wk
  BY <1>2, <1>4
<1>5. Main \/ (\E c \in Conns : Client(c)) => UNCHANGED wk
  BY ClientTables DEF Main, Accept, SendChallenge, RecvAnswer, Refuse, Authorise,
                      EpollAdd, SetFd, SetName, Register
<1> QED BY <1>3, <1>4, <1>5 DEF Next

LEMMA InitLeavers == Init => LeaverInv
<1>1. Init => PartingLeft
  BY DEF Init, PartingLeft, WkIdle
<1> QED BY <1>1, InitEntries, InitRouting DEF LeaverInv

LEMMA StepLeavers == LeaverInv /\ [Next]_vars => LeaverInv'
<1>1. LeaverInv /\ UNCHANGED vars => PartingLeft'
  BY DEF LeaverInv, PartingLeft, vars, clientVars
<1> QED BY <1>1, StepParting, StepEntries, StepRouting DEF LeaverInv

\* What an entry removed has to do with the client its worker parts with.
LEMMA RemovedLeft ==
  ASSUME LeaverInv, Next, misuse' = {}, NEW t \in Threads,
         NEW c \in table[t] \ table'[t]
  PROVE  \/ peer[c] \in {"closed", "reset"}
         \/ \E d \in Conns \ {c} : UserOf[d] = UserOf[c]
<1>1. TypeOK /\ misuse = {} /\ c \in Conns /\ nameOf[c] = UserOf[c]
  BY MisuseGrows DEF LeaverInv, EntryInv, EntriesComplete, TypeOK
<1>2. ~Register
  <2> SUFFICES ASSUME Register PROVE FALSE
    OBVIOUS
  <2>1. PICK lost : /\ table' = [table EXCEPT ![num_thread] =
                                   (table[num_thread] \cup {acc.c}) \ lost]
                    /\ misuse' = misuse \cup (IF lost = {} THEN {} ELSE {"table"})
    BY DEF Register
  <2>2. lost = {}
    BY <2>1
  <2> QED BY <1>1, <2>1, <2>2 DEF TypeOK
<1>3. PICK u \in Threads : Worker(u) /\ table' # table
  BY <1>1, <1>2, MainTables, ClientTables DEF Next, dirVars, TypeOK
<1>4. PICK d \in Named(u, nameOf[wk[u].cl]) :
        wk[u].pc = "unregister" /\ table' = [table EXCEPT ![u] = @ \ {d}]
  BY <1>3, WorkerTables
<1>5. c = d /\ nameOf[c] = nameOf[wk[u].cl]
  BY <1>1, <1>4 DEF TypeOK, Named
<1>6. wk[u].cl \in Conns /\ peer[wk[u].cl] \in {"closed", "reset"}
  BY <1>1, <1>4 DEF LeaverInv, PartingLeft
<1>7. UserOf[wk[u].cl] = UserOf[c]
  BY <1>1, <1>5, <1>6, ConstantsAssumption DEF LeaverInv, RoutingInv, NamesTrue
<1> QED BY <1>6, <1>7

\* An entry leaves a table only for a client that has left, or for another
\* session of the same user, as long as no descriptor was misused and no table
\* was touched while it was rehashed: nobody in service is thrown out.
THEOREM RemovalCorrect == Spec => OnlyLeaversRemoved
<1>1. LeaverInv /\ [Next]_vars =>
        [\A t \in Threads : \A c \in table[t] \ table'[t] :
           \/ peer[c] \in {"closed", "reset"}
           \/ \E d \in Conns \ {c} : UserOf[d] = UserOf[c]
           \/ misuse' # {}]_vars
  BY RemovedLeft
<1> QED BY <1>1, InitLeavers, StepLeavers, PTL DEF Spec, OnlyLeaversRemoved

\* Tables are finite and so have a size.
FiniteTables == \A t \in Threads : IsFiniteSet(table[t])

LEMMA RemoveOne ==
  ASSUME NEW S, IsFiniteSet(S), NEW x
  PROVE  /\ IsFiniteSet(S \ {x}) /\ Cardinality(S \ {x}) \in Nat
         /\ Cardinality(S \ {x}) <= Cardinality(S)
<1>1. Cardinality(S) \in Nat
  BY FS_CardinalityType
<1>2. IsFiniteSet(S \ {x})
  BY FS_RemoveElement
<1>3. Cardinality(S \ {x}) \in Nat
  BY <1>2, FS_CardinalityType
<1>4. Cardinality(S \ {x}) = IF x \in S THEN Cardinality(S) - 1 ELSE Cardinality(S)
  BY FS_RemoveElement
<1> QED BY <1>1, <1>2, <1>3, <1>4

LEMMA AddOne ==
  ASSUME NEW S, IsFiniteSet(S), NEW x
  PROVE  /\ IsFiniteSet(S \cup {x})
         /\ Cardinality(S) \in Nat
         /\ Cardinality(S \cup {x}) = IF x \in S THEN Cardinality(S)
                                                 ELSE Cardinality(S) + 1
  BY FS_AddElement, FS_CardinalityType

LEMMA StepFinite ==
  ASSUME TypeOK, FiniteTables, [Next]_vars
  PROVE  FiniteTables'
<1>1. CASE UNCHANGED table
  BY <1>1 DEF FiniteTables
<1>2. CASE Register
  <2>1. PICK lost : table' = [table EXCEPT ![num_thread] =
                                (table[num_thread] \cup {acc.c}) \ lost]
    BY <1>2 DEF Register
  <2>2. num_thread \in Threads
    BY DEF TypeOK
  <2>3. IsFiniteSet(table[num_thread] \cup {acc.c})
    BY <2>2, AddOne DEF FiniteTables
  <2>4. IsFiniteSet((table[num_thread] \cup {acc.c}) \ lost)
    BY <2>3, FS_Subset
  <2> QED BY <2>1, <2>4 DEF FiniteTables, TypeOK
<1>3. ASSUME NEW t \in Threads, NEW d, table' = [table EXCEPT ![t] = @ \ {d}]
      PROVE  FiniteTables'
  BY <1>3, RemoveOne DEF FiniteTables, TypeOK
<1>4. CASE Next
  <2>1. UNCHANGED table \/ Register
          \/ \E t \in Threads : \E d : table' = [table EXCEPT ![t] = @ \ {d}]
    BY <1>4, MainTables, WorkerTables, ClientTables DEF Next, dirVars
  <2> QED BY <2>1, <1>1, <1>2, <1>3
<1> QED BY <1>1, <1>4 DEF vars, dirVars

\* While the accept thread serves a client, the table it is for has room.
RoomForClient ==
  "table" \in misuse \/ (Busy => Cardinality(table[num_thread]) < MaxClients)

BoundInv == TypeOK /\ FiniteTables /\ RoomForClient /\ TableBounded

LEMMA MainBounded ==
  ASSUME BoundInv, Main, "table" \notin misuse'
  PROVE  (RoomForClient /\ TableBounded)'
<1> USE DEF BoundInv
<1>1. num_thread \in Threads /\ Cardinality(table[num_thread]) \in Nat
  BY FS_CardinalityType DEF TypeOK, FiniteTables
<1>2. "table" \notin misuse
  BY DEF Main, Accept, SendChallenge, RecvAnswer, Refuse, Authorise, EpollAdd, SetFd,
         SetName, Register
<1>3. CASE Accept
  <2>1. PICK full \in BOOLEAN :
          /\ misuse' = misuse \cup (IF full = TableFull(num_thread)
                                    THEN {} ELSE {"table"})
          /\ full => UNCHANGED acc
    BY <1>3 DEF Accept
  <2>2. full = TableFull(num_thread) /\ UNCHANGED <<table, num_thread>> /\ ~Busy
    BY <1>3, <2>1 DEF Accept, Busy
  <2>3. Busy' => Cardinality(table[num_thread]) < MaxClients
    <3>1. CASE full
      BY <2>1, <2>2, <3>1 DEF Busy
    <3>2. CASE ~full
      <4>1. ~TableFull(num_thread)
        BY <2>2, <3>2
      <4> QED BY <1>1, <4>1, ConstantsAssumption DEF TableFull
    <3> QED BY <3>1, <3>2
  <2> QED BY <1>2, <2>2, <2>3 DEF RoomForClient, TableBounded
<1>4. CASE Register
  <2> DEFINE t == num_thread
             full == table[t] \cup {acc.c}
  <2>1. PICK lost \in SUBSET full :
          /\ table' = [table EXCEPT ![t] = full \ lost]
          /\ misuse' = misuse \cup (IF lost = {} THEN {} ELSE {"table"})
    BY <1>4 DEF Register
  <2>2. lost = {} /\ Busy /\ acc' = AccIdle
    BY <1>4, <2>1 DEF Register, Busy
  <2>3. table'[t] = full /\ \A u \in Threads \ {t} : table'[u] = table[u]
    BY <1>1, <2>1, <2>2 DEF TypeOK
  <2>4. Cardinality(full) <= MaxClients
    <3>1. Cardinality(table[t]) < MaxClients
      BY <1>2, <2>2 DEF RoomForClient
    <3>2. /\ Cardinality(table[t]) \in Nat
          /\ Cardinality(full) = IF acc.c \in table[t] THEN Cardinality(table[t])
                                                       ELSE Cardinality(table[t]) + 1
      BY <1>1, AddOne DEF FiniteTables
    <3> QED BY <3>1, <3>2, ConstantsAssumption
  <2>5. ~Busy'
    BY <2>2 DEF AccIdle, Busy
  <2> HIDE DEF t, full
  <2> QED BY <1>2, <2>3, <2>4, <2>5 DEF RoomForClient, TableBounded
<1>5. CASE UNCHANGED <<table, num_thread>> /\ ~Accept
  <2>1. Busy' => Busy
    BY <1>5 DEF Main, SendChallenge, RecvAnswer, Refuse, Authorise, EpollAdd, SetFd,
           SetName, Register, Busy
  <2> QED BY <1>2, <1>5, <2>1 DEF RoomForClient, TableBounded
<1> QED BY <1>3, <1>4, <1>5, MainTables

LEMMA WorkerBounded ==
  ASSUME BoundInv, NEW t \in Threads, Worker(t), "table" \notin misuse
  PROVE  (RoomForClient /\ TableBounded)'
<1> USE DEF BoundInv
<1>1. UNCHANGED <<acc, num_thread>>
  BY WorkerFrame
<1>2. \A u \in Threads : /\ Cardinality(table[u]) \in Nat
                         /\ Cardinality(table'[u]) \in Nat
                         /\ Cardinality(table'[u]) <= Cardinality(table[u])
  <2>1. \A u \in Threads : Cardinality(table[u]) \in Nat
    BY FS_CardinalityType DEF FiniteTables
  <2>2. ASSUME NEW d, table' = [table EXCEPT ![t] = @ \ {d}], NEW u \in Threads
        PROVE  Cardinality(table'[u]) \in Nat /\ Cardinality(table'[u]) <= Cardinality(table[u])
    <3>1. table'[u] = IF u = t THEN table[t] \ {d} ELSE table[u]
      BY <2>2 DEF TypeOK
    <3> QED BY <2>1, <3>1, RemoveOne DEF FiniteTables
  <2> QED BY <2>1, <2>2, WorkerTables
<1>3. num_thread \in Threads
  BY DEF TypeOK
<1>4. RoomForClient'
  BY <1>1, <1>2, <1>3, ConstantsAssumption DEF RoomForClient, Busy
<1>5. TableBounded'
  BY <1>2, ConstantsAssumption DEF TableBounded
<1> QED BY <1>4, <1>5

LEMMA InitBounded == Init => BoundInv
<1> SUFFICES ASSUME Init PROVE BoundInv
  OBVIOUS
<1>1. \A t \in Threads : IsFiniteSet(table[t]) /\ Cardinality(table[t]) = 0
  BY FS_EmptySet DEF Init
<1>2. ~Busy
  BY DEF Init, AccIdle, Busy
<1> QED BY <1>1, <1>2, InitType, ConstantsAssumption
        DEF BoundInv, FiniteTables, RoomForClient, TableBounded

LEMMA StepBounded == BoundInv /\ [Next]_vars => BoundInv'
<1> SUFFICES ASSUME BoundInv, [Next]_vars PROVE BoundInv'
  OBVIOUS
<1>1. TypeOK' /\ FiniteTables'
  BY StepType, StepFinite DEF BoundInv
<1>2. CASE UNCHANGED <<table, acc, num_thread, misuse>>
  BY <1>1, <1>2 DEF BoundInv, RoomForClient, TableBounded, Busy
<1>3. CASE "table" \in misuse'
  BY <1>1, <1>3 DEF BoundInv, RoomForClient, TableBounded
<1>4. CASE Next /\ "table" \notin misuse'
  <2>1. "table" \notin misuse
    BY <1>4, MisuseGrows
  <2> QED BY <1>1, <1>2, <1>4, <2>1, MainBounded, WorkerBounded, ClientTables
          DEF Next, BoundInv, dirVars
<1> QED BY <1>2, <1>3, <1>4 DEF vars, dirVars

\* No worker gets more clients than MAX_CLIENTS_PER_THREAD, although the check
\* of the length and the insertion are eight steps apart and workers remove
\* entries in between, as long as neither met a table being rehashed.
THEOREM BoundCorrect == Spec => []TableBounded
<1>1. BoundInv => TableBounded
  BY DEF BoundInv
<1> QED BY <1>1, InitBounded, StepBounded, PTL DEF Spec

----------------------------------------------------------------------------
(* The rotation.                                                           *)

NobodyParting == \A t \in Threads : wk[t].pc \notin Parting

\* The threads before the next one have had one client more than the others.
Rotated ==
  \E n \in Nat : \A t \in Threads :
    Cardinality(table[t]) = IF t < num_thread THEN n + 1 ELSE n

BalanceInv == EntryInv /\ FiniteTables /\ (NobodyLeft => NobodyParting /\ Rotated)

LEMMA NobodyLeftBefore ==
  ASSUME TypeOK, Next, NobodyLeft'
  PROVE  NobodyLeft
  BY LeaversStay DEF NobodyLeft, TypeOK

LEMMA StepNobodyParting ==
  ASSUME TypeOK, NobodyLeft, NobodyParting, Next
  PROVE  NobodyParting'
<1>1. CASE UNCHANGED wk
  BY <1>1 DEF NobodyParting
<1>2. ASSUME NEW u \in Threads, Worker(u), NEW t \in Threads
      PROVE  wk'[t].pc \notin Parting
  <2>1. CASE t # u
    BY <1>2, <2>1, OtherWorkers DEF NobodyParting
  <2>2. ~Ended(At(wk[u].fd), {"closed"})
    BY DEF NobodyLeft, Ended
  <2> QED BY <1>2, <2>1, <2>2, WorkerParting DEF NobodyParting, Parting
<1>3. Main \/ (\E c \in Conns : Client(c)) => UNCHANGED wk
  BY ClientTables DEF Main, Accept, SendChallenge, RecvAnswer, Refuse, Authorise,
                      EpollAdd, SetFd, SetName, Register
<1> QED BY <1>1, <1>2, <1>3 DEF Next, NobodyParting

\* One client more for the next thread: the round goes on, or a new one begins.
LEMMA RegisterRotated ==
  ASSUME EntryInv, FiniteTables, NobodyParting, Rotated, Register
  PROVE  Rotated'
<1> DEFINE t == num_thread
<1>1. t \in 1..NThreads /\ acc.c \notin table[t] /\ acc.pc = "register"
  BY DEF Register, EntryInv, AccNotYetIn, Busy, TypeOK, Threads
<1>2. PICK lost : /\ lost # {} => Rehashing(t)
                  /\ table' = [table EXCEPT ![t] = (table[t] \cup {acc.c}) \ lost]
  BY DEF Register
<1>3. lost = {}
  BY <1>1, <1>2 DEF NobodyParting, Parting, Rehashing, Threads
<1>4. \A u \in Threads :
        table'[u] = IF u = t THEN table[t] \cup {acc.c} ELSE table[u]
  BY <1>2, <1>3 DEF EntryInv, TypeOK
<1>5. PICK n \in Nat : \A u \in Threads :
        Cardinality(table[u]) = IF u < t THEN n + 1 ELSE n
  BY DEF Rotated
<1>6. Cardinality(table[t] \cup {acc.c}) = n + 1
  BY <1>1, <1>5, AddOne DEF FiniteTables, Threads
<1>7. \A u \in Threads : Cardinality(table'[u]) = IF u <= t THEN n + 1 ELSE n
  BY <1>1, <1>4, <1>5, <1>6 DEF Threads
<1>8. num_thread' = IF t = NThreads THEN 1 ELSE t + 1
  BY <1>1, ConstantsAssumption DEF Register, NextThread
<1> HIDE DEF t
<1>9. CASE t = NThreads
  <2>1. \A u \in Threads : Cardinality(table'[u]) = IF u < num_thread' THEN n + 2 ELSE n + 1
    BY <1>1, <1>7, <1>8, <1>9, ConstantsAssumption DEF Threads
  <2> QED BY <2>1 DEF Rotated
<1>10. CASE t # NThreads
  <2>1. \A u \in Threads : Cardinality(table'[u]) = IF u < num_thread' THEN n + 1 ELSE n
    BY <1>1, <1>7, <1>8, <1>10, ConstantsAssumption DEF Threads
  <2> QED BY <2>1 DEF Rotated
<1> QED BY <1>9, <1>10

LEMMA StepRotated ==
  ASSUME EntryInv, FiniteTables, NobodyParting, Rotated, Next
  PROVE  Rotated'
<1>1. CASE UNCHANGED <<table, num_thread>>
  BY <1>1 DEF Rotated
<1>2. \A t \in Threads : Worker(t) => UNCHANGED <<table, num_thread>>
  BY WorkerTables, WorkerFrame DEF NobodyParting, Parting
<1> QED BY <1>1, <1>2, RegisterRotated, MainTables, ClientTables DEF Next, dirVars

LEMMA InitBalance == Init => BalanceInv
<1> SUFFICES ASSUME Init PROVE BalanceInv
  OBVIOUS
<1>1. \A t \in Threads : IsFiniteSet(table[t]) /\ Cardinality(table[t]) = 0
  BY FS_EmptySet DEF Init
<1>2. \A t \in Threads : Cardinality(table[t]) = IF t < num_thread THEN 1 ELSE 0
  BY <1>1 DEF Init, Threads
<1>3. Rotated
  BY <1>2 DEF Rotated
<1>4. NobodyParting
  BY DEF Init, NobodyParting, Parting, WkIdle
<1> QED BY <1>1, <1>3, <1>4, InitEntries DEF BalanceInv, FiniteTables

LEMMA StepBalance == BalanceInv /\ [Next]_vars => BalanceInv'
<1> SUFFICES ASSUME BalanceInv, [Next]_vars PROVE BalanceInv'
  OBVIOUS
<1>1. EntryInv' /\ FiniteTables'
  BY StepEntries, StepFinite DEF BalanceInv, EntryInv
<1>2. CASE UNCHANGED vars
  BY <1>1, <1>2 DEF BalanceInv, NobodyLeft, NobodyParting, Rotated, vars, clientVars, dirVars
<1>3. CASE Next
  BY <1>1, <1>3, NobodyLeftBefore, StepNobodyParting, StepRotated DEF BalanceInv, EntryInv
<1> QED BY <1>2, <1>3

\* Two workers differ by at most one client.
Balanced ==
  NobodyLeft => \A t, u \in Threads : Cardinality(table[t]) <= Cardinality(table[u]) + 1

\* Until a client leaves, two workers never differ by more than one client, for
\* any number of workers: the rotation does not depend on who is rejected or
\* given up on the way.
THEOREM BalanceCorrect == Spec => []Balanced
<1>1. BalanceInv => Balanced
  <2> SUFFICES ASSUME NobodyLeft, Rotated, NEW t \in Threads, NEW u \in Threads
               PROVE  Cardinality(table[t]) <= Cardinality(table[u]) + 1
    BY DEF BalanceInv, Balanced
  <2>1. PICK n \in Nat : \A v \in Threads :
          Cardinality(table[v]) = IF v < num_thread THEN n + 1 ELSE n
    BY DEF Rotated
  <2> QED BY <2>1
<1> QED BY <1>1, InitBalance, StepBalance, PTL DEF Spec

\* A rejected connection found every worker full, not only the next one.
LEMMA RejectedFull ==
  ASSUME BalanceInv, Next, NobodyLeft, backlog' \subseteq backlog,
         backlog' # backlog, fdt' = fdt
  PROVE  \A t \in Threads : TableFull(t)
<1>1. Accept
  <2>1. \A t \in Threads : Worker(t) => UNCHANGED backlog
    BY WorkerFrame
  <2>2. \A c \in Conns : Client(c) => backlog \subseteq backlog'
    BY DEF Client, Connect, Answer, SendMessageHeader, SendMessagePayload, Leave, netVars
  <2>3. Main => Accept \/ UNCHANGED backlog
    BY DEF Main, SendChallenge, RecvAnswer, Refuse, Authorise, EpollAdd, SetFd,
           SetName, Register, netVars
  <2> QED BY <2>1, <2>2, <2>3 DEF Next
<1>2. PICK c \in backlog, full \in BOOLEAN, f \in Fds :
        /\ LowestFree(f)
        /\ full = TableFull(num_thread) \/ Rehashing(num_thread)
        /\ ~full => fdt' = [fdt EXCEPT ![f] = c]
  BY <1>1 DEF Accept
<1>3. full
  <2> SUFFICES ASSUME ~full PROVE FALSE
    OBVIOUS
  <2>1. fdt'[f] = c /\ fdt[f] = NoConn /\ c \in Conns
    BY <1>2 DEF BalanceInv, EntryInv, TypeOK, LowestFree
  <2> QED BY <2>1, ConstantsAssumption
<1>4. num_thread \in Threads /\ ~Rehashing(num_thread)
  BY DEF BalanceInv, EntryInv, TypeOK, NobodyParting, Parting, Rehashing
<1>5. TableFull(num_thread)
  BY <1>2, <1>3, <1>4
<1>6. PICK n \in Nat : \A t \in Threads :
        Cardinality(table[t]) = IF t < num_thread THEN n + 1 ELSE n
  BY DEF BalanceInv, Rotated
<1>7. n >= MaxClients
  BY <1>4, <1>5, <1>6 DEF TableFull, Threads
<1> QED BY <1>6, <1>7, ConstantsAssumption DEF TableFull

\* Until a client leaves, the relay turns a connection away only when all of
\* its workers have MAX_CLIENTS_PER_THREAD clients.
THEOREM RejectionCorrect == Spec => RejectsOnlyWhenFull
<1>1. BalanceInv /\ [Next]_vars =>
        [NobodyLeft /\ backlog' \subseteq backlog /\ backlog' # backlog /\ fdt' = fdt
           => \A t \in Threads : TableFull(t)]_vars
  BY RejectedFull
<1> QED BY <1>1, InitBalance, StepBalance, PTL DEF Spec, RejectsOnlyWhenFull
=============================================================================
