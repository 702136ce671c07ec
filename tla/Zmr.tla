-------------------------------- MODULE Zmr --------------------------------
(***************************************************************************)
(* The relay server zmr: one accept thread (main) that authenticates each  *)
(* new connection and hands it to one of NThreads epoll workers, and the   *)
(* workers, each of which reads packets from the connections it watches    *)
(* and relays every message to the connection registered for its           *)
(* recipient, whichever worker's table that one is in.                     *)
(*                                                                         *)
(* Descriptors are modelled, because they are numbers that the kernel      *)
(* gives out again: fdt is the process's descriptor table, a client_t is   *)
(* identified with the connection it was allocated for, and everything the *)
(* code does through a descriptor number goes through At.  The abstraction *)
(* of a worker's hash table to the set of entries it holds is the subject  *)
(* of module HashTable.                                                    *)
(***************************************************************************)
EXTENDS Integers, Sequences, FiniteSets

CONSTANTS
  Conns,        \* TCP connections that clients may open, each at most once
  Users,        \* public keys
  UserOf,       \* the key each connection authenticates with
  BadKeys,      \* connections that answer the challenge with a wrong signature
  NulUsers,     \* users whose binary key begins with a zero byte
  Closers,      \* connections whose client may close or abort
  Fds,          \* descriptor numbers the process can be given
  Garbage,      \* what an unwritten client_t.fd may hold
  NThreads,     \* MAX_THREADS
  MaxClients,   \* MAX_CLIENTS_PER_THREAD
  Budget,       \* bound: messages the client of each connection sends
  Kinds,        \* what clients send: "msg", "long" (too long), "forged"
  NoConn, NoMsg, NoName

ASSUME ConstantsAssumption ==
  /\ UserOf \in [Conns -> Users]
  /\ BadKeys \subseteq Conns /\ Closers \subseteq Conns
  /\ NulUsers \subseteq Users
  /\ Fds \subseteq Nat
  /\ Garbage \subseteq Int
  /\ NThreads \in Nat \ {0}
  /\ MaxClients \in Nat
  /\ Budget \in [Conns -> Nat]
  /\ Kinds \subseteq {"msg", "long", "forged"}
  /\ NoConn \notin Conns /\ NoName \notin Users
  /\ NoMsg \notin [src : Conns, seq : Nat, to : Users, kind : Kinds]

VARIABLES
  peer,      \* the client's end: "off", "open", "closed" or "reset"
  sent,      \* packets the client sent since its answer (-1: not answered)
  part,      \* message of which the client has sent only the header
  backlog,   \* connections the kernel holds for accept()
  inq,       \* chunks sent by the client and not yet read
  out,       \* chunks sent to the client, in order
  fdt,       \* descriptor table of the process
  interest,  \* per worker: connections in its epoll set
  fdOf,      \* client_t.fd
  nameOf,    \* client_t.username
  table,     \* per worker: the client_t's in its hash table
  num_thread,\* thread that gets the next client
  acc,       \* the accept thread
  wk,        \* the workers
  misuse,    \* history: system calls that hit a descriptor given out again,
             \* and hash tables read or written in the middle of a rehash
  up         \* FALSE once the process has aborted

clientVars == <<peer, sent, part>>
netVars    == <<backlog, inq, out>>
fdVars     == <<fdt, interest>>
dirVars    == <<fdOf, nameOf, table>>
vars == <<clientVars, netVars, fdVars, dirVars, num_thread, acc, wk, misuse, up>>

Threads == 1..NThreads
Message == [src : Conns, seq : Nat, to : Users, kind : Kinds]
Chunk   == [k : {"auth", "hdr", "pay", "junk", "challenge", "authorised",
                 "unauthorised", "error"}, m : Message \cup {NoMsg}]
Plain(k) == [k |-> k, m |-> NoMsg]
Part(k, m) == [k |-> k, m |-> m]

AccPc == {"idle", "challenge", "answer", "refuse", "authorise", "epoll",
          "setfd", "setname", "register"}
WkPc  == {"idle", "header", "payload", "garbled", "error", "errorEof",
          "close", "unregister", "rehash", "lookup", "sendhdr", "sendpay"}

\* The accept thread has a connection and its descriptor once past accept().
AccState == {s \in [pc : AccPc, c : Conns \cup {NoConn}, fd : Int] :
               s.pc # "idle" => s.c \in Conns /\ s.fd \in Fds}
WkState  == [pc : WkPc, batch : SUBSET Conns, cl : Conns \cup {NoConn}, fd : Int,
             msg : Message \cup {NoMsg}, scan : Threads,
             dst : Conns \cup {NoConn}, dfd : Int]

AccIdle == [pc |-> "idle", c |-> NoConn, fd |-> -1]
WkIdle(batch) == [pc |-> "idle", batch |-> batch, cl |-> NoConn, fd |-> -1,
                  msg |-> NoMsg, scan |-> 1, dst |-> NoConn, dfd |-> -1]

TypeOK ==
  /\ peer \in [Conns -> {"off", "open", "closed", "reset"}]
  /\ sent \in [Conns -> Nat \cup {-1}]
  /\ part \in [Conns -> Message \cup {NoMsg}]
  /\ backlog \subseteq Conns
  /\ inq \in [Conns -> Seq(Chunk)]
  /\ out \in [Conns -> Seq(Chunk)]
  /\ fdt \in [Fds -> Conns \cup {NoConn}]
  /\ interest \in [Threads -> SUBSET Conns]
  /\ fdOf \in [Conns -> Int]
  /\ nameOf \in [Conns -> Users \cup {NoName}]
  /\ table \in [Threads -> SUBSET Conns]
  /\ num_thread \in Threads
  /\ acc \in AccState
  /\ wk \in [Threads -> WkState]
  /\ misuse \subseteq {"send", "recv", "close", "table"}
  /\ up \in BOOLEAN

Init ==
  /\ peer = [c \in Conns |-> "off"]
  /\ sent = [c \in Conns |-> -1]
  /\ part = [c \in Conns |-> NoMsg]
  /\ backlog = {}
  /\ inq = [c \in Conns |-> <<>>]
  /\ out = [c \in Conns |-> <<>>]
  /\ fdt = [f \in Fds |-> NoConn]
  /\ interest = [t \in Threads |-> {}]
  /\ fdOf = [c \in Conns |-> -1]
  /\ nameOf = [c \in Conns |-> NoName]
  /\ table = [t \in Threads |-> {}]
  /\ num_thread = 1
  /\ acc = AccIdle
  /\ wk = [t \in Threads |-> WkIdle({})]
  /\ misuse = {}
  /\ up = TRUE

----------------------------------------------------------------------------
(* Descriptors and sockets.                                                *)

\* The connection a descriptor number stands for now.
At(f) == IF f \in Fds THEN fdt[f] ELSE NoConn

\* accept() returns the lowest number that is free.
LowestFree(f) ==
  f \in Fds /\ fdt[f] = NoConn /\ \A g \in Fds : fdt[g] = NoConn => f <= g

\* close(f): the kernel also takes the connection out of every epoll set.
CloseFd(f) ==
  /\ fdt' = [g \in Fds |-> IF g = f THEN NoConn ELSE fdt[g]]
  /\ interest' = [t \in Threads |-> interest[t] \ {At(f)}]

\* The client has left in the given way and everything it sent has been read.
EndedUnseen(c, how) ==                                 \* mutant: 0 bytes ignored
  c \in Conns /\ inq[c] = <<>> /\ peer[c] \in how \ {"closed"}
EndedEarly(c, how) == c \in Conns /\ inq[c] = <<>>    \* mutant: no data yet is the end
Ended(c, how) == c \in Conns /\ inq[c] = <<>> /\ peer[c] \in how

\* What recv() would not block on.
Readable(c) == inq[c] # <<>> \/ peer[c] \in {"closed", "reset"}

\* send(f, ch) succeeds: the peer is there, or has gone without our knowing.
SendOk(f, ch) ==
  \/ At(f) \in Conns /\ peer[At(f)] = "open"
     /\ out' = [out EXCEPT ![At(f)] = Append(@, ch)]
  \/ At(f) \in Conns /\ peer[At(f)] = "closed" /\ UNCHANGED out

\* send(f, ch) fails: bad descriptor, or the peer is known to be gone.
SendFails(f) ==
  /\ At(f) \in Conns => peer[At(f)] \in {"closed", "reset"}
  /\ UNCHANGED out

\* The call named by tag uses descriptor f on behalf of connection c, but f
\* has been closed and given to another connection meanwhile.
Stale(tag, f, c) == IF At(f) \in {c, NoConn} THEN {} ELSE {tag}

\* A packet freed by send_packet and freed again by its caller: the allocator
\* may notice and abort.
DoubleFree == up' \in BOOLEAN

----------------------------------------------------------------------------
(* Clients.  A client answers the challenge, waits for AUTHORISED, then     *)
(* sends each message as two system calls, header and payload.  It can only *)
(* act while the server holds its connection.                               *)

Held(c) == c \in backlog \/ \E f \in Fds : fdt[f] = c
Got(c, k) == \E i \in 1..Len(out[c]) : out[c][i].k = k
Send(c, ch) == inq' = [inq EXCEPT ![c] = Append(@, ch)]

Connect(c) ==
  /\ peer[c] = "off"
  /\ peer' = [peer EXCEPT ![c] = "open"]
  /\ backlog' = backlog \cup {c}
  /\ UNCHANGED <<sent, part, inq, out, fdVars, dirVars, num_thread, acc, wk,
                 misuse, up>>

Answer(c) ==
  /\ peer[c] = "open" /\ Held(c)
  /\ sent[c] = -1 /\ Got(c, "challenge")
  /\ sent' = [sent EXCEPT ![c] = 0]
  /\ Send(c, Plain("auth"))
  /\ UNCHANGED <<peer, part, backlog, out, fdVars, dirVars, num_thread, acc, wk,
                 misuse, up>>

SendMessageHeader(c) ==
  /\ peer[c] = "open" /\ Held(c)
  /\ Got(c, "authorised") /\ part[c] = NoMsg /\ sent[c] < Budget[c]
  /\ \E to \in Users, kind \in Kinds :
       LET m == [src |-> c, seq |-> sent[c] + 1, to |-> to, kind |-> kind]
       IN  part' = [part EXCEPT ![c] = m] /\ Send(c, Part("hdr", m))
  /\ sent' = [sent EXCEPT ![c] = @ + 1]
  /\ UNCHANGED <<peer, backlog, out, fdVars, dirVars, num_thread, acc, wk,
                 misuse, up>>

SendMessagePayload(c) ==
  /\ peer[c] = "open" /\ Held(c) /\ part[c] # NoMsg
  /\ part' = [part EXCEPT ![c] = NoMsg]
  /\ Send(c, Part("pay", part[c]))
  /\ UNCHANGED <<peer, sent, backlog, out, fdVars, dirVars, num_thread, acc, wk,
                 misuse, up>>

\* The client closes its end or is cut off, in the middle of a packet or not.
Leave(c) ==
  /\ c \in Closers /\ peer[c] = "open"
  /\ \E how \in {"closed", "reset"} : peer' = [peer EXCEPT ![c] = how]
  /\ part' = [part EXCEPT ![c] = NoMsg]
  /\ UNCHANGED <<sent, netVars, fdVars, dirVars, num_thread, acc, wk, misuse, up>>

Client(c) == Connect(c) \/ Answer(c) \/ SendMessageHeader(c)
               \/ SendMessagePayload(c) \/ Leave(c)

----------------------------------------------------------------------------
(* The accept thread.                                                       *)

Rehashing(t) == wk[t].pc = "rehash"
TableFullLate(t) == Cardinality(table[t]) > MaxClients \* mutant: off by one
TableFull(t) == Cardinality(table[t]) >= MaxClients
NextThreadUnbounded == num_thread + 1                  \* mutant: no modulo
NextThreadSame == num_thread                           \* mutant: no rotation
NextThread == (num_thread % NThreads) + 1
AccGoto(pc) == acc' = [acc EXCEPT !.pc = pc]

\* The failure exit of authenticate_client.
HangUpLeaks == acc' = AccIdle /\ UNCHANGED fdVars      \* mutant: no close
HangUp == acc' = AccIdle /\ CloseFd(acc.fd)

\* The answer's signature verifies.
VerifiedAlways(c) == c \in Conns                       \* mutant: result ignored
Verified(c) == c \notin BadKeys

\* epoll_ctl ADD, to the epoll set of the thread that was chosen.
WatchAll(c) ==                                         \* mutant: to all of them
  interest' = [t \in Threads |-> interest[t] \cup {c}]
Watch(c) == interest' = [interest EXCEPT ![num_thread] = @ \cup {c}]

\* accept() and the length check.  The count walks the slots with no lock the
\* workers take, so it can be wrong while the worker rehashes.  A rejected
\* connection is closed before main goes back to accept().
Accept ==
  /\ acc.pc = "idle"
  /\ \E c \in backlog, full \in BOOLEAN, f \in Fds, g \in Garbage :
       /\ LowestFree(f)
       /\ full = TableFull(num_thread) \/ Rehashing(num_thread)
       /\ backlog' = backlog \ {c}
       /\ misuse' = misuse \cup (IF full = TableFull(num_thread)
                                 THEN {} ELSE {"table"})
       /\ IF full
          THEN UNCHANGED <<fdt, fdOf, acc>>
          ELSE /\ fdt' = [fdt EXCEPT ![f] = c]
               /\ fdOf' = [fdOf EXCEPT ![c] = g]
               /\ acc' = [pc |-> "challenge", c |-> c, fd |-> f]
  /\ UNCHANGED <<clientVars, inq, out, interest, nameOf, table, num_thread, wk, up>>

SendChallenge ==
  /\ acc.pc = "challenge"
  /\ \/ SendOk(acc.fd, Plain("challenge")) /\ AccGoto("answer") /\ UNCHANGED fdVars
     \/ SendFails(acc.fd) /\ HangUp
  /\ UNCHANGED <<clientVars, backlog, inq, dirVars, num_thread, wk, misuse, up>>

\* Blocks until the client answers or leaves.
RecvAnswer ==
  /\ acc.pc = "answer"
  /\ LET s == At(acc.fd) IN
     \/ /\ s \in Conns /\ inq[s] # <<>>
        /\ inq' = [inq EXCEPT ![s] = Tail(@)]
        /\ AccGoto(IF Verified(s) THEN "authorise" ELSE "refuse")
        /\ UNCHANGED fdVars
     \/ /\ s \in Conns => Ended(s, {"closed", "reset"})
        /\ HangUp /\ UNCHANGED inq
  /\ UNCHANGED <<clientVars, backlog, out, dirVars, num_thread, wk, misuse, up>>

\* Wrong signature: UNAUTHORISED, whose failed send is freed twice, and close.
Refuse ==
  /\ acc.pc = "refuse"
  /\ \/ SendOk(acc.fd, Plain("unauthorised")) /\ UNCHANGED up
     \/ SendFails(acc.fd) /\ DoubleFree
  /\ HangUp
  /\ UNCHANGED <<clientVars, backlog, inq, dirVars, num_thread, wk, misuse>>

\* The result of sending AUTHORISED is ignored; a failure closes the
\* descriptor, frees the packet twice and goes on.
Authorise ==
  /\ acc.pc = "authorise"
  /\ \/ SendOk(acc.fd, Plain("authorised")) /\ UNCHANGED <<fdVars, up>>
     \/ SendFails(acc.fd) /\ CloseFd(acc.fd) /\ DoubleFree
  /\ AccGoto("epoll")
  /\ UNCHANGED <<clientVars, backlog, inq, dirVars, num_thread, wk, misuse>>

\* epoll_ctl ADD, which fails on a closed descriptor.  From here on the worker
\* gets events for a client_t that main has still to fill in.
EpollAdd ==
  /\ acc.pc = "epoll"
  /\ IF At(acc.fd) = NoConn
     THEN acc' = AccIdle /\ UNCHANGED interest
     ELSE Watch(acc.c) /\ AccGoto("setfd")
  /\ UNCHANGED <<clientVars, netVars, fdt, dirVars, num_thread, wk, misuse, up>>

SetFd ==
  /\ acc.pc = "setfd"
  /\ fdOf' = [fdOf EXCEPT ![acc.c] = acc.fd]
  /\ AccGoto("setname")
  /\ UNCHANGED <<clientVars, netVars, fdVars, nameOf, table, num_thread, wk,
                 misuse, up>>

SetName ==
  /\ acc.pc = "setname"
  /\ nameOf' = [nameOf EXCEPT ![acc.c] = UserOf[acc.c]]
  /\ AccGoto("register")
  /\ UNCHANGED <<clientVars, netVars, fdVars, fdOf, table, num_thread, wk,
                 misuse, up>>

\* hashtable_add and the rotation.  If the worker is rehashing that table, both
\* may claim the same slot: the new entry or a moved one is then lost.
Register ==
  /\ acc.pc = "register"
  /\ LET t == num_thread
         full == table[t] \cup {acc.c}
     IN  \E lost \in SUBSET full :
           /\ lost # {} => Rehashing(t) /\ Cardinality(lost) = 1
           /\ table' = [table EXCEPT ![t] = full \ lost]
           /\ misuse' = misuse \cup (IF lost = {} THEN {} ELSE {"table"})
  /\ num_thread' = NextThread
  /\ acc' = AccIdle
  /\ UNCHANGED <<clientVars, netVars, fdVars, fdOf, nameOf, wk, up>>

Main == Accept \/ SendChallenge \/ RecvAnswer \/ Refuse \/ Authorise
          \/ EpollAdd \/ SetFd \/ SetName \/ Register

----------------------------------------------------------------------------
(* A worker.                                                                *)

Goto(t, pc) == wk' = [wk EXCEPT ![t].pc = pc]
Done(t)     == wk' = [wk EXCEPT ![t] = WkIdle(wk[t].batch)]
Misuse(set) == misuse' = misuse \cup set

EpollWait(t) ==
  /\ wk[t].pc = "idle" /\ wk[t].batch = {}
  /\ LET ready == {c \in interest[t] : Readable(c)}
     IN  ready # {} /\ wk' = [wk EXCEPT ![t].batch = ready]
  /\ UNCHANGED <<clientVars, netVars, fdVars, dirVars, num_thread, acc, misuse, up>>

\* The next event of the batch: the descriptor is read from the client_t.
NextEvent(t) ==
  /\ wk[t].pc = "idle"
  /\ \E c \in wk[t].batch :
       wk' = [wk EXCEPT ![t] = [WkIdle(@.batch \ {c}) EXCEPT
                                 !.pc = "header", !.cl = c, !.fd = fdOf[c]]]
  /\ UNCHANGED <<clientVars, netVars, fdVars, dirVars, num_thread, acc, misuse, up>>

\* What an erroneous read leaves of a stream whose reader is in the middle of
\* a payload: the chunks from some place on, perhaps behind a piece of one.  Bound:
\* a payload is misread at most twice before the stream goes on.
Resync(q) ==
  LET rest == {SubSeq(q, i, Len(q)) :
                 i \in (IF Head(q).k = "junk" THEN 3 ELSE 2)..Len(q) + 1}
  IN  {Tail(q)} \cup rest \cup {<<Plain("junk")>> \o r : r \in rest}

\* recv of a header.  One made of other bytes is too long, has no payload or has
\* one that follows at once, or one that the worker goes on to wait for.
RecvHeader(t) ==
  /\ wk[t].pc = "header"
  /\ LET s == At(wk[t].fd)
         q == inq[s]
         Front(k) == s \in Conns /\ q # <<>> /\ Head(q).k \in k
     IN /\ Misuse(Stale("recv", wk[t].fd, wk[t].cl))
        /\ \/ s = NoConn /\ Done(t) /\ UNCHANGED <<inq, peer>>
           \/ /\ Front({"hdr"})
              /\ inq' = [inq EXCEPT ![s] = Tail(q)]
              /\ wk' = [wk EXCEPT
                         ![t].pc = IF Head(q).m.kind = "long" THEN "error"
                                                              ELSE "payload",
                         ![t].msg = Head(q).m]
              /\ UNCHANGED peer
           \/ /\ Front({"auth"})           \* a whole packet of the wrong type
              /\ inq' = [inq EXCEPT ![s] = Tail(q)]
              /\ Done(t) /\ UNCHANGED peer
           \/ /\ Front({"pay", "junk"})    \* out of step with the client
              /\ \E rest \in Resync(q) : inq' = [inq EXCEPT ![s] = rest]
              /\ Goto(t, "error") \/ Goto(t, "garbled") \/ Done(t)
              /\ UNCHANGED peer
           \/ Ended(s, {"closed"}) /\ Goto(t, "close") /\ UNCHANGED <<inq, peer>>
           \/ /\ Ended(s, {"reset"})       \* ECONNRESET once, end of file after
              /\ peer' = [peer EXCEPT ![s] = "closed"]
              /\ Done(t) /\ UNCHANGED inq
  /\ UNCHANGED <<sent, part, backlog, out, fdVars, dirVars, num_thread, acc, up>>

\* The chunk read is the payload of the header read, with a true signature.
IntactUnchecked(ch, m) == ch = Part("pay", m)          \* mutant: no verification
Intact(ch, m) == ch = Part("pay", m) /\ m.kind # "forged"

\* recv of the payload and the checks of verify_packet.  It blocks the worker
\* until the client has sent it, or whatever comes first, or left.
RecvPayload(t) ==
  /\ wk[t].pc \in {"payload", "garbled"}
  /\ LET s == At(wk[t].fd)
         q == inq[s]
     IN /\ Misuse(Stale("recv", wk[t].fd, wk[t].cl))
        /\ \/ s = NoConn /\ Goto(t, "error") /\ UNCHANGED <<inq, peer>>
           \/ /\ wk[t].pc = "garbled" /\ s \in Conns /\ q # <<>>
              /\ \E rest \in Resync(q) : inq' = [inq EXCEPT ![s] = rest]
              /\ Goto(t, "error") \/ Done(t)
              /\ UNCHANGED peer
           \/ /\ wk[t].pc = "payload" /\ s \in Conns /\ q # <<>>
              /\ inq' = [inq EXCEPT ![s] = Tail(q)]
              /\ \/ ~Intact(Head(q), wk[t].msg) /\ Goto(t, "error")
                 \/ /\ Intact(Head(q), wk[t].msg)
                    /\ IF wk[t].msg.to \in NulUsers THEN Done(t)
                                                    ELSE Goto(t, "lookup")
              /\ UNCHANGED peer
           \/ Ended(s, {"closed"}) /\ Goto(t, "errorEof") /\ UNCHANGED <<inq, peer>>
           \/ /\ Ended(s, {"reset"})
              /\ peer' = [peer EXCEPT ![s] = "closed"]
              /\ Goto(t, "error") /\ UNCHANGED inq
  /\ UNCHANGED <<sent, part, backlog, out, fdVars, dirVars, num_thread, acc, up>>

\* The error packet of recv_packet and verify_packet; a failed send closes the
\* descriptor and frees the packet, and the caller frees it again.
SendError(t) ==
  /\ wk[t].pc \in {"error", "errorEof"}
  /\ \/ SendOk(wk[t].fd, Plain("error")) /\ UNCHANGED <<fdVars, misuse, up>>
     \/ /\ SendFails(wk[t].fd) /\ CloseFd(wk[t].fd) /\ DoubleFree
        /\ Misuse(Stale("close", wk[t].fd, wk[t].cl))
  /\ IF wk[t].pc = "errorEof" THEN Goto(t, "close") ELSE Done(t)
  /\ UNCHANGED <<clientVars, backlog, inq, dirVars, num_thread, acc>>

\* End of file: epoll DEL and close of the descriptor in the client_t.
CloseClient(t) ==
  /\ wk[t].pc = "close"
  /\ CloseFd(fdOf[wk[t].cl])
  /\ Misuse(Stale("close", fdOf[wk[t].cl], wk[t].cl))
  /\ Goto(t, "unregister")
  /\ UNCHANGED <<clientVars, netVars, dirVars, num_thread, acc, up>>

\* The entries of worker t's table that bear a name.
NamedAny(t, name) == {d \in table[t] : name # NoName}  \* mutant: no strncmp
Named(t, name) == {d \in table[t] : name # NoName /\ nameOf[d] = name}

\* hashtable_remove by the client's name, of whichever entry bears it.
Unregister(t) ==
  /\ wk[t].pc = "unregister"
  /\ LET entries == Named(t, nameOf[wk[t].cl]) IN
     \/ \E d \in entries : table' = [table EXCEPT ![t] = @ \ {d}]
                           /\ Goto(t, "rehash")
     \/ entries = {} /\ Done(t) /\ UNCHANGED table
  /\ UNCHANGED <<clientVars, netVars, fdVars, fdOf, nameOf, num_thread, acc,
                 misuse, up>>

\* The end of the re-insertion of the cluster after a removed entry.
Rehashed(t) ==
  /\ Rehashing(t) /\ Done(t)
  /\ UNCHANGED <<clientVars, netVars, fdVars, dirVars, num_thread, acc, misuse, up>>

MoreTablesShort(i) == i + 1 < NThreads                 \* mutant: off by one
MoreTables(i) == i < NThreads

\* get_clientfd: one table of the scan.  The table is copied and searched
\* without its owner's lock, so an entry can be missed while its owner rehashes.
Lookup(t) ==
  /\ wk[t].pc = "lookup"
  /\ LET i == wk[t].scan
         entries == Named(i, wk[t].msg.to)
     IN \/ \E d \in entries :
             /\ wk' = [wk EXCEPT ![t].pc = "sendhdr", ![t].dst = d,
                                 ![t].dfd = fdOf[d]]
             /\ UNCHANGED misuse
        \/ /\ entries = {} \/ Rehashing(i)
           /\ Misuse(IF entries = {} THEN {} ELSE {"table"})
           /\ IF MoreTables(i) THEN wk' = [wk EXCEPT ![t].scan = i + 1]
                              ELSE Done(t)
  /\ UNCHANGED <<clientVars, netVars, fdVars, dirVars, num_thread, acc, up>>

\* send_packet to the recipient: header, then payload, with a lock that the
\* other workers do not take.  A failure closes the recipient's descriptor and
\* leaves its table entry as it is.
Relay(t, at, k, then) ==
  /\ wk[t].pc = at
  /\ \/ /\ SendOk(wk[t].dfd, Part(k, wk[t].msg))
        /\ Misuse(Stale("send", wk[t].dfd, wk[t].dst))
        /\ then /\ UNCHANGED fdVars
     \/ /\ SendFails(wk[t].dfd) /\ CloseFd(wk[t].dfd)
        /\ Misuse(Stale("close", wk[t].dfd, wk[t].dst)) /\ Done(t)
  /\ UNCHANGED <<clientVars, backlog, inq, dirVars, num_thread, acc, up>>

RelayHeader(t)  == Relay(t, "sendhdr", "hdr", Goto(t, "sendpay"))
RelayPayloadToAll(t) ==                                \* mutant: scan goes on
  Relay(t, "sendpay", "pay",
        IF MoreTables(wk[t].scan)
        THEN wk' = [wk EXCEPT ![t].pc = "lookup", ![t].scan = @ + 1]
        ELSE Done(t))
RelayPayload(t) == Relay(t, "sendpay", "pay", Done(t))

Worker(t) == EpollWait(t) \/ NextEvent(t) \/ RecvHeader(t) \/ RecvPayload(t)
               \/ SendError(t) \/ CloseClient(t) \/ Unregister(t) \/ Rehashed(t)
               \/ Lookup(t) \/ RelayHeader(t) \/ RelayPayload(t)

Next == /\ up
        /\ Main \/ (\E t \in Threads : Worker(t)) \/ (\E c \in Conns : Client(c))

Spec == Init /\ [][Next]_vars

\* Each thread is a loop that is never left waiting by the scheduler, and a
\* client's authenticate_server and send_packet always finish what they began.
Fairness ==
  /\ WF_vars(up /\ Main)
  /\ \A t \in Threads : WF_vars(up /\ Worker(t))
  /\ \A c \in Conns : WF_vars(up /\ Answer(c)) /\ WF_vars(up /\ SendMessagePayload(c))

FairSpec == Spec /\ Fairness

----------------------------------------------------------------------------
(* Safety.  Relayed(c) are the places of c's output where a message arrived. *)

Relayed(c) == {i \in 1..Len(out[c]) : out[c][i].k = "pay"}

\* A message is relayed only to a connection of the user it is addressed to,
\* across lookups that race with arrivals, departures and removals (zmr.c
\* 141-149), as long as no send has hit a descriptor given out again.
RoutedToRecipient ==
  "send" \in misuse \/
  \A c \in Conns : \A i \in Relayed(c) : out[c][i].m.to = UserOf[c]

\* What one connection sent arrives at any other in the order it was sent
\* (one worker reads it, zmr.c 111-157), as long as no worker has read from a
\* descriptor given out again.
SenderOrder ==
  "recv" \in misuse \/
  \A c \in Conns : \A i, j \in Relayed(c) :
    i < j /\ out[c][i].m.src = out[c][j].m.src
      => out[c][i].m.seq < out[c][j].m.seq

\* No message is relayed twice, to one connection or to two, even with two
\* sessions of one user, recycled descriptors and streams out of step: the scan
\* of get_clientfd ends at the first entry and a packet read is consumed.
DeliveredOnce ==
  \A c, d \in Conns : \A i \in Relayed(c), j \in Relayed(d) :
    out[c][i].m = out[d][j].m => c = d /\ i = j

\* A forged or over-long packet, or a piece of one read out of step, is never
\* relayed (the checks of recv_packet 54-58 and verify_packet 206-216).
OnlyVerified ==
  \A c \in Conns : \A i \in Relayed(c) : out[c][i].m.kind = "msg"

\* An open descriptor belongs to the accept thread or is watched by exactly one
\* worker, and a watched connection has its descriptor: none leaks and no two
\* workers get events of one connection, on every error path of zmr.c.
DescriptorsOwned ==
  /\ \A f \in Fds : fdt[f] # NoConn =>
       \/ acc.pc # "idle" /\ acc.c = fdt[f]
       \/ \E t \in Threads : fdt[f] \in interest[t]
  /\ \A t \in Threads : \A c \in interest[t] :
       /\ \E f \in Fds : fdt[f] = c
       /\ \A u \in Threads \ {t} : c \notin interest[u]

\* Whatever is in a table was authenticated, is completely filled in, and is
\* in no other table (the order of zmr.c 264-285).
EntriesComplete ==
  \A t \in Threads : \A c \in table[t] :
    /\ fdOf[c] \in Fds /\ nameOf[c] = UserOf[c] /\ c \notin BadKeys
    /\ \A u \in Threads \ {t} : c \notin table[u]

\* A worker never has more than MaxClients clients (zmr.c 251-258), although
\* the check and the insertion are far apart, as long as no count or insertion
\* has met a rehash.
TableBounded ==
  "table" \in misuse \/ \A t \in Threads : Cardinality(table[t]) <= MaxClients

\* The "Active clients" of zmr.h 23: the descriptor of a registered entry is
\* open and its own, unless its worker is just removing it.
ActiveClients ==
  \A t \in Threads : \A c \in table[t] :
    At(fdOf[c]) = c \/ (wk[t].pc = "unregister" /\ wk[t].cl = c)

\* One that is open stays so until the end of its client's stream: no other packet
\* and no other worker closes it (send_packet, packet.c 161-167).
StayActive ==
  [][\A t \in Threads : \A c \in table[t] :
       At(fdOf[c]) = c /\ ~(wk[t].cl = c /\ wk[t].pc \in {"errorEof", "close"})
         => At(fdOf[c])' = c]_vars

\* The packets on a connection are whole: the payload follows its header (the
\* comments of packet.c 34, 73, 134 and 151).
PacketsWhole ==
  "send" \in misuse \/
  \A c \in Conns : \A i \in Relayed(c) :
    i > 1 /\ out[c][i - 1] = Part("hdr", out[c][i].m)

\* What is left of that with several workers, whose locks do not exclude each
\* other (zmr.c 122, 149): only pieces of other senders' packets, or the server's
\* own, come between a header and its payload.
WholePerSender ==
  misuse \cap {"send", "recv"} # {} \/
  \A c \in Conns : \A i \in Relayed(c) : \E j \in 1..i - 1 :
    /\ out[c][j] = Part("hdr", out[c][i].m)
    /\ \A k \in j + 1..i - 1 : out[c][k].k \in {"hdr", "pay"}
                                => out[c][k].m.src # out[c][i].m.src

\* No client in service is thrown out: an entry leaves a table only for a
\* client that has left, unless another connection has the same user or a
\* table was touched in the middle of a rehash (zmr.c 127-132, ht.c 84-113).
OnlyLeaversRemoved ==
  [][\A t \in Threads : \A c \in table[t] \ table'[t] :
       \/ peer[c] \in {"closed", "reset"}
       \/ \E d \in Conns \ {c} : UserOf[d] = UserOf[c]
       \/ misuse' # {}]_vars

NobodyLeft == \A c \in Conns : peer[c] \in {"off", "open"}

\* Until the first client leaves, the rotation of zmr.c 247-250 and 290 spreads
\* the clients: a connection is rejected only when every worker is full.
RejectsOnlyWhenFull ==
  [][NobodyLeft /\ backlog' \subseteq backlog /\ backlog' # backlog /\ fdt' = fdt
       => \A t \in Threads : TableFull(t)]_vars

----------------------------------------------------------------------------
(* The relay as a service.  A message is on its way while its header or its *)
(* payload is in a stream, its payload is still with the client, or a       *)
(* worker carries it.                                                       *)

\* A worker that has read a header, and one that has read the payload too.
Holding  == {"lookup", "sendhdr", "sendpay"}
Carrying == Holding \cup {"payload"}

Streams(k) ==
  UNION {{inq[c][i].m : i \in {j \in 1..Len(inq[c]) : inq[c][j].k = k}} : c \in Conns}
Headers  == Streams("hdr")
Streamed == Streams("pay")

Posted == [c \in Conns |-> IF sent[c] = -1 THEN 0 ELSE sent[c]]
InTransit ==
  Headers \cup Streamed
    \cup ({part[c] : c \in Conns} \ {NoMsg})
    \cup {wk[t].msg : t \in {u \in Threads : wk[u].pc \in Carrying}}
DeliveredTo(c) == {[m |-> out[c][i].m, at |-> c] : i \in Relayed(c)}
Deliveries == UNION {DeliveredTo(c) : c \in Conns}

\* zmr.c relays as RelayService promises, whatever its threads interleave and
\* wherever clients break off: only messages of clients it has authenticated,
\* each at most once and of one sender in order over all its recipients' connections,
\* only to authenticated connections of the recipient, and none that it had given up.
Service == INSTANCE RelayService
             WITH posted <- Posted, transit <- InTransit, delivered <- Deliveries,
                  stray <- misuse \cap {"send", "recv"}
ImplementsService == Service!Spec

----------------------------------------------------------------------------
(* Liveness, under FairSpec.                                                *)

Excused == ~up \/ misuse # {}

\* The accept loop comes back to accept() whatever the client it is serving
\* does, if that client answers its challenge or leaves (zmr.c 238-292).
AcceptorReturns == (acc.pc # "idle") ~> (acc.pc = "idle" \/ Excused)

\* A worker that has begun an event comes back to its loop, if clients finish
\* the packets they begin (zmr.c 117-157).
WorkerReturns ==
  \A t \in Threads : (wk[t].pc # "idle") ~> (wk[t].pc = "idle" \/ Excused)

\* The descriptor of a client that has left is closed in the end, whenever and
\* in whatever phase it left (zmr.c 65-74, 127-132; packet.c 161-167).
LeaverClosed ==
  \A c \in Closers : (peer[c] \in {"closed", "reset"} /\ \E f \in Fds : fdt[f] = c)
                     ~> (Excused \/ \A f \in Fds : fdt[f] # c)

\* A valid message that a client has sent while its recipient is registered is
\* relayed in the end, unless a client leaves first.
Relayable(m) ==
  /\ NobodyLeft /\ m.kind = "msg" /\ m.to \notin NulUsers
  /\ \E c \in Conns : \E i \in 1..Len(inq[c]) : inq[c][i] = Part("hdr", m)
  /\ \E t \in Threads : \E d \in table[t] : nameOf[d] = m.to
Delivered(m) ==
  \E c \in Conns : \E i \in Relayed(c) : out[c][i].m = m

SentBy(c) == {[src |-> c, seq |-> n, to |-> u, kind |-> "msg"] :
                n \in 1..Budget[c], u \in Users}
RelayedInTheEnd ==
  \A c \in Conns : \A m \in SentBy(c) : Relayable(m) ~> (Delivered(m) \/ ~NobodyLeft)
=============================================================================
