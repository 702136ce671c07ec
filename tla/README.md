# zsm in TLA+

zsm is a secure messaging system: a relay server (`zmr`), a terminal client
(`zen`), a web client (`space`) and a proxy between WebSockets and the relay
(`zws`). This directory holds TLA+ modules translated from its source, the TLC
configurations that check them on small instances, and proofs checked by TLAPS.

## 1. Inventory

| part | source | state | operations |
|---|---|---|---|
| relay `zmr` | `src/zmr/zmr.c` | descriptors, one epoll set and one client table per worker, `num_thread` | accept, authenticate, hand over to a worker; read, verify, look up the recipient, relay; drop a closed client |
| client table | `src/zmr/ht.c` | `TABLE_SIZE` slots | add, search, remove with re-insertion, length |
| packets | `src/lib/packet.c` | a socket and its position in the stream | `send_packet`, `recv_packet`, `verify_packet`, `free_packet` |
| zen, connection | `src/zen/zen.c` | socket, configuration | authenticate, send a message, the receive thread |
| zen, database | `src/zen/db.c` | tables Users and Messages, one global handle | save and get keys, nickname, messages |
| zen, user list | `src/zen/user.c` | a growing array | add, remove, search by bisection, sort |
| zen, interface | `src/zen/ui.c` | mode, window, input buffer, `current_user`, both lists | the key loop, commands, `deinit` |
| web client | `src/space/script.js` | authentication state, stored users and messages, selection | WebSocket and click handlers |
| proxy | `src/zws/ws.ts` | one TCP connection per WebSocket | forwarding both ways, closing |
| others | `lib/key.c`, `lib/util.c`, `space/theme.js`, page, build files | none that matters here | |

**How they interact.** A client opens a TCP connection to the relay (the web
client through the proxy). `main` of zmr accepts it, sends a challenge, waits
for the answer, sends AUTHORISED, and puts the connection into the epoll set and
the table of one of 8 workers, in rotation. A worker reads a packet from a
connection it watches, verifies the sender's signature, looks the recipient up
in the tables of all workers and sends the packet to the descriptor it finds.
The threads share the tables and the descriptor numbers; the mutexes of the code
(`table_lock` in `main`, `message_lock` in each worker) are each taken by one
thread only and so exclude nobody. In zen a receive thread and the interface
share the database handle, the user list and `current_user`.

**What is hard.** Descriptors are numbers that the kernel gives out again, and
the relay keeps them in batches of events, in table entries and in local
variables across steps of other threads. A packet is two system calls each way.
A failed send closes the descriptor under code that goes on using it, and frees
a packet that its caller frees again. A connection is watched before its
`client_t` is filled in. Tables are read while their owner re-inserts entries.
Clients leave in the middle of anything. `PROJECT.json` lists every hazard at
its line, with the properties that cover it.

**What makes each part correct.**
- relay: a message goes to its recipient only, once, in order, whole, and in the
  end; entries are complete, true and bounded in number; descriptors are owned
  by one thread and closed when their client has left; threads come back to
  their loops.
- client table: a set searched by name.
- packets: what is relayed is what a client sent and signed, however the stream
  was cut.
- zen: both keys and the nickname of a user survive each other's updates; the
  message typed for a user goes to that user, and is stored for that user; no
  thread uses what the other has freed.
- web client: two packets close together are handled in order; each message is
  sent once; a stored user keeps its shape.
- proxy: each direction is a byte stream in order; closing one side closes the
  other.

## 2. Modules

| module | what it is |
|---|---|
| `Zmr` | the relay: `main`, `authenticate_client`, `thread_worker`, `get_clientfd`, with `recv_packet`, `send_packet` and `verify_packet` as they call them, the kernel's descriptors and epoll sets, and the clients of `zen.c` |
| `RelayService` | abstract specification of the relay: messages posted, on their way, delivered; `Zmr` refines it |
| `ZmrProofs`, `ZmrDeliveryProofs` | theorems about it: types, routing, entries, descriptors, removals, limits, balance; packets: verified, once, in order, each sender's whole; the refinement |
| `NameSet` | abstract specification of a client table: a set of entries, searched and removed by name |
| `HashTable` | `ht.c`, slot by slot; refines `NameSet` |
| `HashTableProofs` | theorems about it, and the refinement, by `InductionProofs` |
| `Lists` | `Picked`: what filtering a list leaves, for `WebChat` and `ZenClient` |
| `InductionProofs` | induction over sets of naturals, for recursive functions, and the lemmas about `Picked` |
| `ByteStream` | abstract specification of one direction of a connection: bytes in order, an end after the last |
| `WsProxy` | `ws.ts`, handler by handler; each direction refines `ByteStream` |
| `WsProxyProofs` | theorems about it: the order in which things end, both refinements |
| `WebSession` | `authenticate` and `onmessage` of `script.js`, await by await, composed with `WsProxy` and with the relay as one client sees it |
| `WebSessionProofs` | theorems about it: saved once, answered once |
| `WebChat` | the rest of `script.js`: localStorage, the forms and lists of the page |
| `WebChatProofs` | theorems about it: all its properties |
| `ZenClient` | the terminal client: `ui.c`, the receive thread of `zen.c`, `db.c`, `user.c` |
| `ZenClientProofs` | theorems about it: all its properties |
| `MC...` | small instances of each |

### Zmr
*State.* `fdt` is the process's descriptor table: descriptor number to
connection. A `client_t` is identified with the connection it was allocated for;
`fdOf` and `nameOf` are its two fields, `table[t]` the set of entries in worker
t's hash table, `interest[t]` its epoll set. `acc` and `wk[t]` hold the program
counters and locals of the accept thread and the workers. `backlog`, `inq[c]`,
`out[c]` are what the kernel and the network hold; `peer`, `sent`, `part` are the
clients. `up` is FALSE once the process has aborted (a double free may abort
it). `misuse` is a history variable, see below.

*Steps.* One action per piece of code between two points where another thread
can see a difference: each system call, each write to a shared field, each
table operation. `Accept` (accept and the length check), `SendChallenge`,
`RecvAnswer`, `Refuse`, `Authorise`, `EpollAdd`, `SetFd`, `SetName`, `Register`
for `main`; `EpollWait`, `NextEvent`, `RecvHeader`, `RecvPayload`, `SendError`,
`CloseClient`, `Unregister`, `Rehashed`, `Lookup`, `RelayHeader`, `RelayPayload`
for a worker. Every use of a descriptor number goes through `At`, so a number
that was closed is an error (EBADF) and one that was given out again reaches the
connection that has it now.

*Data.* A packet is a record of sender, sequence number, recipient and kind
(`"msg"` valid, `"long"` over MAX_DATA_LENGTH, `"forged"` with a wrong
signature), sent as two chunks, header and payload, as `send_packet` does. A
chunk is delivered whole and in order; a peer that leaves is `"closed"` (end of
file; sends to it go nowhere or fail) or `"reset"` (ECONNRESET once, then end of
file; sends fail).  After an erroneous read the reader is out of step: `Resync`
gives what may be left of the stream, and what was read for a header may be refused, or make
the worker wait for a payload and meet the end of the stream there (`"garbled"`). An unwritten `client_t.fd` holds any
number of `Garbage`, which the runs set to one that is no descriptor and, in
`Recycle`, to one that may be another client's; an unwritten username is `NoName`, which is no
entry's name.

*Memory races.* The tables are read and written without a common lock. Between
`Unregister` and `Rehashed` the owner is in the middle of re-inserting: a count
taken then may be wrong (`Accept`), a lookup may miss an entry (`Lookup`), and an
insertion may overwrite or be overwritten (`Register`). Outside that window the
operations on slots are single writes and taken as atomic.

*The history variable `misuse`.* It records that a system call has hit a
descriptor which was closed and given to another connection ("send", "recv",
"close"), or that a table was touched in the middle of a rehash ("table"). All of
these can happen. The properties marked with it hold until then and not
afterwards: without the excuse TLC violates `RoutedToRecipient` (a message goes to
whoever has the number now) and `SenderOrder`. Stating them this way shows that
descriptor reuse and the rehash window are the *only* ways in which they fail.
`DeliveredOnce`, `OnlyVerified`, `DescriptorsOwned`, `EntriesComplete` need no
excuse.

*The service.* `RelayService` knows no descriptors, workers or packets: `Post` (an
authenticated client sends its next message), `Deliver`, `Drop`. `ImplementsService`
maps it onto `Zmr`: `Posted` counts what clients have sent, a message is in
`InTransit` while its header or payload is in a stream, its payload is still with the
client, or a worker carries it, and `Deliveries` are the payloads in the outputs, each
with its connection. A delivery takes its message out of transit in the same step, so
nothing is delivered twice, and neither a misread stream nor a dropped client brings a message
back. To whom, and in what order, is promised while `misuse` has no "send" and no
"recv" respectively: these two are the service's `stray`.

### HashTable
`slot` is the array, `hash` any function from names to slots (it stands for
FNV-1a modulo TABLE_SIZE, so that every pattern of collisions is covered).
`Probe` counts the slots passed until an empty one or an entry of the name;
`AddTo`, `Found` and `Emptied` are what `hashtable_add`, `_search` and `_remove`
do, the re-insertion loop round by round (`Reinsert`). Loops are recursive
functions, so that no module needs RECURSIVE. `Zmr` uses its tables as the sets of
`NameSet`; the refinement, proved for every size and hash function, justifies that.

### ByteStream, WsProxy
`page`, `ws`, `tcp` and `relay` are the two sockets of one proxied connection as
each end sees them; `up`, `toRelay`, `toProxy`, `down` are the bytes under
way. `HandleMessage` cuts what the page sends after `HeaderBytes` and writes both
pieces (the header is written, then the rest if there is any), `HandleConnect`
lets go what was written before the connection was there, `HandleData` passes on
what has come, in whatever pieces, `HandleTcpClose` and `HandleWsClose` close the
other side. The page, the relay and the kernel do whatever they may at their ends:
send, read a part, close, vanish, reset, refuse. `ByteStream` has what was sent,
what was got, and two states of the ends; the refinement is checked once for each
direction.

### WebSession
`onmessage` looks at `state`, awaits the bytes, and acts on what it saw: a call that
waits is an element of `pending`, with the branch it has taken, and any of them may
go on first. `Challenge`, `Verdict` and `Save` are the three branches. A token is the
header or the payload of a packet; the proxy cuts and merges them. `disturbed` is a
history of the three things that can go wrong on the way: a packet was "cut" in two
messages, packets were "merged" into one, or two calls "raced" for one state.

### WebChat
Handlers of the page run to completion, so each is one action: choosing a form,
making keys, logging in, answering, the verdict, clicking, adding, renaming and deleting users,
sending, receiving, reloading, signing out. `login`, `users` and
`messages` are what localStorage keeps, `buttons`, `selectedUser`, `shown` and `input` what the
DOM and the page's variables hold until it is loaded again. A user who has written first is stored as a
string, one who was added as an object (`shape`): after a reload the first kind is
listed under the name `Undef`. The sockets of earlier logins are kept, as their
listeners are. Lists are filtered with `Picked` (`Lists`), a recursive function, so
that the proofs can follow it.

### ZenClient
`todo[t]` is what thread t has still to do of the handler it is in, one step for
each point at which the other thread may come in: `EnterText`, `ChatCommand`,
`Received` and `InitUi` are the programs. `rows` and `msgs` are the database, which
survives `Stops` and `Start`. `items`, `length`, `capacity` and `current_user` are the list
with its growth; `ptr` is the `recipient` of `get_panel_content`, a pointer into the
array, which an `arraylist_add` may move and a later allocation overwrite
(`Overwritten`, then `Garbage`). The handle of the database is shared: a statement
may fail if the other thread is in a call of `db.c` or has closed the handle since
(`MayFail`), and before `sqlite_init`. The build is not optimised, so that 'j' and
'k' test `current_user` and increment it in two steps. Using a freed list, freeing
it twice, and an error packet (whose length makes `cipher_len` wrap) end the process. A send
that fails closes the socket twice and frees its packet twice: that may end the process too, and
if it does not, the interface goes on and stores the text (`Send`). `packets` is the history of what was
made to be sent, with whether it was, and `sockfd` says if the run's socket is open: closing it
again may hit the database that the other thread has opened under its number (`ClosedUnder`).
`meant` is a history: who was selected when a text was begun, and whoever the
receive thread has selected since.

The bisection (`Search`) and the doubling of the array while it is filled (`Grown`) are
recursive functions, a round of the code's loop each.

Simplified: loading the users is one step, a search is one step, drawing and
`show_chat` are one `get_messages`, a text is typed in one step. Left out: messages to
oneself, a failing disk.

## 3. Runs

| run | instance | states | shows |
|---|---|---|---|
| `Recycle` | 3 connections, 2 of one user, 1 leaves, garbage may be a live descriptor | 915,411 | order per sender, no duplicates, descriptors owned by one thread, refinement of `RelayService` |
| `Live` | 4 clients, 1 of them with a wrong key, 1 leaves, 2 workers with room for 1 each, fairness | 97,434 | types, messages reach only their recipient, limits and entries of the tables, who is refused and who is removed; threads return to their loops, leavers' descriptors are closed, a valid message is relayed in the end |
| `Framing` | 2 workers, 2 clients with 1 and 2 packets, valid, over-long or forged, 1 recipient with a zero byte | 880,125 | only verified messages relayed; no packet is torn apart by another one of the same sender |
| `HashTable` | 5 entries, 2 names twice, 4 slots, all 64 hash functions | 41,600 | entries reachable, the re-insertion loop ends, refinement of `NameSet` |
| `Proxy` | messages of 4 and 1 bytes up, 1 and 2 down, headers of 2, fairness | 105,192 | both directions are byte streams; both sides end together; what was sent arrives |
| `Session` | 2 messages relayed to the page, packets cut and merged, fairness | 22,006 | saved once, one answer to one challenge; logged in and saved in the end |
| `Chats` | 1 account, 2 peers, 1 text typed, 2 messages received, 2 buttons and 2 sockets of earlier logins | 1,303,786 | what is shown and highlighted is true, one text is sent once, authors are known, unread messages are notified |
| `Zen` | 2 peers, 1 of whom writes, 1 nickname, 1 text, 1 command, 1 message received, 2 runs of the client | 1,646,697 | keys are the right ones, a text is sent to whom it was meant and stored for whom it was addressed to, received messages are kept, the search |
| `Ghost` | 2 workers, 1 client leaves, nobody sends, expected violation | | a client that left during `main`'s last steps is filed as active |
| `FailedSend` | 2 workers, 1 message, its recipient leaves, expected violation | | a failed send closes a client's descriptor and leaves its entry |
| `Interleave` | 2 workers, expected violation | | header, header, payload, payload on one connection |
| `Unread` | as `Chats`, nothing typed, expected violation | | a message of a user who had written first is marked unread nowhere after a reload |

**Bounds of the relay.** Connections are opened at most once each (`peer` never
returns to "off"), messages per client are bounded by `Budget`, descriptors by `Fds`
(always as many as connections, so accept never lacks one), and one payload is
misread at most twice (`Resync`). Two workers are enough for every race between
a reader, a remover and the accept thread, since two workers and main are three
threads and each race is between two; three connections are enough for a sender,
a leaver and one that gets the leaver's number. In `Live` `MaxClients` is 1, so that the
limit is met by the third client if the first is still there. With five entries for four
slots the hash table is full, wraps, and refuses an entry.

**Bounds of the web client.** `MaxUp` and `MaxDown` bound the bytes sent on a
connection; with headers of 2 bytes (5 in the code) one message is longer than a header
and one is shorter. `MaxMsgs = 2` lets two messages race through `onmessage`; in `Session` a
packet is its header and its payload, the relay's own two writes, and the stream is
cut or merged only there. In `Chats` (`MaxTyped`, `MaxGot`, `MaxButtons`, `MaxSockets`) two
peers are one to look at and one to be hit by mistake; they are interchangeable,
and TLC is told so. It is one tab.

**Bounds of zen.** `MaxStarts = 2` for what one run leaves to the next. `Lines = 1` is
the list's first capacity, so that it grows when the second user comes (`MaxUsers`
bounds it: where a command or a message begins by `Fits`, where a run begins by the length of
the table; `WithinBound` where an empty list lets 'j' lead). The order of the names
puts the garbage first and the nickname before its owner, so that the list is
sorted in some behaviours and unsorted in others. One text, one command and one
message (`MaxTyped`, `MaxCommands`, `MaxGot`) are one handler of each kind, and two
threads are never in more than two handlers. The message is from the peer
whose name comes last (`Writers`); texts and commands are for either, so that keys and places
of two users can be mixed up.

**Deadlock** is not checked where a system rests once its bounded inputs are used
up: everywhere but in `HashTable`, which has no such rest.

**Fairness.** `FairSpec` of `Zmr`: weak fairness of `Main`
and of each `Worker(t)`: each is an endless loop of its own thread, which the
scheduler runs while it can go on. Weak fairness of `Answer(c)` and
`SendMessagePayload(c)`: `authenticate_server` (zen.c 13-56) answers at once and
`send_packet` (packet.c 121-168) sends the payload right after the header.
Nothing forces a client to connect, to send or to leave. Without the second kind
the accept loop and a worker can wait for ever, as hazards in `PROJECT.json`
say. `Excused` leaves out behaviours in which the process aborted or a
descriptor was misused. `ProxyFairSpec`: the proxy's event loop runs its handlers,
the kernel delivers and the relay reads what has come and closes at the end of
the stream; nothing forces the page to do anything. `FairSpec` of `WebSession`
adds the page's event loop (`OnMessage`, `Resume`) and the relay's threads.
`ZenClient` and `WebChat` promise nothing in the end, and have no fairness.

**What the models show.** Four of the things found are in the runs that expect a
violation, since a comment of the code says otherwise:
- `Ghost`: a connection is watched before its client is filed (zmr.c 275). If the client
  leaves in between, its worker closes the connection and finds no entry to remove, and
  `main` then files it among the "Active clients" (zmr.h 23), where it stays.
- `FailedSend`: `send_packet` closes the recipient's descriptor on failure (packet.c 166)
  and nobody removes its entry. `StayActive` tells this from the first: it is about a
  descriptor that was open when its entry was there.
- `Interleave`: two workers relaying to one recipient interleave the two halves of
  their packets. `WholePerSender` (`Framing`) is what remains true of it: for each
  sender by itself the two halves are next to each other.
- `Unread`: a user who has written first is stored as a string (script.js 340); after a
  reload such a user is listed under no name, and "If not viewing message from the user,
  notify user of unread message" (347) fails. `UnreadNotified` (`Chats`) is what remains
  true: it holds of every other user.

The other behaviours are what the code does. We know of no statement in the repository
that they contradict; they appear in the models as steps, and in the properties as the
cases they leave out:
- web client: the state is looked at before an await and acted upon after
  (script.js 308), and a packet can come in pieces (ws.ts 51): a login can be left
  waiting, or a message be lost. A text is shown and stored although the socket is
  closed (script.js 265). A user who is stored as a string cannot be given a
  nickname that lasts (script.js 230). The delete icon deletes the user it belongs to and the messages of the
  user who is selected (script.js 207).
- zen: the receive thread moves the selection, and so the recipient of what is
  being typed (ui.c 652); the list is loaded from the nicknames, which are no keys
  (db.c 24); an error packet of the relay ends the client (zen.c 154); in an empty
  list 'j' runs away (ui.c 806); a text is stored though its sending failed,
  unless the double free of the packet ends the process first (ui.c 656, zen.c 122); the receive thread begins before the list and the database are
  there (zen.c 346); storing one key of a user drops the other one and the
  nickname (db.c 141): `RightKeys` and `NothingDropped` say what nevertheless holds.

**Mutants.** Every property has a mutated definition beside the one it mutates
(`TableFullLate`, `WatchAll`, `CloseWsNot`, ...), a bug that someone could write there, under
which the property fails.

## 4. Proofs

Every theorem is `Spec => ...` of the module it is about, for every value of the
constants. The only assumptions are those the modules state of their constants:
`ConstantsAssumption` (`Zmr`: `NoConn`, `NoMsg`, `NoName` are outside the sets they
stand for "none" of, sets of descriptors and the rest are typed), `ProxyAssumption`
(`WsProxy`), `TableAssumption` (`HashTable`), `ChatAssumption` (`WebChat`), `ZenAssumption`
(`ZenClient`). No property is
inductive as it stands; what follows is, for each, what had to be added and why. TLC
checked the strengthened invariants before they were proved: those of the relay
on the instances of `Framing` and `Recycle`, the others on those of `Proxy`,
`Session`, `HashTable`, `Chats` and `Zen`.

### Routing, entries, descriptors, limits (`ZmrProofs`)
- `TypeCorrect`: `TypeOK`.
- `RoutingCorrect`: `RoutedToRecipient`. A send says nothing about how its target was
  chosen. `RoutingInv` adds that a name, once written, is the user of its connection
  (`NamesTrue`), and that a worker between lookup and send has a target which bears the
  recipient's name (`TargetsTrue`). `Lookup` picks by name; a send reaches `At(dfd)`, which
  is that target, or nothing, or another connection, and then `misuse` records it.
- `EntriesCorrect`: `EntriesComplete`, whoever can be looked up has proved to hold the
  key of its name. `Register` files whatever the accept thread has made of its client, so
  `EntryInv` adds that a connection not yet accepted is nowhere in the server
  (`FreshOutside`, `OffNotPending`), that the accept thread's descriptor stands for its
  client or, after a worker has closed it, for nothing (`AccOwnsFd`: the answer that
  is verified is the client's own), and what `main` has established at each of its steps
  (`AccChecked`, `AccFilledIn`, `AccNotYetIn`).
- `OwnersCorrect`: `DescriptorsOwned`. `OwnerInv` is `EntryInv` with: only accepted
  connections have descriptors, and one each (`FdsAccepted`, `FdsDistinct`), the accept thread
  owns none but its client's (`AccOnlyFd`), watched by nobody before `EpollAdd`
  and by a worker after it (`AccUnwatched`, `AccWatched`).
- `RemovalCorrect`: `OnlyLeaversRemoved`, an action property. `LeaverInv`: a worker on its way
  to `Unregister` holds a client that has left, or something was misused (`PartingLeft`).
- `BoundCorrect`: `TableBounded`. The count is checked at `Accept`, the client registered
  seven steps later. `BoundInv`: from the check on there is room in the table of
  `num_thread` (`RoomForClient`); only `main` adds.
- `RejectionCorrect`: `RejectsOnlyWhenFull`, until a client leaves; and `BalanceCorrect`, that two
  workers differ by at most one client, which no run checks apart.
  `BalanceInv`: workers before `num_thread` in the rotation have one client more than those
  from it on (`Rotated`).

### Packets (`ZmrDeliveryProofs`)
- `VerificationCorrect`: `OnlyVerified`. `PacketInv` follows a packet: what is in a stream,
  half read, held by a worker and relayed is a packet of the connection it names, and from the
  verification on a valid one (`StreamsTrue`, `PartsTrue`, `PacketsTrue`, `RelayedTrue`).
- `DeliveryCorrect`: `DeliveredOnce`. `OnceInv`: a payload is in one place only: once in a
  stream, or held by one worker, or delivered (`StreamedOnce`, `PartsUnread`,
  `StreamedNotHeld`, `HeldOnce`). Needs no excuse: a descriptor given out again sends
  a message to the wrong connection, but not twice.
- `OrderCorrect`: `SenderOrder`. At most one worker reads from a connection or carries
  what it read (`ClaimInv`), and what it carries was sent before everything still in the
  stream and after everything relayed (`HeadersOrdered`, `CarriedFirst`,
  `RelayedFirst`, `OwnStreams`, `RelayedEarlier`), until a descriptor is misused.
- `WholeCorrect`: `WholePerSender`, for any number of workers. `FramedInv`: while a
  worker is between its two sends, the header it has sent is the last that its sender has on the
  recipient's connection (`HeadersOut`). What other workers put there in between is of other
  senders, since no two workers carry packets of one (`OthersFramed`, from `OrderInv`); and if
  the number it sends to is another connection's by then, `misuse` records it. Without "of one
  sender" it is false: the run `Interleave`.
- `ServiceCorrect`: `Zmr` refines `RelayService`. `ServiceInv` joins `OnceInv`, `OrderInv` and
  `RoutingInv` with three facts that concern several actors: whoever has been told
  AUTHORISED has answered rightly, so that only such clients post (`Answered`); one worker carries a
  message, so that a delivery leaves no copy on its way (`CarriedOnce`); and the
  target of a packet being sent has the right key (`TargetsPassed`). Then,
  step by step: a client's header is a `Post` (`ClientServes`), a payload that goes out is a
  `Deliver` (`PayloadServes`, from `SendDelivers`), and whatever else a worker or `main` does
  is a `Drop` or a stutter (`WorkerServes`, `MainServes`), since it adds nothing to what is on
  its way (`WorkerTransit`).

### The client table (`HashTableProofs`)
- `ReachableCorrect`, `RehashEndsCorrect`: `Reachable`, `RehashEnds`.
- `TableCorrect`: `HashTable` refines `NameSet`, for every size and hash function.

`TableInv`: an entry is in one slot (`Distinct`), no slot on the way from an entry's home to
it is empty (`AllReach`), and some slot is on the way to no entry but its own
(`Avoids`): an empty one, or in a full table the last one filled. Without the last, nothing
bounds the re-insertion loop of a full table. The loop's own invariant, `Loop`, says
after k rounds that only the removed entry is gone and that everything is reachable
except for what the emptied slot still breaks (`Repairing`). Each operation on the slots is then
shown to be the operation of `NameSet` on the set of entries (`CountIs` relates the
number of slots filled to the cardinality of that set).

### The proxy (`WsProxyProofs`)
- `ProxyTypeCorrect`: `ProxyTypeOK`. `ProxyInv` adds that a closed WebSocket has no open
  page, and that a page sees a close only after the TCP connection is gone.
- `UplinkCorrect`, `DownlinkCorrect`: both directions refine `ByteStream`. `UpInv` and
  `DownInv`: what has been read is a prefix of what was sent, and the queues on the way
  hold the following slices, in order. The lemmas on `Slice` and `Follow` move a
  piece from one queue to the next; then each handler is a step of `ByteStream` or a stutter.

### The web client (`WebSessionProofs`, `WebChatProofs`)
- `SavingCorrect`: `SavedOnce`. `SavedInv`: the header of a message is in exactly one place:
  not yet relayed, on the network, in a message of the WebSocket, in a waiting call, or saved
  (`OnNetwork`, `InMessages`, `InCalls`, `InStore`).
- `AnsweringCorrect`: `AnswersOnce`. `AnswersInv`: either no answer was given, and the
  challenge is on its way (`OnItsWay`) or one call waits to answer it (`Unanswered`), or one was,
  and no call is left that could give another (`AnsweredOne`), or a packet was cut.
- `ChatTypeCorrect`: `TypeOK`. `PanelsOpen`: a socket means an account in use, panels
  mean a socket, an authenticated socket means panels.
- `ShownCorrect`: `ShownIsConversation`. `ShownInv`: what is shown is the end of the conversation also
  when the panels are not displayed, and nothing is shown under a form, where the account
  may change.
- `HighlightCorrect`, `TypedCorrect`: `HighlightTruthful`, `TypedOnce`. `TypedInv`: the texts
  stored have numbers up to the last one typed, and not the one in the field.
- `AuthorsCorrect`, `UnreadCorrect`: the action properties `KnownAuthors`,
  `UnreadNotified`. `ListedInv`: a user stored as an object has a button.

### The terminal client (`ZenClientProofs`)
The two threads of `zen` share everything and lock nothing, so that each invariant says what
one thread may find at any point of the other's program. What a thread has still to do
is a list; `UiTodo` and `RxTodo` are all the lists there are (`EnterSave`, `RxKeep`, ...), the places of
the two programs, and `UiMoves`, `RxMoves`, `UiHeads`, `RxHeads` say which call leads from
which place to which. On them rests everything else.

- `ZenTypeCorrect`: `TypeOK`. `Base` has the types, what each thread has at hand while it is
  at a place that uses it (`TextTypes`), and the bound on the list: what is in it, what each
  thread may still add, and what is still to be loaded fit together (`Room`). `Selecting`
  says how far the selection can be from the list: 'j' and 'k' test it in one step and
  move it in another, so that the bound between the two is a narrower one.
- `SearchCorrect`: `SearchFinds`. `SearchFound` is the correctness of the bisection for
  any list in order, from `SearchIn` (the answer is no place, or one in the part searched)
  by induction over the length of that part. `ListInv` gives it a list of names.
- `MeantCorrect`: `SentToMeant`. From its first key to its sending a text's recipient is a
  place, not a name: `MeantInv` says that the place has a name (`Filled`), and that it is the one
  meant (`Meant`). It keeps that name because whatever lies beyond the list was never written
  but for a user who is being added (`Unused`), because the interface loads nothing and
  searches for nobody while a text is at hand (`TypedOrNot`), and because the receive
  thread writes past the end only.
- `KeysCorrect`: `RightKeys`. `RowKeys` is what it says of the database; `KeyAtHand` what each
  thread holds between the call that finds or makes a key and the one that stores it or
  sends with it, where the recipient may have become garbage in between (`NameStep`).
- `SavedCorrect`: `SavedAsAddressed`. `PacketMade`: a text about to be saved went into a packet,
  sent or not, for whoever its pointer names now, unless that is garbage. Only the array that moves lies between the two.
- `KeptCorrect`: `NothingDropped`. `Kept`: every message received is in the database or lost (`InStore`), or
  is the one at hand, and none is at hand once the thread is past saving it. It needs
  `KeyAtHand`: the receive thread's key is the sender's, so that decryption cannot fail
  and the thread never gives a message up.

The lemmas `PickedIs`, `PickedAppend` and `PickedNone` (`InductionProofs`) say what `Picked` returns: a
conversation after a message more or a user less, the table of users with a row replaced.

### Recursive functions
`Probe`, the re-insertion loop, `Picked` and `Search` are recursive functions. What they
compute for every table or list is proved by induction from `InductionProofs`: a set of
naturals that has 0 and every successor is `Nat`, from the least element of its complement. The
set is always one of numbers of rounds (or places), so that no operator is a parameter.

### Model-checked only
- Liveness (`AcceptorReturns`, `WorkerReturns`, `LeaverClosed`, `RelayedInTheEnd`,
  `EndsTogether`, `ArrivesInTheEnd`, `LoggedInInTheEnd`, `SavedInTheEnd`): fairness is out
  of the prover's reach.
- `ActiveClients`, `StayActive`, `PacketsWhole` and `AlwaysNotified` are false of the code (`Ghost`,
  `FailedSend`, `Interleave`, `Unread`).

Every other property that a run checks is stated by a theorem.

## 5. Not modelled, and why

- zmr: start-up failures and signals (exit or nothing); a `send` that blocks on a
  full socket buffer; `accept` without a free descriptor (it retries); `memalloc`
  returning NULL; packets of length 0 and type MESSAGE, which no client here
  sends; key material (a signature is right or wrong).
- packets byte by byte: a header that TCP delivers in two pieces is a read error,
  as an over-long packet is; `Resync` has what comes after. That the longest text
  of the interface makes an over-long packet is arithmetic.
- zen: reading the configuration and creating keys (before the threads run), the
  notification, drawing and colours, a failing disk. `get_nickname`,
  `arraylist_remove` and `arraylist_sort` have no caller, and the marked list is
  always empty.
- web client: two tabs that write one localStorage (whether a browser locks it
  differs), layout, the alerts, `theme.js`, the order in which the page loads its
  scripts.
- the proxy's web page and console output; build files.

## 6. Plan

Done: the relay, the table, the proxy, the web client and the terminal client,
the runs above, and the proofs of section 4: every safety property of the runs
that pass. Next:

- `SlotRace`: the table's operations slot by slot under a concurrent reader and
  writer, to justify the rehash window of `Zmr`.
