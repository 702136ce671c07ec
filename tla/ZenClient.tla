----------------------------- MODULE ZenClient -----------------------------
(***************************************************************************)
(* The terminal client zen: the interface and the receive thread, which    *)
(* share the list of users, current_user and one database handle; and the  *)
(* database, which outlives the process.                                   *)
(*                                                                         *)
(* What a thread has begun is the sequence of the steps it has still to    *)
(* take, todo[t], with one step for each point at which the other thread   *)
(* can come in between.                                                    *)
(***************************************************************************)
EXTENDS Integers, Sequences, Lists

CONSTANTS
  Peers,      \* public keys of other users
  Me,         \* the client's own
  Nicks,      \* nicknames
  Rank,       \* strcmp: the place of every name in its order
  Garbage,    \* what is read from memory that was never written, or is freed
  NoKey, NoText,
  Lines,      \* the list's first capacity
  Writers,    \* bound: the peers who send messages
  MaxTyped, MaxCommands, MaxGot, MaxStarts, MaxUsers   \* bounds: texts typed,
                                   \* commands, messages received, runs, list

Names == Peers \cup Nicks \cup {Garbage}

ASSUME ZenAssumption ==
  /\ Me \notin Names /\ NoKey \notin Names /\ Garbage \notin Peers \cup Nicks
  /\ Writers \subseteq Peers
  /\ Rank \in [Names -> Nat]
  /\ \A m, n \in Names : Rank[m] = Rank[n] => m = n
  /\ Lines \in Nat \ {0} /\ MaxUsers \in Nat
  /\ MaxTyped \in Nat /\ MaxCommands \in Nat /\ MaxGot \in Nat /\ MaxStarts \in Nat /\ NoText \notin Nat

VARIABLES
  rows,         \* table Users: [name, nick, rk, sk], in the order of its rows
  msgs,         \* table Messages
  state,        \* of the process: "down", "started", "listed" (it has its
                \* lists), "ready" (and its database), "freed" (by deinit)
  items, length, capacity, current_user,   \* the list of users
  mode,         \* current_mode
  input,        \* content: a text, and the users it may be meant for: who was
                \* selected, and whoever has become it since
  ptr,          \* the interface's recipient: a place in the array of a capacity
  todo,         \* the steps each thread has before it
  who, text, key,   \* each thread's locals: a name, a text, shared_key
  shared,       \* the threads whose call of db.c another has overlapped
  typed, commands, got, starts,   \* how many texts and commands were typed,
                \* messages received, and runs begun
  online,       \* the server is there
  sockfd,       \* this run has its socket open
  packets,      \* history: the packets made to be sent, and if sending succeeded
  gone          \* history: messages received that the database need not have:
                \* deleted, or lost by a failed statement or the process's end

dbVars == <<rows, msgs>>
listVars == <<items, length, capacity, current_user>>
uiVars == <<mode, input, ptr>>
localVars == <<who, text, key>>
historyVars == <<packets, gone>>
worldVars == <<typed, commands, got, starts, online, sockfd>>
vars == <<dbVars, state, listVars, uiVars, todo, localVars, shared, historyVars,
          worldVars>>

Threads == {"ui", "rx"}
Other(t) == IF t = "ui" THEN "rx" ELSE "ui"
Key(dir, name) == [dir |-> dir, of |-> name]
NoInput == [text |-> NoText, meant |-> {}]
NoPtr == [at |-> -1, capacity |-> 0]
Slots == 0..MaxUsers + 1

----------------------------------------------------------------------------
(* The programs of the handlers.                                            *)

\* draw_users and show_chat end in the same: get_messages of the user selected.
update_current_user == <<"search">>            \* and arraylist_add, if not found
EnterText == <<"get_sendkey", "send", "save_message", "get_messages", "reset">>
ChatCommand == <<"get_sendkey">> \o update_current_user \o <<"get_messages">>
Received == <<"get_receivekey", "decrypt", "save_message">>
              \o update_current_user \o <<"get_messages", "unlock">>

\* A key that is not stored is derived, and saved:
KeySaved(t) == <<IF t = "ui" THEN "save_sendkey" ELSE "save_receivekey">>
InitUi == <<"arraylist_init", "sqlite_init", "get_users", "get_messages">>

Up == state # "down"
Listed == state \in {"listed", "ready"}        \* there is a list of users
At(t, step) == todo[t] # <<>> /\ Head(todo[t]) = step
Goes(t, steps) == todo' = [todo EXCEPT ![t] = steps \o Tail(@)]
Begins(t, steps) == todo[t] = <<>> /\ todo' = [todo EXCEPT ![t] = steps]

Each(x) == [t \in Threads |-> x]
Unwritten == [i \in Slots |-> Garbage]

\* The process ends: what it kept in memory is lost.
Stops ==
  /\ state' = "down" /\ todo' = Each(<<>>)
  /\ items' = Unwritten /\ length' = 0 /\ capacity' = Lines /\ current_user' = 0
  /\ mode' = "NORMAL" /\ input' = NoInput /\ ptr' = NoPtr
  /\ who' = Each(Garbage) /\ text' = Each(NoText) /\ key' = Each(NoKey) /\ shared' = {}
  /\ gone' = gone \cup ({text["rx"]} \ {NoText})
  /\ UNCHANGED <<dbVars, worldVars, packets>>

\* The name a thread has at hand.  recipient points into the array of users:
\* to nothing outside it.
Name(t) ==
  IF t = "rx" \/ ptr = NoPtr THEN who[t]
  ELSE IF ptr.at >= 0 /\ ptr.at < ptr.capacity THEN items[ptr.at] ELSE Garbage

\* users->items[current_user].name
Selected ==
  IF current_user \in Slots /\ current_user < capacity THEN items[current_user] ELSE Garbage

\* An array that arraylist_add has replaced, or deinit has freed, is overwritten.
Overwritten ==
  /\ ptr # NoPtr /\ ptr.at # -1 /\ (ptr.capacity # capacity \/ state = "freed")
  /\ ptr' = [ptr EXCEPT !.at = -1]
  /\ UNCHANGED <<dbVars, state, listVars, mode, input, todo, localVars, shared,
                 historyVars, worldVars>>

----------------------------------------------------------------------------
(* db.c.                                                                    *)

Calls == {"get_users", "get_sendkey", "get_receivekey", "save_sendkey", "save_receivekey",
          "update_nickname", "save_message", "get_messages", "clear_messages"}
InCall(t) == todo[t] # <<>> /\ Head(todo[t]) \in Calls

\* A call opens the handle that both threads share, and runs its statement on it
\* and closes it; it may have opened it as soon as it is next.  The statement may
\* fail if the other thread has closed the handle since or is in a call too, and
\* before sqlite_init, when there is no path to open.
MayFail(t) == t \in shared \/ InCall(Other(t)) \/ state \in {"started", "listed"}

Runs(t, f, works, fails) ==
  /\ At(t, f)
  /\ shared' = (shared \ {t}) \cup (IF InCall(Other(t)) THEN {Other(t)} ELSE {})
  /\ works \/ (MayFail(t) /\ fails)
  /\ UNCHANGED <<state, mode, packets, worldVars>>
Statement(t, f, works, fails) ==
  Runs(t, f, works, fails) /\ UNCHANGED <<input, ptr, who, text>>

RowsOf(name) == {i \in 1..Len(rows) : rows[i].name = name}
Column(dir, row) == IF dir = "send" THEN row.sk ELSE row.rk
StoredZero(dir, name) ==                               \* mutant: blob not tested
  IF RowsOf(name) = {} THEN NoKey
  ELSE LET k == Column(dir, rows[CHOOSE i \in RowsOf(name) : TRUE])
       IN  IF k = NoKey THEN Key(dir, Garbage) ELSE k
Stored(dir, name) ==
  IF RowsOf(name) = {} THEN NoKey
  ELSE Column(dir, rows[CHOOSE i \in RowsOf(name) : TRUE])

Direction(t) == IF t = "ui" THEN "send" ELSE "recv"

\* What a name that is no public key leads to is left over on the stack, and is
\* saved all the same.
Derived(dir, name) == Key(dir, IF name \in Peers THEN name ELSE Garbage)

\* get_sendkey in client_kx, get_receivekey in receive_worker, and the key
\* exchange for a name that has no key, or whose statement has failed.
KeyExchange(t, found) ==
  IF found = NoKey
  THEN /\ key' = [key EXCEPT ![t] = Derived(Direction(t), Name(t))]
       /\ Goes(t, KeySaved(t))
  ELSE key' = [key EXCEPT ![t] = found] /\ Goes(t, <<>>)

GetKey(t) ==
  /\ Statement(t, IF t = "ui" THEN "get_sendkey" ELSE "get_receivekey",
               KeyExchange(t, Stored(Direction(t), Name(t))), KeyExchange(t, NoKey))
  /\ UNCHANGED <<dbVars, listVars, gone>>

\* INSERT OR REPLACE of a name, the name for a nickname, and one of the keys:
\* the row of that name goes, and one without the other key comes last.
NewRowSwapped(dir, name, k) ==                         \* mutant: both columns
  [name |-> name, nick |-> name, rk |-> k, sk |-> k]
NewRow(dir, name, k) ==
  [name |-> name, nick |-> name, rk |-> IF dir = "recv" THEN k ELSE NoKey,
                                 sk |-> IF dir = "send" THEN k ELSE NoKey]
Replaced(row) == Append(Picked(rows, (1..Len(rows)) \ RowsOf(row.name)), row)

\* save_sendkey, save_receivekey.
SaveKey(t) ==
  /\ Statement(t, IF t = "ui" THEN "save_sendkey" ELSE "save_receivekey",
               rows' = Replaced(NewRow(Direction(t), Name(t), key[t])),
               rows' = rows)
  /\ Goes(t, <<>>) /\ UNCHANGED <<msgs, listVars, key, gone>>

\* UPDATE Users: /nick name nickname.
UpdateNickname ==
  /\ Statement("ui", "update_nickname",
               \E nick \in Nicks :
                 rows' = [i \in 1..Len(rows) |-> IF i \in RowsOf(who["ui"])
                            THEN [rows[i] EXCEPT !.nick = nick] ELSE rows[i]],
               rows' = rows)
  /\ Goes("ui", <<>>) /\ UNCHANGED <<msgs, listVars, key, gone>>

Message(author, to, n) == [author |-> author, to |-> to, text |-> n]

RecipientAgain == Selected                             \* mutant: looked up anew
Recipient == Name("ui")
Saving(t) == IF t = "rx" THEN Message(who[t], Me, text[t])
                         ELSE Message(Me, Recipient, text[t])

SaveMessage(t) ==
  /\ Statement(t, "save_message",
               msgs' = msgs \cup {Saving(t)} /\ gone' = gone,
               msgs' = msgs /\ gone' = IF t = "rx" THEN gone \cup {text[t]} ELSE gone)
  /\ Goes(t, <<>>) /\ UNCHANGED <<rows, listVars, key>>

\* DELETE FROM Messages: /clear.
ClearMessages ==
  /\ Statement("ui", "clear_messages",
               msgs' = {} /\ gone' = gone \cup {m.text : m \in {n \in msgs : n.to = Me}},
               msgs' = msgs /\ gone' = gone)
  /\ Goes("ui", <<>>) /\ UNCHANGED <<rows, listVars, key>>

\* The end of a handler: free(shared_key) and, in the interface, reset_content.
EndSteps == {"unlock", "reset"}
Ends(t) ==
  /\ todo' = [todo EXCEPT ![t] = <<>>]
  /\ who' = [who EXCEPT ![t] = Garbage] /\ text' = [text EXCEPT ![t] = NoText]
  /\ key' = [key EXCEPT ![t] = NoKey]
  /\ IF t = "ui" THEN input' = NoInput /\ ptr' = NoPtr ELSE UNCHANGED <<input, ptr>>

\* Nothing comes between the last statement of a handler and its end.
GetMessages(t) ==
  /\ Runs(t, "get_messages", TRUE, TRUE)
  /\ IF \E step \in EndSteps : Tail(todo[t]) = <<step>> THEN Ends(t)
     ELSE Goes(t, <<>>) /\ UNCHANGED <<localVars, input, ptr>>
  /\ UNCHANGED <<dbVars, listVars, gone>>

\* A handler that has nothing to show: a packet not decrypted, an unknown command.
EndsEarly(t) ==
  /\ \E step \in EndSteps : At(t, step)
  /\ Ends(t)
  /\ UNCHANGED <<dbVars, state, listVars, mode, shared, historyVars, worldVars>>

\* SELECT Nickname FROM Users, with arraylist_add of each.
Grown ==
  LET cap[n \in 0..Len(rows)] ==
        IF n = 0 THEN capacity
        ELSE IF cap[n - 1] = length + n - 1 THEN 2 * cap[n - 1] ELSE cap[n - 1]
  IN  cap[Len(rows)]
GetUsers ==
  /\ Listed \/ rows = <<>>
  /\ Statement("ui", "get_users",
               /\ items' = [i \in Slots |-> IF i \in length..length + Len(rows) - 1
                                            THEN rows[i - length + 1].nick ELSE items[i]]
               /\ length' = length + Len(rows) /\ capacity' = Grown,
               UNCHANGED <<items, length, capacity>>)
  /\ Goes("ui", <<>>) /\ UNCHANGED <<dbVars, current_user, key, gone>>

----------------------------------------------------------------------------
(* The list of users: user.c, and update_current_user of ui.c.  Before there *)
(* is a list, and once it is freed, using it ends the process.              *)

\* arraylist_search: the place to look at between two.
MiddleShort(left, right) ==                            \* mutant: left < right
  IF left < right THEN left + (right - left) \div 2 ELSE -1
Middle(left, right) == IF left <= right THEN left + (right - left) \div 2 ELSE -1
Search(name) ==
  LET f[part \in [left : 0..MaxUsers + 1, right : -1..MaxUsers]] ==
        LET mid == Middle(part.left, part.right)
        IN  IF mid = -1 \/ items[mid] = name THEN mid
            ELSE IF Rank[items[mid]] < Rank[name] THEN f[[part EXCEPT !.left = mid + 1]]
            ELSE f[[part EXCEPT !.right = mid - 1]]
  IN  f[[left |-> 0, right |-> length - 1]]

\* The selection moves, and a text being typed may now be meant for another.
Select(t, i) ==
  /\ current_user' = i
  /\ input' = IF t = "rx" /\ input # NoInput /\ todo["ui"] = <<>>
              THEN [input EXCEPT !.meant = @ \cup {Selected'}] ELSE input

UseList(t, step) ==
  /\ At(t, step) /\ Listed
  /\ UNCHANGED <<dbVars, state, mode, ptr, localVars, shared, historyVars, worldVars>>

SearchUser(t) ==
  /\ UseList(t, "search")
  /\ UNCHANGED <<items, length, capacity>> /\ Select(t, Search(who[t]))
  /\ Goes(t, IF Search(who[t]) = -1 THEN <<"store", "count", "last">> ELSE <<>>)

\* arraylist_add: a full array is replaced by one twice as long; then length++.
StoreUser(t) ==
  /\ UseList(t, "store") /\ Goes(t, <<>>)
  /\ items' = [items EXCEPT ![length] = who[t]]
  /\ capacity' = IF capacity = length THEN 2 * capacity ELSE capacity
  /\ UNCHANGED <<length, current_user, input>>

CountUser(t) ==
  /\ UseList(t, "count") /\ Goes(t, <<>>)
  /\ length' = length + 1
  /\ UNCHANGED <<items, capacity, current_user, input>>

SelectLast(t) ==
  /\ UseList(t, "last") /\ Goes(t, <<>>)
  /\ UNCHANGED <<items, length, capacity>> /\ Select(t, length - 1)

NoList(t) ==
  /\ ~Listed
  /\ \/ \E step \in {"search", "store", "count", "last"} : At(t, step)
     \/ At(t, "get_users") /\ rows # <<>>
  /\ Stops

----------------------------------------------------------------------------
(* Packets: send_message of the interface, and receive_worker.              *)

\* The other thread, if closing a socket that was closed before may have hit the
\* database it had opened since.
ClosedUnder(t) == IF InCall(Other(t)) THEN {Other(t)} ELSE {}

\* send_message.  Sending to a server that has gone may fail, and does on a socket
\* that was closed before.  Then send_packet closes the socket and frees the
\* packet and send_message does both again: the allocator may notice and end the
\* process; if not, the interface goes on, and saves the text.
Packet(ok) == [text |-> text["ui"], to |-> Name("ui"), key |-> key["ui"],
               meant |-> input.meant, ok |-> ok]
SendFails == ~online \/ ~sockfd
Send ==
  /\ At("ui", "send")
  /\ \/ /\ Goes("ui", <<>>)
        /\ \/ /\ sockfd /\ packets' = packets \cup {Packet(TRUE)}
              /\ UNCHANGED <<sockfd, shared>>
           \/ /\ SendFails /\ packets' = packets \cup {Packet(FALSE)}
              /\ sockfd' = FALSE /\ shared' = shared \cup ClosedUnder("ui")
        /\ UNCHANGED <<dbVars, state, listVars, uiVars, localVars, gone, typed, commands,
                       got, starts, online>>
     \/ SendFails /\ Stops

Decrypt ==
  /\ At("rx", "decrypt")
  /\ IF key["rx"] = Key("recv", who["rx"]) THEN Goes("rx", <<>>)
     ELSE todo' = [todo EXCEPT !["rx"] = <<"unlock">>]
  /\ UNCHANGED <<dbVars, state, listVars, uiVars, localVars, shared, historyVars,
                 worldVars>>

\* The bound on the list: both threads may be about to add to it, or the rows of
\* the database are still to be.
Loading == \E i \in 1..Len(todo["ui"]) : todo["ui"][i] = "get_users"
Fits == length + 2 + (IF Loading THEN Len(rows) + 1 ELSE 0) <= MaxUsers

Receive(p) ==
  /\ p \in Writers /\ Up /\ online /\ Begins("rx", Received) /\ got < MaxGot /\ Fits
  /\ got' = got + 1
  /\ who' = [who EXCEPT !["rx"] = p] /\ text' = [text EXCEPT !["rx"] = got + 1]
  /\ UNCHANGED <<dbVars, state, listVars, uiVars, key, shared, historyVars, typed, commands,
                 starts, online, sockfd>>

\* The server answers a packet with an error packet, which has no length: the
\* client goes on to take it apart, and cipher_len wraps.
ReceiveError == Up /\ online /\ todo["rx"] = <<>> /\ (\E p \in packets : p.ok) /\ Stops

\* deinit: the socket is closed, perhaps again, and the lists are freed.  (Before
\* ui knows the socket it closes the terminal instead: no key comes after that.)
Deinit(t) ==
  /\ state' = "freed" /\ sockfd' = FALSE
  /\ shared' = IF sockfd THEN shared ELSE shared \cup ClosedUnder(t)
  /\ UNCHANGED <<dbVars, listVars, uiVars, localVars, historyVars, typed, commands, got,
                 starts, online>>

\* The connection has ended: deinit, which fails if it has run, or if there is
\* nothing yet to free.
ReceiveEnd ==
  /\ Up /\ (~online \/ ~sockfd) /\ todo["rx"] = <<>>
  /\ \/ Listed /\ Begins("rx", <<"exited">>) /\ Deinit("rx")
     \/ ~Listed /\ Stops

ServerCloses ==
  /\ Up /\ online /\ online' = FALSE
  /\ UNCHANGED <<dbVars, state, listVars, uiVars, todo, localVars, shared, historyVars,
                 typed, commands, got, starts, sockfd>>

----------------------------------------------------------------------------
(* main, and ui with its loop over the keys.  The window is the chat's just *)
(* while the mode is INSERT.                                                *)

Start ==
  /\ state = "down" /\ starts < MaxStarts /\ Len(rows) <= MaxUsers
  /\ state' = "started" /\ online' = TRUE /\ sockfd' = TRUE /\ starts' = starts + 1
  /\ Begins("ui", InitUi)
  /\ UNCHANGED <<dbVars, listVars, uiVars, localVars, shared, historyVars, typed,
                 commands, got>>

ArraylistInit ==
  /\ At("ui", "arraylist_init") /\ Goes("ui", <<>>) /\ state' = "listed"
  /\ UNCHANGED <<dbVars, listVars, uiVars, localVars, shared, historyVars, worldVars>>

\* It runs its statements on the shared handle too; there a failure is fatal.
SqliteInit ==
  /\ At("ui", "sqlite_init")
  /\ \/ /\ Goes("ui", <<>>) /\ state' = IF state = "listed" THEN "ready" ELSE state
        /\ shared' = IF InCall("rx") THEN shared \cup {"rx"} ELSE shared
        /\ UNCHANGED <<dbVars, listVars, uiVars, localVars, historyVars, worldVars>>
     \/ InCall("rx") /\ Stops

Keys == Up /\ todo["ui"] = <<>>
Pressed(modes) == Keys /\ mode \in modes

Insert ==
  /\ Pressed({"NORMAL"}) /\ typed < MaxTyped /\ mode' = "INSERT"
  /\ UNCHANGED <<dbVars, state, listVars, input, ptr, todo, localVars, shared, historyVars,
                 worldVars>>

Slash ==
  /\ Pressed({"NORMAL"}) /\ commands < MaxCommands /\ mode' = "COMMAND"
  /\ UNCHANGED <<dbVars, state, listVars, input, ptr, todo, localVars, shared, historyVars,
                 worldVars>>

\* ESC: reset_content.
Escape ==
  /\ Keys /\ mode' = "NORMAL" /\ input' = NoInput
  /\ UNCHANGED <<dbVars, state, listVars, ptr, todo, localVars, shared, historyVars,
                 worldVars>>

\* 'j' and 'k' test current_user and then change it.  length is unsigned: the
\* last place of an empty list is beyond any other, and before none (WithinBound
\* is the bound on where that leads).
BrowsingAlways == {"NORMAL", "INSERT", "COMMAND"}      \* mutant: in any mode
Browsing == {"NORMAL"}
BelowAlways == current_user >= 0                       \* mutant: no test
BelowLast == current_user >= 0 /\ (length = 0 \/ current_user < length - 1)
WithinBound == IF length = 0 THEN current_user < Lines ELSE current_user < MaxUsers

Move(step, can) ==
  /\ Pressed(Browsing)
  /\ Begins("ui", (IF can THEN <<step>> ELSE <<>>) \o <<"get_messages">>)
  /\ UNCHANGED <<dbVars, state, listVars, uiVars, localVars, shared, historyVars, worldVars>>

Lower == Move("down", BelowLast /\ WithinBound)
Higher == Move("up", current_user > 0)

Moved ==
  /\ \/ At("ui", "down") /\ current_user' = current_user + 1 /\ Goes("ui", <<>>)
     \/ At("ui", "up") /\ current_user' = current_user - 1 /\ Goes("ui", <<>>)
  /\ UNCHANGED <<dbVars, state, items, length, capacity, uiVars, localVars, shared,
                 historyVars, worldVars>>

\* A text, perhaps an empty one, for the user selected; CLEAR_INPUT drops it.
TypeText ==
  /\ Pressed({"INSERT"}) /\ input = NoInput /\ typed < MaxTyped
  /\ typed' = typed + 1 /\ input' = [text |-> typed + 1, meant |-> {Selected}]
  /\ UNCHANGED <<dbVars, state, listVars, mode, ptr, todo, localVars, shared, historyVars,
                 commands, got, starts, online, sockfd>>

ClearInput ==
  /\ Pressed({"INSERT"}) /\ input' = NoInput
  /\ UNCHANGED <<dbVars, state, listVars, mode, ptr, todo, localVars, shared, historyVars,
                 worldVars>>

\* ENTER in INSERT: get_panel_content.
Enter ==
  /\ Pressed({"INSERT"}) /\ input # NoInput /\ Begins("ui", EnterText)
  /\ ptr' = [at |-> IF current_user \in Slots THEN current_user ELSE -1,
             capacity |-> capacity]
  /\ text' = [text EXCEPT !["ui"] = input.text]
  /\ UNCHANGED <<dbVars, state, listVars, mode, input, who, key, shared, historyVars,
                 worldVars>>

\* ENTER in COMMAND: use_command.
Command(name, steps) ==
  /\ Pressed({"COMMAND"}) /\ Begins("ui", steps \o <<"reset">>) /\ mode' = "NORMAL"
  /\ commands' = commands + 1
  /\ who' = [who EXCEPT !["ui"] = name]
  /\ UNCHANGED <<dbVars, state, listVars, input, ptr, text, key, shared, historyVars,
                 typed, got, starts, online, sockfd>>

Chat(name) == Fits /\ Command(name, ChatCommand)
Nick(name) == Command(name, <<"update_nickname", "get_messages">>)
Clear == Command(Garbage, <<"clear_messages", "get_messages">>)
Help == Command(Garbage, <<>>)                       \* or no command there is

\* 'q': deinit, a second time if the receive thread has run it; then main
\* cancels and joins the receive thread, wherever it is.
Quit ==
  /\ Pressed({"NORMAL"})
  /\ \/ Listed /\ Begins("ui", <<"exit">>) /\ Deinit("ui")
     \/ ~Listed /\ Stops

Exit == At("ui", "exit") /\ Stops

----------------------------------------------------------------------------
Init ==
  /\ rows = <<>> /\ msgs = {}
  /\ state = "down" /\ todo = Each(<<>>)
  /\ items = Unwritten /\ length = 0 /\ capacity = Lines /\ current_user = 0
  /\ mode = "NORMAL" /\ input = NoInput /\ ptr = NoPtr
  /\ who = Each(Garbage) /\ text = Each(NoText) /\ key = Each(NoKey) /\ shared = {}
  /\ typed = 0 /\ commands = 0 /\ got = 0 /\ starts = 0
  /\ online = FALSE /\ sockfd = FALSE /\ packets = {} /\ gone = {}

Ui ==
  \/ ArraylistInit \/ SqliteInit \/ GetUsers \/ Insert \/ Slash \/ Escape
  \/ Lower \/ Higher \/ Moved \/ TypeText \/ ClearInput \/ Enter \/ Send \/ Overwritten
  \/ \E name \in Peers \cup Nicks : Chat(name)
  \/ \E name \in Peers : Nick(name)
  \/ UpdateNickname \/ Clear \/ ClearMessages \/ Help \/ Quit \/ Exit

Rx == Decrypt \/ ReceiveError \/ ReceiveEnd \/ \E p \in Peers : Receive(p)

Either(t) ==
  \/ GetKey(t) \/ SaveKey(t) \/ SaveMessage(t)
  \/ GetMessages(t) \/ SearchUser(t) \/ StoreUser(t) \/ CountUser(t) \/ SelectLast(t)
  \/ NoList(t) \/ EndsEarly(t)

Next == Start \/ ServerCloses \/ Ui \/ Rx \/ \E t \in Threads : Either(t)

Spec == Init /\ [][Next]_vars

----------------------------------------------------------------------------
(* Properties.                                                              *)

\* The state has its types, and the selection that two threads move without a
\* lock is never further from the list than two places before its first, or, while
\* there are users and none is being added, one place past its end (current_user, ui.c).
KeyType == [dir : {"send", "recv"}, of : Names] \cup {NoKey}
TypeOK ==
  /\ rows \in Seq([name : Names, nick : Names, rk : KeyType, sk : KeyType])
  /\ msgs \subseteq [author : Peers \cup {Me}, to : Names \cup {Me}, text : Nat]
  /\ state \in {"down", "started", "listed", "ready", "freed"}
  /\ items \in [Slots -> Names] /\ length \in 0..MaxUsers
  /\ mode \in {"NORMAL", "INSERT", "COMMAND"}
  /\ current_user >= -2
  /\ length > 0 => current_user <= length \/ \E t \in Threads : At(t, "last")

\* A key stored for a peer, or used for a packet to one who was selected, is the key
\* of that peer and of that direction, though each saving drops the other key,
\* both threads save, and statements fail on the shared handle; or else it was
\* made of a name that was no key (save_sendkey, save_receivekey, client_kx).
Mine(dir, name) == {Key(dir, name), Key(dir, Garbage)}
RightKeys ==
  /\ \A i \in 1..Len(rows) : rows[i].name \in Peers =>
       /\ rows[i].rk \in {NoKey, Key("recv", rows[i].name)}
       /\ rows[i].sk \in {NoKey} \cup Mine("send", rows[i].name)
  /\ \A p \in packets : p.to \in Peers /\ Garbage \notin p.meant =>
       p.key \in Mine("send", p.to)

\* A text that the database has for a user went into a packet for that same user,
\* whether or not sending it succeeded: though the selection and the array that
\* recipient points into may change between the two (get_panel_content).
SavedAsAddressed ==
  \A m \in msgs : m.author = Me /\ m.to # Garbage =>
    \E p \in packets : p.text = m.text /\ p.to \in {m.to, Garbage}

\* A text goes to the user who was selected when it was begun, or to one whose
\* message has moved the selection since: no key moves it under the text (ui).
\* A text begun when no user was selected may reach one who was added since.
SentToMeant == \A p \in packets : Garbage \in p.meant \/ p.to \in p.meant \cup {Garbage}

\* A message received is in the database, unless it was deleted, its statement
\* failed because of the other thread, or the process ended: it can always be
\* decrypted, whatever keys the database has lost (receive_worker).
NothingDropped ==
  \A n \in 1..got :
    \/ n \in gone
    \/ \E m \in msgs : m.to = Me /\ m.text = n
    \/ text["rx"] = n

\* While the names in the list are in order, each of them is found where it is
\* (arraylist_search): that they are in order nothing sees to.
SearchFinds ==
  (\A i, j \in 0..length - 1 : i < j => Rank[items[i]] < Rank[items[j]]) =>
    \A i \in 0..length - 1 : Search(items[i]) = i
=============================================================================
