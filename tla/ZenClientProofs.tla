--------------------------- MODULE ZenClientProofs ---------------------------
(***************************************************************************)
(* Theorems about the terminal client, for any number of users, texts,     *)
(* messages and runs, and every interleaving of its two threads.           *)
(***************************************************************************)
EXTENDS ZenClient, InductionProofs

----------------------------------------------------------------------------
(* Where each thread can be.                                                *)

Ending == <<"get_messages", "reset">>
EnterSave == <<"save_sendkey", "send", "save_message", "get_messages", "reset">>
EnterSend == <<"send", "save_message", "get_messages", "reset">>
EnterStore == <<"save_message", "get_messages", "reset">>
Typing == {EnterText, EnterSave, EnterSend, EnterStore}

ChatKey == <<"get_sendkey", "search", "get_messages", "reset">>
ChatSave == <<"save_sendkey", "search", "get_messages", "reset">>
ChatSearch == <<"search", "get_messages", "reset">>
ChatStore == <<"store", "count", "last", "get_messages", "reset">>
ChatCount == <<"count", "last", "get_messages", "reset">>
ChatLast == <<"last", "get_messages", "reset">>
Chatting == {ChatKey, ChatSave, ChatSearch, ChatStore, ChatCount, ChatLast}

Drawing == {<<"get_messages">>, <<"down", "get_messages">>, <<"up", "get_messages">>}
Beginning ==
  {InitUi, <<"sqlite_init", "get_users", "get_messages">>, <<"get_users", "get_messages">>}
Commanding ==
  {<<"update_nickname", "get_messages", "reset">>,
   <<"clear_messages", "get_messages", "reset">>, <<"reset">>}
UiTodo == {<<>>, Ending, <<"exit">>} \cup Commanding \cup Typing \cup Chatting \cup Drawing
            \cup Beginning

RxKey == <<"get_receivekey", "decrypt", "save_message", "search", "get_messages", "unlock">>
RxSave == <<"save_receivekey", "decrypt", "save_message", "search", "get_messages", "unlock">>
RxDecrypt == <<"decrypt", "save_message", "search", "get_messages", "unlock">>
RxKeep == <<"save_message", "search", "get_messages", "unlock">>
RxSearch == <<"search", "get_messages", "unlock">>
RxStore == <<"store", "count", "last", "get_messages", "unlock">>
RxCount == <<"count", "last", "get_messages", "unlock">>
RxLast == <<"last", "get_messages", "unlock">>
RxShow == <<"get_messages", "unlock">>
Receiving ==
  {RxKey, RxSave, RxDecrypt, RxKeep, RxSearch, RxStore, RxCount, RxLast, RxShow}
RxTodo == {<<>>, <<"unlock">>, <<"exited">>} \cup Receiving

\* The types.
Row == [name : Names, nick : Names, rk : KeyType, sk : KeyType]
Text == Nat \cup {NoText}
ListTypes ==
  /\ rows \in Seq(Row)
  /\ items \in [Slots -> Names] /\ length \in Nat /\ current_user \in Int
  /\ who \in [Threads -> Names]
StateTypes ==
  /\ state \in {"down", "started", "listed", "ready", "freed"}
  /\ mode \in {"NORMAL", "INSERT", "COMMAND"}
  /\ ptr = [at |-> ptr.at, capacity |-> ptr.capacity] /\ ptr.at \in {-1} \cup Slots
  /\ todo \in [Threads -> UiTodo \cup RxTodo] /\ todo["ui"] \in UiTodo /\ todo["rx"] \in RxTodo
  /\ state = "down" => todo = Each(<<>>) /\ length = 0
TextTypes ==
  /\ msgs \subseteq [author : Peers \cup {Me}, to : Names \cup {Me}, text : Nat]
  /\ text \in [Threads -> Text] /\ key \in [Threads -> KeyType]
  /\ typed \in Nat /\ got \in Nat
  /\ input = [text |-> input.text, meant |-> input.meant]
  /\ input = NoInput \/ input.text \in Nat
  /\ todo["rx"] \in Receiving => who["rx"] \in Peers /\ text["rx"] \in 1..got
  /\ todo["ui"] \in Typing => text["ui"] \in Nat

\* The bound on the list: what is in it, and what each thread may still add.
UiAdds(l) == IF l \in {ChatKey, ChatSave, ChatSearch, ChatStore, ChatCount} THEN 1 ELSE 0
RxAdds(l) ==
  IF l \in {RxKey, RxSave, RxDecrypt, RxKeep, RxSearch, RxStore, RxCount} THEN 1 ELSE 0
RxSaves(l) == IF l \in {RxKey, RxSave} THEN 1 ELSE 0
Loads(l) == IF l \in Beginning THEN Len(rows) + RxSaves(todo["rx"]) ELSE 0
Room == length + UiAdds(todo["ui"]) + RxAdds(todo["rx"]) + Loads(todo["ui"]) <= MaxUsers

\* What every step needs of the state.
Base == ListTypes /\ StateTypes /\ TextTypes /\ Room

\* The selection: at most two places before the list's first, and at most one past its end
\* unless a thread is about to select the user it has added. 'j' and 'k' have tested it
\* before they move it, and the receive thread can move it in between.
Selecting ==
  /\ current_user >= -2
  /\ state = "down" => current_user = 0
  /\ todo["ui"] = <<"up", "get_messages">> => current_user >= -1
  /\ length = 0 /\ todo["ui"] \in Beginning => current_user <= 0
  /\ length > 0 /\ todo["ui"] # ChatLast /\ todo["rx"] # RxLast =>
       current_user <= IF todo["ui"] = <<"down", "get_messages">> THEN length - 1 ELSE length
  /\ length = 0 => todo["ui"] # ChatLast /\ todo["rx"] # RxLast
\* What lies beyond the list was never written, but for a user being added.
Unused ==
  \A i \in Slots : i >= length /\ items[i] # Garbage =>
    i = length /\ (todo["ui"] = ChatCount \/ todo["rx"] = RxCount)

\* The interface is between a text's first key and the end of its drawing.
InEntry == todo["ui"] \in Typing \/ todo["ui"] = Ending
\* What is typed, the recipient's place and the name at hand belong to an entry.
TypedOrNot ==
  /\ input # NoInput => mode = "INSERT" /\ state # "down" /\ (todo["ui"] = <<>> \/ InEntry)
  /\ ptr # NoPtr => InEntry
  /\ todo["ui"] \in Typing =>
       input # NoInput /\ who["ui"] = Garbage /\ text["ui"] = input.text
  /\ todo["ui"] \in {<<>>} \cup Drawing \cup Beginning => who["ui"] = Garbage
\* A place that has a name, or is about to be counted.
Filled(i) == i \in Slots /\ (i < length \/ (i = length /\ todo["rx"] = RxCount))
\* Who a text is meant for is at the place that is selected, then at the one it points to.
Meant ==
  /\ input # NoInput /\ todo["ui"] = <<>> /\ Garbage \notin input.meant =>
       Filled(current_user) /\ items[current_user] \in input.meant
  /\ todo["ui"] \in Typing /\ Garbage \notin input.meant =>
       ptr.at = -1 \/ (Filled(ptr.at) /\ items[ptr.at] \in input.meant)

\* The keys of a peer's row are its own, each in its column.
RowKeys ==
  \A i \in 1..Len(rows) : rows[i].name \in Peers =>
     /\ rows[i].rk \in {NoKey, Key("recv", rows[i].name)}
     /\ rows[i].sk \in {NoKey} \cup Mine("send", rows[i].name)
\* The key at hand is the one of the name at hand, where a call is yet to use it.
KeyAtHand ==
  /\ todo["rx"] \in {RxSave, RxDecrypt} => key["rx"] = Key("recv", who["rx"])
  /\ todo["rx"] # <<"unlock">>
  /\ todo["ui"] \in {EnterSave, ChatSave} =>
       \/ key["ui"] = Key("send", Garbage)
       \/ todo["ui"] = EnterSave /\ ptr.at = -1
       \/ Name("ui") \in Peers /\ key["ui"] = Key("send", Name("ui"))
  /\ todo["ui"] = EnterSend /\ Garbage \notin input.meant /\ Name("ui") \in Peers =>
       key["ui"] \in Mine("send", Name("ui"))
\* What is about to be saved went into a packet, for whom it will be saved for.
PacketMade ==
  todo["ui"] = EnterStore =>
    \E s \in packets : s.text = text["ui"] /\ (s.to \in {Garbage, Name("ui")} \/ ptr.at = -1)

\* Text n needs no thread any more: it is in the database, or lost.
InStore(n) == n \in gone \/ \E m \in msgs : m.to = Me /\ m.text = n
\* A text received is at hand until it is.
Kept ==
  /\ \A n \in 1..got : InStore(n) \/ text["rx"] = n
  /\ todo["rx"] \in {<<>>, RxSearch, RxStore, RxCount, RxLast, RxShow} =>
       \A n \in 1..got : InStore(n)

----------------------------------------------------------------------------
(* The programs, step by step.                                              *)

\* The calls that a program is made of.
Step ==
  {"arraylist_init", "sqlite_init", "get_users", "get_messages", "reset", "unlock", "exit",
   "exited", "save_sendkey", "get_sendkey", "send", "save_message", "search", "store", "count",
   "last", "update_nickname", "clear_messages", "down", "up", "get_receivekey",
   "save_receivekey", "decrypt"}

\* Lists of steps put together.
LEMMA Joined ==
  /\ <<"save_sendkey">> \o <<"send", "save_message", "get_messages", "reset">> =
       <<"save_sendkey", "send", "save_message", "get_messages", "reset">>
  /\ <<"save_sendkey">> \o <<"search", "get_messages", "reset">> =
       <<"save_sendkey", "search", "get_messages", "reset">>
  /\ <<"save_receivekey">> \o <<"decrypt", "save_message", "search", "get_messages", "unlock">> =
       <<"save_receivekey", "decrypt", "save_message", "search", "get_messages", "unlock">>
  /\ <<"store", "count", "last">> \o <<"get_messages", "reset">> =
       <<"store", "count", "last", "get_messages", "reset">>
  /\ <<"store", "count", "last">> \o <<"get_messages", "unlock">> =
       <<"store", "count", "last", "get_messages", "unlock">>
  /\ <<"get_sendkey">> \o <<"search">> = <<"get_sendkey", "search">>
  /\ <<"get_sendkey", "search">> \o <<"get_messages">> =
       <<"get_sendkey", "search", "get_messages">>
  /\ <<"get_sendkey", "search", "get_messages">> \o <<"reset">> =
       <<"get_sendkey", "search", "get_messages", "reset">>
  /\ <<"get_receivekey", "decrypt", "save_message">> \o <<"search">> =
       <<"get_receivekey", "decrypt", "save_message", "search">>
  /\ <<"get_receivekey", "decrypt", "save_message", "search">> \o <<"get_messages", "unlock">> =
       <<"get_receivekey", "decrypt", "save_message", "search", "get_messages", "unlock">>
  /\ <<"update_nickname", "get_messages">> \o <<"reset">> =
       <<"update_nickname", "get_messages", "reset">>
  /\ <<"clear_messages", "get_messages">> \o <<"reset">> =
       <<"clear_messages", "get_messages", "reset">>
  /\ <<"down">> \o <<"get_messages">> = <<"down", "get_messages">>
  /\ <<"up">> \o <<"get_messages">> = <<"up", "get_messages">>
<1>1. <<"save_sendkey">> \o <<"send", "save_message", "get_messages", "reset">> =
        <<"save_sendkey", "send", "save_message", "get_messages", "reset">>
  <2>1. /\ <<"save_sendkey">> \in Seq(Step)
        /\ <<"send", "save_message", "get_messages", "reset">> \in Seq(Step)
    BY DEF Step
  <2>2. PICK m : m = <<"save_sendkey">> \o <<"send", "save_message", "get_messages", "reset">>
    OBVIOUS
  <2>3. /\ m \in Seq(Step) /\ Len(m) = 5
        /\ m[1] = "save_sendkey" /\ m[2] = "send" /\ m[3] = "save_message"
        /\ m[4] = "get_messages" /\ m[5] = "reset"
    BY <2>1, <2>2
  <2>4. m = <<"save_sendkey", "send", "save_message", "get_messages", "reset">>
    BY ONLY <2>3
  <2> QED BY ONLY <2>2, <2>4
<1>2. <<"save_sendkey">> \o <<"search", "get_messages", "reset">> =
        <<"save_sendkey", "search", "get_messages", "reset">>
  <2>1. <<"save_sendkey">> \in Seq(Step) /\ <<"search", "get_messages", "reset">> \in Seq(Step)
    BY DEF Step
  <2>2. PICK m : m = <<"save_sendkey">> \o <<"search", "get_messages", "reset">>
    OBVIOUS
  <2>3. /\ m \in Seq(Step) /\ Len(m) = 4
        /\ m[1] = "save_sendkey" /\ m[2] = "search" /\ m[3] = "get_messages"
        /\ m[4] = "reset"
    BY <2>1, <2>2
  <2>4. m = <<"save_sendkey", "search", "get_messages", "reset">>
    BY ONLY <2>3
  <2> QED BY ONLY <2>2, <2>4
<1>3. <<"save_receivekey">> \o <<"decrypt", "save_message", "search", "get_messages", "unlock">> =
        <<"save_receivekey", "decrypt", "save_message", "search", "get_messages", "unlock">>
  <2>1. /\ <<"save_receivekey">> \in Seq(Step)
        /\ <<"decrypt", "save_message", "search", "get_messages", "unlock">> \in Seq(Step)
    BY DEF Step
  <2>2. PICK m : m = <<"save_receivekey">>
                         \o <<"decrypt", "save_message", "search", "get_messages", "unlock">>
    OBVIOUS
  <2>3. /\ m \in Seq(Step) /\ Len(m) = 6
        /\ m[1] = "save_receivekey" /\ m[2] = "decrypt" /\ m[3] = "save_message"
        /\ m[4] = "search" /\ m[5] = "get_messages" /\ m[6] = "unlock"
    BY <2>1, <2>2
  <2>4. m = <<"save_receivekey", "decrypt", "save_message", "search", "get_messages", "unlock">>
    BY ONLY <2>3
  <2> QED BY ONLY <2>2, <2>4
<1>4. <<"store", "count", "last">> \o <<"get_messages", "reset">> =
        <<"store", "count", "last", "get_messages", "reset">>
  <2>1. <<"store", "count", "last">> \in Seq(Step) /\ <<"get_messages", "reset">> \in Seq(Step)
    BY DEF Step
  <2>2. PICK m : m = <<"store", "count", "last">> \o <<"get_messages", "reset">>
    OBVIOUS
  <2>3. /\ m \in Seq(Step) /\ Len(m) = 5
        /\ m[1] = "store" /\ m[2] = "count" /\ m[3] = "last"
        /\ m[4] = "get_messages" /\ m[5] = "reset"
    BY <2>1, <2>2
  <2>4. m = <<"store", "count", "last", "get_messages", "reset">>
    BY ONLY <2>3
  <2> QED BY ONLY <2>2, <2>4
<1>5. <<"store", "count", "last">> \o <<"get_messages", "unlock">> =
        <<"store", "count", "last", "get_messages", "unlock">>
  <2>1. <<"store", "count", "last">> \in Seq(Step) /\ <<"get_messages", "unlock">> \in Seq(Step)
    BY DEF Step
  <2>2. PICK m : m = <<"store", "count", "last">> \o <<"get_messages", "unlock">>
    OBVIOUS
  <2>3. /\ m \in Seq(Step) /\ Len(m) = 5
        /\ m[1] = "store" /\ m[2] = "count" /\ m[3] = "last"
        /\ m[4] = "get_messages" /\ m[5] = "unlock"
    BY <2>1, <2>2
  <2>4. m = <<"store", "count", "last", "get_messages", "unlock">>
    BY ONLY <2>3
  <2> QED BY ONLY <2>2, <2>4
<1>6. <<"get_sendkey">> \o <<"search">> =
        <<"get_sendkey", "search">>
  <2>1. <<"get_sendkey">> \in Seq(Step) /\ <<"search">> \in Seq(Step)
    BY DEF Step
  <2>2. PICK m : m = <<"get_sendkey">> \o <<"search">>
    OBVIOUS
  <2>3. /\ m \in Seq(Step) /\ Len(m) = 2
        /\ m[1] = "get_sendkey" /\ m[2] = "search"
    BY <2>1, <2>2
  <2>4. m = <<"get_sendkey", "search">>
    BY ONLY <2>3
  <2> QED BY ONLY <2>2, <2>4
<1>7. <<"get_sendkey", "search">> \o <<"get_messages">> =
        <<"get_sendkey", "search", "get_messages">>
  <2>1. <<"get_sendkey", "search">> \in Seq(Step) /\ <<"get_messages">> \in Seq(Step)
    BY DEF Step
  <2>2. PICK m : m = <<"get_sendkey", "search">> \o <<"get_messages">>
    OBVIOUS
  <2>3. /\ m \in Seq(Step) /\ Len(m) = 3
        /\ m[1] = "get_sendkey" /\ m[2] = "search" /\ m[3] = "get_messages"
    BY <2>1, <2>2
  <2>4. m = <<"get_sendkey", "search", "get_messages">>
    BY ONLY <2>3
  <2> QED BY ONLY <2>2, <2>4
<1>8. <<"get_sendkey", "search", "get_messages">> \o <<"reset">> =
        <<"get_sendkey", "search", "get_messages", "reset">>
  <2>1. <<"get_sendkey", "search", "get_messages">> \in Seq(Step) /\ <<"reset">> \in Seq(Step)
    BY DEF Step
  <2>2. PICK m : m = <<"get_sendkey", "search", "get_messages">> \o <<"reset">>
    OBVIOUS
  <2>3. /\ m \in Seq(Step) /\ Len(m) = 4
        /\ m[1] = "get_sendkey" /\ m[2] = "search" /\ m[3] = "get_messages"
        /\ m[4] = "reset"
    BY <2>1, <2>2
  <2>4. m = <<"get_sendkey", "search", "get_messages", "reset">>
    BY ONLY <2>3
  <2> QED BY ONLY <2>2, <2>4
<1>9. <<"get_receivekey", "decrypt", "save_message">> \o <<"search">> =
        <<"get_receivekey", "decrypt", "save_message", "search">>
  <2>1. <<"get_receivekey", "decrypt", "save_message">> \in Seq(Step) /\ <<"search">> \in Seq(Step)
    BY DEF Step
  <2>2. PICK m : m = <<"get_receivekey", "decrypt", "save_message">> \o <<"search">>
    OBVIOUS
  <2>3. /\ m \in Seq(Step) /\ Len(m) = 4
        /\ m[1] = "get_receivekey" /\ m[2] = "decrypt" /\ m[3] = "save_message"
        /\ m[4] = "search"
    BY <2>1, <2>2
  <2>4. m = <<"get_receivekey", "decrypt", "save_message", "search">>
    BY ONLY <2>3
  <2> QED BY ONLY <2>2, <2>4
<1>10. <<"get_receivekey", "decrypt", "save_message", "search">> \o <<"get_messages", "unlock">> =
        <<"get_receivekey", "decrypt", "save_message", "search", "get_messages", "unlock">>
  <2>1. /\ <<"get_receivekey", "decrypt", "save_message", "search">> \in Seq(Step)
        /\ <<"get_messages", "unlock">> \in Seq(Step)
    BY DEF Step
  <2>2. PICK m : m = <<"get_receivekey", "decrypt", "save_message", "search">>
                         \o <<"get_messages", "unlock">>
    OBVIOUS
  <2>3. /\ m \in Seq(Step) /\ Len(m) = 6
        /\ m[1] = "get_receivekey" /\ m[2] = "decrypt" /\ m[3] = "save_message"
        /\ m[4] = "search" /\ m[5] = "get_messages" /\ m[6] = "unlock"
    BY <2>1, <2>2
  <2>4. m = <<"get_receivekey", "decrypt", "save_message", "search", "get_messages", "unlock">>
    BY ONLY <2>3
  <2> QED BY ONLY <2>2, <2>4
<1>11. <<"update_nickname", "get_messages">> \o <<"reset">> =
        <<"update_nickname", "get_messages", "reset">>
  <2>1. <<"update_nickname", "get_messages">> \in Seq(Step) /\ <<"reset">> \in Seq(Step)
    BY DEF Step
  <2>2. PICK m : m = <<"update_nickname", "get_messages">> \o <<"reset">>
    OBVIOUS
  <2>3. /\ m \in Seq(Step) /\ Len(m) = 3
        /\ m[1] = "update_nickname" /\ m[2] = "get_messages" /\ m[3] = "reset"
    BY <2>1, <2>2
  <2>4. m = <<"update_nickname", "get_messages", "reset">>
    BY ONLY <2>3
  <2> QED BY ONLY <2>2, <2>4
<1>12. <<"clear_messages", "get_messages">> \o <<"reset">> =
        <<"clear_messages", "get_messages", "reset">>
  <2>1. <<"clear_messages", "get_messages">> \in Seq(Step) /\ <<"reset">> \in Seq(Step)
    BY DEF Step
  <2>2. PICK m : m = <<"clear_messages", "get_messages">> \o <<"reset">>
    OBVIOUS
  <2>3. /\ m \in Seq(Step) /\ Len(m) = 3
        /\ m[1] = "clear_messages" /\ m[2] = "get_messages" /\ m[3] = "reset"
    BY <2>1, <2>2
  <2>4. m = <<"clear_messages", "get_messages", "reset">>
    BY ONLY <2>3
  <2> QED BY ONLY <2>2, <2>4
<1>13. <<"down">> \o <<"get_messages">> =
        <<"down", "get_messages">>
  <2>1. <<"down">> \in Seq(Step) /\ <<"get_messages">> \in Seq(Step)
    BY DEF Step
  <2>2. PICK m : m = <<"down">> \o <<"get_messages">>
    OBVIOUS
  <2>3. /\ m \in Seq(Step) /\ Len(m) = 2
        /\ m[1] = "down" /\ m[2] = "get_messages"
    BY <2>1, <2>2
  <2>4. m = <<"down", "get_messages">>
    BY ONLY <2>3
  <2> QED BY ONLY <2>2, <2>4
<1>14. <<"up">> \o <<"get_messages">> =
        <<"up", "get_messages">>
  <2>1. <<"up">> \in Seq(Step) /\ <<"get_messages">> \in Seq(Step)
    BY DEF Step
  <2>2. PICK m : m = <<"up">> \o <<"get_messages">>
    OBVIOUS
  <2>3. /\ m \in Seq(Step) /\ Len(m) = 2
        /\ m[1] = "up" /\ m[2] = "get_messages"
    BY <2>1, <2>2
  <2>4. m = <<"up", "get_messages">>
    BY ONLY <2>3
  <2> QED BY ONLY <2>2, <2>4
<1> QED BY ONLY <1>1, <1>2, <1>3, <1>4, <1>5, <1>6, <1>7, <1>8, <1>9, <1>10, <1>11, <1>12, <1>13,
        <1>14

\* Nothing before a list of steps.
LEMMA NothingBefore ==
  ASSUME NEW l \in Seq(Step)
  PROVE  <<>> \o l = l
BY ConcatEmptySeq, Zenon

\* What is left of a program once its next step is taken.
LEMMA UiProgram ==
  ASSUME StateTypes
  PROVE  /\ At("ui", "arraylist_init") =>
              todo["ui"] = InitUi
              /\ Tail(todo["ui"]) = <<"sqlite_init", "get_users", "get_messages">>
         /\ At("ui", "sqlite_init") =>
              todo["ui"] = <<"sqlite_init", "get_users", "get_messages">>
              /\ Tail(todo["ui"]) = <<"get_users", "get_messages">>
         /\ At("ui", "get_users") =>
              todo["ui"] = <<"get_users", "get_messages">>
              /\ Tail(todo["ui"]) = <<"get_messages">>
         /\ At("ui", "get_messages") =>
              \/ todo["ui"] = <<"get_messages">> /\ Tail(todo["ui"]) = <<>>
              \/ todo["ui"] = Ending /\ Tail(todo["ui"]) = <<"reset">>
         /\ At("ui", "get_sendkey") =>
              \/ todo["ui"] = EnterText /\ Tail(todo["ui"]) = EnterSend
              \/ todo["ui"] = ChatKey /\ Tail(todo["ui"]) = ChatSearch
         /\ At("ui", "save_sendkey") =>
              \/ todo["ui"] = EnterSave /\ Tail(todo["ui"]) = EnterSend
              \/ todo["ui"] = ChatSave /\ Tail(todo["ui"]) = ChatSearch
         /\ At("ui", "send") => todo["ui"] = EnterSend /\ Tail(todo["ui"]) = EnterStore
         /\ At("ui", "save_message") => todo["ui"] = EnterStore /\ Tail(todo["ui"]) = Ending
         /\ At("ui", "search") => todo["ui"] = ChatSearch /\ Tail(todo["ui"]) = Ending
         /\ At("ui", "store") => todo["ui"] = ChatStore /\ Tail(todo["ui"]) = ChatCount
         /\ At("ui", "count") => todo["ui"] = ChatCount /\ Tail(todo["ui"]) = ChatLast
         /\ At("ui", "last") => todo["ui"] = ChatLast /\ Tail(todo["ui"]) = Ending
         /\ At("ui", "update_nickname") =>
              todo["ui"] = <<"update_nickname", "get_messages", "reset">>
              /\ Tail(todo["ui"]) = Ending
         /\ At("ui", "clear_messages") =>
              todo["ui"] = <<"clear_messages", "get_messages", "reset">>
              /\ Tail(todo["ui"]) = Ending
         /\ At("ui", "reset") => todo["ui"] = <<"reset">>
         /\ At("ui", "exit") => todo["ui"] = <<"exit">>
         /\ At("ui", "down") =>
              todo["ui"] = <<"down", "get_messages">> /\ Tail(todo["ui"]) = <<"get_messages">>
         /\ At("ui", "up") =>
              todo["ui"] = <<"up", "get_messages">> /\ Tail(todo["ui"]) = <<"get_messages">>
         /\ ~At("ui", "unlock") /\ ~At("ui", "get_receivekey") /\ ~At("ui", "save_receivekey")
         /\ ~At("ui", "decrypt")
<1>1. PICK l \in UiTodo : l = todo["ui"]
  BY DEF StateTypes
<1>2. \A step : At("ui", step) <=> l # <<>> /\ Head(l) = step
  BY <1>1 DEF At
<1> USE DEF UiTodo, Ending, Typing, Chatting, Drawing, Beginning, Commanding, EnterText,
            EnterSave, EnterSend, EnterStore, ChatKey, ChatSave, ChatSearch, ChatStore,
             ChatCount, ChatLast, InitUi
<1>3. At("ui", "arraylist_init") => l = InitUi
  BY ONLY <1>2, l \in UiTodo
<1>4. At("ui", "sqlite_init") => l = <<"sqlite_init", "get_users", "get_messages">>
  BY ONLY <1>2, l \in UiTodo
<1>5. At("ui", "get_users") => l = <<"get_users", "get_messages">>
  BY ONLY <1>2, l \in UiTodo
<1>6. At("ui", "get_messages") => l = <<"get_messages">> \/ l = Ending
  BY ONLY <1>2, l \in UiTodo
<1>7. At("ui", "get_sendkey") => l = EnterText \/ l = ChatKey
  BY ONLY <1>2, l \in UiTodo
<1>8. At("ui", "save_sendkey") => l = EnterSave \/ l = ChatSave
  BY ONLY <1>2, l \in UiTodo
<1>9. At("ui", "send") => l = EnterSend
  BY ONLY <1>2, l \in UiTodo
<1>10. At("ui", "save_message") => l = EnterStore
  BY ONLY <1>2, l \in UiTodo
<1>11. At("ui", "search") => l = ChatSearch
  BY ONLY <1>2, l \in UiTodo
<1>12. At("ui", "store") => l = ChatStore
  BY ONLY <1>2, l \in UiTodo
<1>13. At("ui", "count") => l = ChatCount
  BY ONLY <1>2, l \in UiTodo
<1>14. At("ui", "last") => l = ChatLast
  BY ONLY <1>2, l \in UiTodo
<1>15. At("ui", "update_nickname") => l = <<"update_nickname", "get_messages", "reset">>
  BY ONLY <1>2, l \in UiTodo
<1>16. At("ui", "clear_messages") => l = <<"clear_messages", "get_messages", "reset">>
  BY ONLY <1>2, l \in UiTodo
<1>17. At("ui", "reset") => l = <<"reset">>
  BY ONLY <1>2, l \in UiTodo
<1>18. At("ui", "exit") => l = <<"exit">>
  BY ONLY <1>2, l \in UiTodo
<1>19. At("ui", "down") => l = <<"down", "get_messages">>
  BY ONLY <1>2, l \in UiTodo
<1>20. At("ui", "up") => l = <<"up", "get_messages">>
  BY ONLY <1>2, l \in UiTodo
<1>21. ~At("ui", "unlock") /\ ~At("ui", "get_receivekey") /\ ~At("ui", "save_receivekey")
       /\ ~At("ui", "decrypt")
  BY ONLY <1>2, l \in UiTodo
<1> HIDE DEF UiTodo, Ending, Typing, Chatting, Drawing, Beginning, Commanding, EnterText,
              EnterSave, EnterSend, EnterStore, ChatKey, ChatSave, ChatSearch, ChatStore,
              ChatCount, ChatLast, InitUi
<1>22. /\ Tail(InitUi) = <<"sqlite_init", "get_users", "get_messages">>
       /\ Tail(<<"sqlite_init", "get_users", "get_messages">>) = <<"get_users", "get_messages">>
       /\ Tail(<<"get_users", "get_messages">>) = <<"get_messages">>
       /\ Tail(<<"get_messages">>) = <<>> /\ Tail(Ending) = <<"reset">>
       /\ Tail(EnterText) = EnterSend /\ Tail(ChatKey) = ChatSearch
       /\ Tail(EnterSave) = EnterSend /\ Tail(ChatSave) = ChatSearch
       /\ Tail(EnterSend) = EnterStore /\ Tail(EnterStore) = Ending
       /\ Tail(ChatSearch) = Ending /\ Tail(ChatStore) = ChatCount
       /\ Tail(ChatCount) = ChatLast /\ Tail(ChatLast) = Ending
       /\ Tail(<<"update_nickname", "get_messages", "reset">>) = Ending
       /\ Tail(<<"clear_messages", "get_messages", "reset">>) = Ending
       /\ Tail(<<"down", "get_messages">>) = <<"get_messages">>
       /\ Tail(<<"up", "get_messages">>) = <<"get_messages">>
  BY DEF Ending, EnterText, EnterSave, EnterSend, EnterStore, ChatKey, ChatSave, ChatSearch,
         ChatStore, ChatCount, ChatLast, InitUi
<1>23. /\ At("ui", "arraylist_init") =>
              todo["ui"] = InitUi
              /\ Tail(todo["ui"]) = <<"sqlite_init", "get_users", "get_messages">>
       /\ At("ui", "sqlite_init") =>
              todo["ui"] = <<"sqlite_init", "get_users", "get_messages">>
              /\ Tail(todo["ui"]) = <<"get_users", "get_messages">>
       /\ At("ui", "get_users") =>
              todo["ui"] = <<"get_users", "get_messages">>
              /\ Tail(todo["ui"]) = <<"get_messages">>
       /\ At("ui", "get_messages") =>
              \/ todo["ui"] = <<"get_messages">> /\ Tail(todo["ui"]) = <<>>
              \/ todo["ui"] = Ending /\ Tail(todo["ui"]) = <<"reset">>
       /\ At("ui", "get_sendkey") =>
              \/ todo["ui"] = EnterText /\ Tail(todo["ui"]) = EnterSend
              \/ todo["ui"] = ChatKey /\ Tail(todo["ui"]) = ChatSearch
       /\ At("ui", "save_sendkey") =>
              \/ todo["ui"] = EnterSave /\ Tail(todo["ui"]) = EnterSend
              \/ todo["ui"] = ChatSave /\ Tail(todo["ui"]) = ChatSearch
  BY ONLY <1>1, <1>3, <1>4, <1>5, <1>6, <1>7, <1>8, <1>22
<1>24. /\ At("ui", "send") => todo["ui"] = EnterSend /\ Tail(todo["ui"]) = EnterStore
       /\ At("ui", "save_message") => todo["ui"] = EnterStore /\ Tail(todo["ui"]) = Ending
       /\ At("ui", "search") => todo["ui"] = ChatSearch /\ Tail(todo["ui"]) = Ending
       /\ At("ui", "store") => todo["ui"] = ChatStore /\ Tail(todo["ui"]) = ChatCount
       /\ At("ui", "count") => todo["ui"] = ChatCount /\ Tail(todo["ui"]) = ChatLast
       /\ At("ui", "last") => todo["ui"] = ChatLast /\ Tail(todo["ui"]) = Ending
  BY ONLY <1>1, <1>9, <1>10, <1>11, <1>12, <1>13, <1>14, <1>22
<1>25. /\ At("ui", "update_nickname") =>
              todo["ui"] = <<"update_nickname", "get_messages", "reset">>
              /\ Tail(todo["ui"]) = Ending
       /\ At("ui", "clear_messages") =>
              todo["ui"] = <<"clear_messages", "get_messages", "reset">>
              /\ Tail(todo["ui"]) = Ending
       /\ At("ui", "reset") => todo["ui"] = <<"reset">>
       /\ At("ui", "exit") => todo["ui"] = <<"exit">>
       /\ At("ui", "down") =>
              todo["ui"] = <<"down", "get_messages">> /\ Tail(todo["ui"]) = <<"get_messages">>
       /\ At("ui", "up") =>
              todo["ui"] = <<"up", "get_messages">> /\ Tail(todo["ui"]) = <<"get_messages">>
       /\ ~At("ui", "unlock") /\ ~At("ui", "get_receivekey") /\ ~At("ui", "save_receivekey")
       /\ ~At("ui", "decrypt")
  BY ONLY <1>1, <1>15, <1>16, <1>17, <1>18, <1>19, <1>20, <1>21, <1>22
<1> QED BY ONLY <1>23, <1>24, <1>25

\* The same, of the receive thread.
LEMMA RxProgram ==
  ASSUME StateTypes
  PROVE  /\ At("rx", "get_receivekey") => todo["rx"] = RxKey /\ Tail(todo["rx"]) = RxDecrypt
         /\ At("rx", "save_receivekey") => todo["rx"] = RxSave /\ Tail(todo["rx"]) = RxDecrypt
         /\ At("rx", "decrypt") => todo["rx"] = RxDecrypt /\ Tail(todo["rx"]) = RxKeep
         /\ At("rx", "save_message") => todo["rx"] = RxKeep /\ Tail(todo["rx"]) = RxSearch
         /\ At("rx", "search") => todo["rx"] = RxSearch /\ Tail(todo["rx"]) = RxShow
         /\ At("rx", "store") => todo["rx"] = RxStore /\ Tail(todo["rx"]) = RxCount
         /\ At("rx", "count") => todo["rx"] = RxCount /\ Tail(todo["rx"]) = RxLast
         /\ At("rx", "last") => todo["rx"] = RxLast /\ Tail(todo["rx"]) = RxShow
         /\ At("rx", "get_messages") => todo["rx"] = RxShow /\ Tail(todo["rx"]) = <<"unlock">>
         /\ At("rx", "unlock") => todo["rx"] = <<"unlock">>
         /\ ~At("rx", "reset") /\ ~At("rx", "get_users") /\ ~At("rx", "get_sendkey")
         /\ ~At("rx", "save_sendkey")
<1>1. PICK l \in RxTodo : l = todo["rx"]
  BY DEF StateTypes
<1>2. \A step : At("rx", step) <=> l # <<>> /\ Head(l) = step
  BY <1>1 DEF At
<1>3. At("rx", "get_receivekey") => l = RxKey
  BY ONLY <1>2, l \in RxTodo DEF RxTodo, Receiving, RxKey, RxSave, RxDecrypt, RxKeep, RxSearch,
    RxStore, RxCount, RxLast, RxShow
<1>4. At("rx", "save_receivekey") => l = RxSave
  BY ONLY <1>2, l \in RxTodo DEF RxTodo, Receiving, RxKey, RxSave, RxDecrypt, RxKeep, RxSearch,
    RxStore, RxCount, RxLast, RxShow
<1>5. At("rx", "decrypt") => l = RxDecrypt
  BY ONLY <1>2, l \in RxTodo DEF RxTodo, Receiving, RxKey, RxSave, RxDecrypt, RxKeep, RxSearch,
    RxStore, RxCount, RxLast, RxShow
<1>6. At("rx", "save_message") => l = RxKeep
  BY ONLY <1>2, l \in RxTodo DEF RxTodo, Receiving, RxKey, RxSave, RxDecrypt, RxKeep, RxSearch,
    RxStore, RxCount, RxLast, RxShow
<1>7. At("rx", "search") => l = RxSearch
  BY ONLY <1>2, l \in RxTodo DEF RxTodo, Receiving, RxKey, RxSave, RxDecrypt, RxKeep, RxSearch,
    RxStore, RxCount, RxLast, RxShow
<1>8. At("rx", "store") => l = RxStore
  BY ONLY <1>2, l \in RxTodo DEF RxTodo, Receiving, RxKey, RxSave, RxDecrypt, RxKeep, RxSearch,
    RxStore, RxCount, RxLast, RxShow
<1>9. At("rx", "count") => l = RxCount
  BY ONLY <1>2, l \in RxTodo DEF RxTodo, Receiving, RxKey, RxSave, RxDecrypt, RxKeep, RxSearch,
    RxStore, RxCount, RxLast, RxShow
<1>10. At("rx", "last") => l = RxLast
  BY ONLY <1>2, l \in RxTodo DEF RxTodo, Receiving, RxKey, RxSave, RxDecrypt, RxKeep, RxSearch,
    RxStore, RxCount, RxLast, RxShow
<1>11. At("rx", "get_messages") => l = RxShow
  BY ONLY <1>2, l \in RxTodo DEF RxTodo, Receiving, RxKey, RxSave, RxDecrypt, RxKeep, RxSearch,
    RxStore, RxCount, RxLast, RxShow
<1>12. At("rx", "unlock") => l = <<"unlock">>
  BY ONLY <1>2, l \in RxTodo DEF RxTodo, Receiving, RxKey, RxSave, RxDecrypt, RxKeep, RxSearch,
    RxStore, RxCount, RxLast, RxShow
<1>13. ~At("rx", "reset") /\ ~At("rx", "get_users") /\ ~At("rx", "get_sendkey")
       /\ ~At("rx", "save_sendkey")
  BY ONLY <1>2, l \in RxTodo DEF RxTodo, Receiving, RxKey, RxSave, RxDecrypt, RxKeep, RxSearch,
    RxStore, RxCount, RxLast, RxShow
<1>14. /\ Tail(RxKey) = RxDecrypt /\ Tail(RxSave) = RxDecrypt /\ Tail(RxDecrypt) = RxKeep
       /\ Tail(RxKeep) = RxSearch /\ Tail(RxSearch) = RxShow /\ Tail(RxStore) = RxCount
       /\ Tail(RxCount) = RxLast /\ Tail(RxLast) = RxShow /\ Tail(RxShow) = <<"unlock">>
  BY DEF RxKey, RxSave, RxDecrypt, RxKeep, RxSearch, RxStore, RxCount, RxLast, RxShow
<1> QED BY ONLY <1>1, <1>3, <1>4, <1>5, <1>6, <1>7, <1>8, <1>9, <1>10, <1>11, <1>12, <1>13, <1>14

\* A thread that goes on takes the next step of its program.
LEMMA TailsAreSteps ==
  \A l \in UiTodo \cup RxTodo : l # <<>> => Tail(l) \in Seq(Step)
<1>1. /\ EnterText \in Seq(Step) /\ EnterSave \in Seq(Step) /\ EnterSend \in Seq(Step)
      /\ EnterStore \in Seq(Step) /\ Ending \in Seq(Step)
  BY DEF Step, EnterText, EnterSave, EnterSend, EnterStore, Ending
<1>2. /\ ChatKey \in Seq(Step) /\ ChatSave \in Seq(Step) /\ ChatSearch \in Seq(Step)
      /\ ChatStore \in Seq(Step) /\ ChatCount \in Seq(Step) /\ ChatLast \in Seq(Step)
  BY DEF Step, ChatKey, ChatSave, ChatSearch, ChatStore, ChatCount, ChatLast
<1>3. /\ RxKey \in Seq(Step) /\ RxSave \in Seq(Step) /\ RxDecrypt \in Seq(Step)
      /\ RxKeep \in Seq(Step) /\ RxSearch \in Seq(Step) /\ RxStore \in Seq(Step)
      /\ RxCount \in Seq(Step) /\ RxLast \in Seq(Step) /\ RxShow \in Seq(Step)
  BY DEF Step, RxKey, RxSave, RxDecrypt, RxKeep, RxSearch, RxStore, RxCount, RxLast, RxShow
<1>4. /\ <<"get_messages">> \in Seq(Step) /\ <<"down", "get_messages">> \in Seq(Step)
      /\ <<"up", "get_messages">> \in Seq(Step) /\ InitUi \in Seq(Step)
      /\ <<"sqlite_init", "get_users", "get_messages">> \in Seq(Step)
      /\ <<"get_users", "get_messages">> \in Seq(Step)
  BY DEF Step, InitUi
<1>5. /\ <<"update_nickname", "get_messages", "reset">> \in Seq(Step)
      /\ <<"clear_messages", "get_messages", "reset">> \in Seq(Step)
      /\ <<"reset">> \in Seq(Step) /\ <<"exit">> \in Seq(Step) /\ <<"exited">> \in Seq(Step)
      /\ <<"unlock">> \in Seq(Step) /\ <<>> \in Seq(Step)
  BY DEF Step
<1>6. /\ \A l \in Typing : l \in Seq(Step)
      /\ \A l \in Chatting : l \in Seq(Step)
      /\ \A l \in Receiving : l \in Seq(Step)
      /\ \A l \in Drawing \cup Beginning : l \in Seq(Step)
      /\ \A l \in Commanding : l \in Seq(Step)
  <2>1. \A l \in Typing : l \in Seq(Step)
    BY ONLY <1>1, Zenon DEF Typing
  <2>2. \A l \in Chatting : l \in Seq(Step)
    BY ONLY <1>2, Zenon DEF Chatting
  <2>3. \A l \in Receiving : l \in Seq(Step)
    BY ONLY <1>3, Zenon DEF Receiving
  <2>4. \A l \in Drawing \cup Beginning : l \in Seq(Step)
    BY ONLY <1>4, Zenon DEF Drawing, Beginning
  <2>5. \A l \in Commanding : l \in Seq(Step)
    BY ONLY <1>5, Zenon DEF Commanding
  <2> QED BY ONLY <2>1, <2>2, <2>3, <2>4, <2>5, Zenon
<1>7. \A l \in UiTodo : l \in Seq(Step)
  BY ONLY <1>1, <1>5, <1>6, Zenon DEF UiTodo
<1>8. \A l \in RxTodo : l \in Seq(Step)
  BY ONLY <1>5, <1>6, Zenon DEF RxTodo
<1>9. \A l \in Seq(Step) : l # <<>> => Tail(l) \in Seq(Step)
  OBVIOUS
<1> QED BY ONLY <1>7, <1>8, <1>9, Zenon

\* So does the state.
LEMMA GoesOn ==
  ASSUME StateTypes, NEW t \in Threads, NEW step, At(t, step), Goes(t, <<>>)
  PROVE  todo' = [todo EXCEPT ![t] = Tail(todo[t])]
<1>1. todo[t] \in UiTodo \cup RxTodo /\ todo[t] # <<>>
  BY DEF StateTypes, At
<1>2. Tail(todo[t]) \in Seq(Step)
  BY ONLY <1>1, TailsAreSteps
<1>3. <<>> \o Tail(todo[t]) = Tail(todo[t])
  BY ONLY <1>2, NothingBefore
<1> QED BY <1>3, Zenon DEF Goes

\* Thread t goes from one place of its program to another.
Goto(t, from, to) == todo[t] = from /\ todo' = [todo EXCEPT ![t] = to]

\* Where each call of the interface leaves it.
LEMMA UiMoves ==
  ASSUME StateTypes, Goes("ui", <<>>)
  PROVE  /\ At("ui", "arraylist_init") =>
              Goto("ui", InitUi, <<"sqlite_init", "get_users", "get_messages">>)
         /\ At("ui", "sqlite_init") =>
              Goto("ui", <<"sqlite_init", "get_users", "get_messages">>,
                         <<"get_users", "get_messages">>)
         /\ At("ui", "get_users") =>
              Goto("ui", <<"get_users", "get_messages">>, <<"get_messages">>)
         /\ At("ui", "get_messages") =>
              \/ Goto("ui", <<"get_messages">>, <<>>)
              \/ Goto("ui", Ending, <<"reset">>)
         /\ At("ui", "get_sendkey") =>
              Goto("ui", EnterText, EnterSend) \/ Goto("ui", ChatKey, ChatSearch)
         /\ At("ui", "save_sendkey") =>
              Goto("ui", EnterSave, EnterSend) \/ Goto("ui", ChatSave, ChatSearch)
         /\ At("ui", "send") => Goto("ui", EnterSend, EnterStore)
         /\ At("ui", "save_message") => Goto("ui", EnterStore, Ending)
         /\ At("ui", "search") => Goto("ui", ChatSearch, Ending)
         /\ At("ui", "store") => Goto("ui", ChatStore, ChatCount)
         /\ At("ui", "count") => Goto("ui", ChatCount, ChatLast)
         /\ At("ui", "last") => Goto("ui", ChatLast, Ending)
         /\ At("ui", "update_nickname") =>
              Goto("ui", <<"update_nickname", "get_messages", "reset">>, Ending)
         /\ At("ui", "clear_messages") =>
              Goto("ui", <<"clear_messages", "get_messages", "reset">>, Ending)
         /\ At("ui", "down") => Goto("ui", <<"down", "get_messages">>, <<"get_messages">>)
         /\ At("ui", "up") => Goto("ui", <<"up", "get_messages">>, <<"get_messages">>)
<1>1. \A step : At("ui", step) => todo' = [todo EXCEPT !["ui"] = Tail(todo["ui"])]
  BY GoesOn, Zenon DEF Threads
<1>2. /\ At("ui", "arraylist_init") =>
           Goto("ui", InitUi, <<"sqlite_init", "get_users", "get_messages">>)
      /\ At("ui", "sqlite_init") =>
           Goto("ui", <<"sqlite_init", "get_users", "get_messages">>,
                      <<"get_users", "get_messages">>)
      /\ At("ui", "get_users") =>
           Goto("ui", <<"get_users", "get_messages">>, <<"get_messages">>)
      /\ At("ui", "get_messages") =>
           \/ Goto("ui", <<"get_messages">>, <<>>)
           \/ Goto("ui", Ending, <<"reset">>)
      /\ At("ui", "get_sendkey") =>
           Goto("ui", EnterText, EnterSend) \/ Goto("ui", ChatKey, ChatSearch)
  BY ONLY UiProgram, StateTypes, <1>1, Zenon DEF Goto
<1>3. /\ At("ui", "save_sendkey") =>
           Goto("ui", EnterSave, EnterSend) \/ Goto("ui", ChatSave, ChatSearch)
      /\ At("ui", "send") => Goto("ui", EnterSend, EnterStore)
      /\ At("ui", "save_message") => Goto("ui", EnterStore, Ending)
      /\ At("ui", "search") => Goto("ui", ChatSearch, Ending)
      /\ At("ui", "store") => Goto("ui", ChatStore, ChatCount)
      /\ At("ui", "count") => Goto("ui", ChatCount, ChatLast)
  BY ONLY UiProgram, StateTypes, <1>1, Zenon DEF Goto
<1>4. /\ At("ui", "last") => Goto("ui", ChatLast, Ending)
      /\ At("ui", "update_nickname") =>
           Goto("ui", <<"update_nickname", "get_messages", "reset">>, Ending)
      /\ At("ui", "clear_messages") =>
           Goto("ui", <<"clear_messages", "get_messages", "reset">>, Ending)
      /\ At("ui", "down") => Goto("ui", <<"down", "get_messages">>, <<"get_messages">>)
      /\ At("ui", "up") => Goto("ui", <<"up", "get_messages">>, <<"get_messages">>)
  BY ONLY UiProgram, StateTypes, <1>1, Zenon DEF Goto
<1> QED BY ONLY <1>2, <1>3, <1>4, Zenon

\* Where each call of the receive thread leaves it.
LEMMA RxMoves ==
  ASSUME StateTypes, Goes("rx", <<>>)
  PROVE  /\ At("rx", "get_receivekey") => Goto("rx", RxKey, RxDecrypt)
         /\ At("rx", "save_receivekey") => Goto("rx", RxSave, RxDecrypt)
         /\ At("rx", "decrypt") => Goto("rx", RxDecrypt, RxKeep)
         /\ At("rx", "save_message") => Goto("rx", RxKeep, RxSearch)
         /\ At("rx", "search") => Goto("rx", RxSearch, RxShow)
         /\ At("rx", "store") => Goto("rx", RxStore, RxCount)
         /\ At("rx", "count") => Goto("rx", RxCount, RxLast)
         /\ At("rx", "last") => Goto("rx", RxLast, RxShow)
         /\ At("rx", "get_messages") => Goto("rx", RxShow, <<"unlock">>)
<1>1. \A step : At("rx", step) => todo' = [todo EXCEPT !["rx"] = Tail(todo["rx"])]
  BY GoesOn, Zenon DEF Threads
<1> QED BY ONLY RxProgram, StateTypes, <1>1, Zenon DEF Goto

\* A thread that goes aside first: to save a key, or to add to the list.
LEMMA Asides ==
  ASSUME StateTypes
  PROVE  /\ At("ui", "get_sendkey") /\ Goes("ui", KeySaved("ui")) =>
              Goto("ui", EnterText, EnterSave) \/ Goto("ui", ChatKey, ChatSave)
         /\ At("rx", "get_receivekey") /\ Goes("rx", KeySaved("rx")) => Goto("rx", RxKey, RxSave)
         /\ At("ui", "search") /\ Goes("ui", <<"store", "count", "last">>) =>
              Goto("ui", ChatSearch, ChatStore)
         /\ At("rx", "search") /\ Goes("rx", <<"store", "count", "last">>) =>
              Goto("rx", RxSearch, RxStore)
<1>1. KeySaved("ui") = <<"save_sendkey">> /\ KeySaved("rx") = <<"save_receivekey">>
  BY DEF KeySaved
<1>2. /\ <<"save_sendkey">> \o EnterSend = EnterSave
      /\ <<"save_sendkey">> \o ChatSearch = ChatSave
      /\ <<"save_receivekey">> \o RxDecrypt = RxSave
      /\ <<"store", "count", "last">> \o Ending = ChatStore
      /\ <<"store", "count", "last">> \o RxShow = RxStore
  BY ONLY Joined, Zenon DEF EnterSend, EnterSave, ChatSearch, ChatSave, RxDecrypt, RxSave,
    Ending, ChatStore, RxShow, RxStore
<1> QED BY ONLY <1>1, <1>2, UiProgram, RxProgram, StateTypes, Zenon DEF Goto, Goes

\* The programs the handlers begin.
LEMMA Programs ==
  /\ EnterText = <<"get_sendkey", "send", "save_message", "get_messages", "reset">>
  /\ ChatCommand \o <<"reset">> = ChatKey
  /\ Received = RxKey
  /\ <<"update_nickname", "get_messages">> \o <<"reset">> =
       <<"update_nickname", "get_messages", "reset">>
  /\ <<"clear_messages", "get_messages">> \o <<"reset">> =
       <<"clear_messages", "get_messages", "reset">>
  /\ <<>> \o <<"reset">> = <<"reset">>
  /\ <<"down">> \o <<"get_messages">> = <<"down", "get_messages">>
  /\ <<"up">> \o <<"get_messages">> = <<"up", "get_messages">>
  /\ <<>> \o <<"get_messages">> = <<"get_messages">>
<1>1. <<"reset">> \in Seq(Step) /\ <<"get_messages">> \in Seq(Step)
  BY DEF Step
<1>2. <<>> \o <<"reset">> = <<"reset">> /\ <<>> \o <<"get_messages">> = <<"get_messages">>
  BY <1>1, NothingBefore
<1> QED BY ONLY <1>2, Joined, Zenon
        DEF EnterText, ChatCommand, Received, update_current_user, ChatKey, RxKey

----------------------------------------------------------------------------
(* The search.                                                              *)

\* The middle of a part of the list is in it.
LEMMA MiddleIn ==
  ASSUME NEW left \in Int, NEW right \in Int
  PROVE  /\ left > right => Middle(left, right) = -1
         /\ left <= right => Middle(left, right) \in left..right
BY DEF Middle

\* What arraylist_search does with a part of the list.
Parts == [left : 0..MaxUsers + 1, right : -1..MaxUsers]
Halves(f, name, part) ==
  LET mid == Middle(part.left, part.right)
  IN  IF mid = -1 \/ items[mid] = name THEN mid
      ELSE IF Rank[items[mid]] < Rank[name] THEN f[[part EXCEPT !.left = mid + 1]]
      ELSE f[[part EXCEPT !.right = mid - 1]]

\* The parts it goes on with are smaller ones.
LEMMA HalvesOf ==
  ASSUME MaxUsers \in Nat, NEW part \in Parts, part.left <= part.right
  PROVE  LET mid == Middle(part.left, part.right)
             right == [part EXCEPT !.left = mid + 1]
             left == [part EXCEPT !.right = mid - 1]
         IN  /\ mid \in part.left..part.right /\ mid # -1
             /\ right \in Parts /\ right.left = mid + 1 /\ right.right = part.right
             /\ left \in Parts /\ left.left = part.left /\ left.right = mid - 1
<1>1. PICK mid \in part.left..part.right : mid = Middle(part.left, part.right)
  BY MiddleIn DEF Parts
<1>2. mid + 1 \in 0..MaxUsers + 1 /\ mid - 1 \in -1..MaxUsers /\ mid # -1
  BY DEF Parts
<1>3. part \in [left : Int, right : Int]
  BY DEF Parts
<1>4. /\ [part EXCEPT !.left = mid + 1] \in Parts
      /\ [part EXCEPT !.left = mid + 1].left = mid + 1
      /\ [part EXCEPT !.left = mid + 1].right = part.right
      /\ [part EXCEPT !.right = mid - 1] \in Parts
      /\ [part EXCEPT !.right = mid - 1].left = part.left
      /\ [part EXCEPT !.right = mid - 1].right = mid - 1
  BY <1>2 DEF Parts
<1> QED BY <1>1, <1>2, <1>4

\* Two tables that agree on the smaller parts agree on what becomes of a part.
LEMMA HalvesAgree ==
  ASSUME MaxUsers \in Nat, NEW name, NEW part \in Parts, NEW f, NEW g,
         \A p \in Parts : p.right - p.left < part.right - part.left => f[p] = g[p]
  PROVE  Halves(f, name, part) = Halves(g, name, part)
<1>0. part.left \in Int /\ part.right \in Int
  BY DEF Parts
<1>1. CASE part.left > part.right
  BY <1>0, <1>1, MiddleIn DEF Halves
<1>2. CASE part.left <= part.right
  <2>1. PICK mid : mid = Middle(part.left, part.right)
    OBVIOUS
  <2>2. PICK right : right = [part EXCEPT !.left = mid + 1]
    OBVIOUS
  <2>3. PICK left : left = [part EXCEPT !.right = mid - 1]
    OBVIOUS
  <2>4. /\ mid \in part.left..part.right
        /\ right \in Parts /\ right.left = mid + 1 /\ right.right = part.right
        /\ left \in Parts /\ left.left = part.left /\ left.right = mid - 1
    BY <1>2, <2>1, <2>2, <2>3, HalvesOf
  <2>5. f[right] = g[right] /\ f[left] = g[left]
    BY <1>0, <2>4
  <2> QED BY ONLY <2>1, <2>2, <2>3, <2>5, Zenon DEF Halves
<1> QED BY <1>0, <1>1, <1>2

\* The search is the recursive function it is written as.
LEMMA SearchHalves ==
  ASSUME MaxUsers \in Nat, NEW name
  PROVE  \E f : /\ Search(name) = f[[left |-> 0, right |-> length - 1]]
                /\ \A part \in Parts : f[part] = Halves(f, name, part)
<1> DEFINE Table(f) == f = [part \in Parts |-> Halves(f, name, part)]
           Halving(g, n) == \A part \in Parts :
                              part.right - part.left < n => g[part] = Halves(g, name, part)
           sizes == {n \in Nat : \E g : Halving(g, n)}
<1>0. \A part \in Parts : part.right - part.left \in Int
  BY DEF Parts
<1>1. ASSUME NEW n \in Int, NEW g, Halving(g, n)
      PROVE  LET h == [part \in Parts |-> Halves(g, name, part)]
             IN  \A part \in Parts :
                   part.right - part.left < n + 1 => Halves(g, name, part) = Halves(h, name, part)
  <2> DEFINE h == [part \in Parts |-> Halves(g, name, part)]
  <2>1. \A p \in Parts : h[p] = Halves(g, name, p)
    OBVIOUS
  <2> HIDE DEF h
  <2> SUFFICES ASSUME NEW part \in Parts, part.right - part.left < n + 1
               PROVE  Halves(g, name, part) = Halves(h, name, part)
    BY DEF h
  <2>2. ASSUME NEW p \in Parts, p.right - p.left < part.right - part.left
        PROVE  g[p] = h[p]
    <3>1. p.right - p.left < n
      BY <1>0, <2>2
    <3> QED BY <1>1, <2>1, <3>1
  <2> QED BY <2>2, HalvesAgree
<1>2. 0 \in sizes
  <2> DEFINE g == [part \in Parts |-> -1]
  <2>1. ASSUME NEW part \in Parts, part.right - part.left < 0
        PROVE  g[part] = Halves(g, name, part)
    <3>1. part.left \in Int /\ part.right \in Int
      BY DEF Parts
    <3>2. Middle(part.left, part.right) = -1
      BY <2>1, <3>1, MiddleIn
    <3> QED BY <3>2 DEF Halves
  <2> HIDE DEF g
  <2> QED BY <2>1
<1>3. ASSUME NEW n \in sizes
      PROVE  n + 1 \in sizes
  <2>1. PICK g : Halving(g, n)
    OBVIOUS
  <2> DEFINE h == [part \in Parts |-> Halves(g, name, part)]
  <2>2. \A p \in Parts : h[p] = Halves(g, name, p)
    OBVIOUS
  <2>3. n \in Int /\ n + 1 \in Nat
    OBVIOUS
  <2>4. Halving(h, n + 1)
    BY <1>1, <2>1, <2>2, <2>3
  <2> HIDE DEF h, Halving
  <2> QED BY <2>3, <2>4
<1>4. MaxUsers + 2 \in sizes
  <2> HIDE DEF sizes
  <2>1. sizes = Nat
    BY ONLY <1>2, <1>3, Induction, sizes \in SUBSET Nat DEF sizes
  <2> QED BY <2>1
<1>5. \E f : Table(f)
  <2>1. PICK g : Halving(g, MaxUsers + 2)
    BY <1>4
  <2> DEFINE h == [part \in Parts |-> Halves(g, name, part)]
  <2>2. \A part \in Parts : part.right - part.left < (MaxUsers + 2) + 1
    BY DEF Parts
  <2>3. \A part \in Parts : Halves(g, name, part) = Halves(h, name, part)
    BY <1>1, <2>1, <2>2
  <2>4. Table(h)
    BY <2>3
  <2> HIDE DEF h, Table
  <2> QED BY <2>4
<1> DEFINE f == CHOOSE k : Table(k)
<1>6. Search(name) = f[[left |-> 0, right |-> length - 1]]
  BY Zenon DEF Search, Halves, Parts
<1>7. Table(f)
  BY <1>5, Zenon
<1> HIDE DEF f
<1>8. \A part \in Parts : f[part] = Halves(f, name, part)
  BY <1>7
<1> QED BY <1>6, <1>8

\* The search ends with no place, or with one in the part it is given.
LEMMA SearchIn ==
  ASSUME MaxUsers \in Nat, length \in Nat, length <= MaxUsers, NEW name
  PROVE  Search(name) \in {-1} \cup (0..length - 1)
<1>1. PICK f : /\ Search(name) = f[[left |-> 0, right |-> length - 1]]
               /\ \A part \in Parts : f[part] = Halves(f, name, part)
  BY SearchHalves
<1> DEFINE Within(part) == f[part] \in {-1} \cup (part.left..part.right)
           P == {n \in Nat : \A part \in Parts : part.right - part.left < n => Within(part)}
<1>0. \A part \in Parts : part.left \in Int /\ part.right \in Int
  BY DEF Parts
<1>2. 0 \in P
  <2>1. ASSUME NEW part \in Parts, part.right - part.left < 0
        PROVE  Within(part)
    <3>1. Middle(part.left, part.right) = -1
      BY <1>0, <2>1, MiddleIn
    <3> QED BY <1>1, <3>1 DEF Halves
  <2> QED BY <2>1
<1>3. ASSUME NEW n \in P
      PROVE  n + 1 \in P
  <2>1. ASSUME NEW part \in Parts, part.right - part.left < n + 1
        PROVE  Within(part)
    <3>1. CASE part.left > part.right
      <4>1. Middle(part.left, part.right) = -1
        BY <1>0, <3>1, MiddleIn
      <4> QED BY <1>1, <4>1 DEF Halves
    <3>2. CASE part.left <= part.right
      <4>1. PICK mid : mid = Middle(part.left, part.right)
        OBVIOUS
      <4>2. PICK right : right = [part EXCEPT !.left = mid + 1]
        OBVIOUS
      <4>3. PICK left : left = [part EXCEPT !.right = mid - 1]
        OBVIOUS
      <4>4. /\ mid \in part.left..part.right
            /\ right \in Parts /\ right.left = mid + 1 /\ right.right = part.right
            /\ left \in Parts /\ left.left = part.left /\ left.right = mid - 1
        BY <3>2, <4>1, <4>2, <4>3, HalvesOf
      <4>5. right.right - right.left < n /\ left.right - left.left < n
        BY <1>0, <2>1, <4>4
      <4>6. Within(right) /\ Within(left)
        BY <4>4, <4>5
      <4>7. f[part] \in {mid, f[right], f[left]}
        BY <1>1, <4>1, <4>2, <4>3 DEF Halves
      <4> QED BY <1>0, <4>4, <4>6, <4>7
    <3> QED BY <1>0, <3>1, <3>2
  <2> QED BY <2>1
<1>4. length + 1 \in P
  <2> HIDE DEF P
  <2>1. P = Nat
    BY ONLY <1>2, <1>3, Induction, P \in SUBSET Nat DEF P
  <2> QED BY <2>1
<1>5. PICK part : part = [left |-> 0, right |-> length - 1]
  OBVIOUS
<1>6. part \in Parts /\ part.left = 0 /\ part.right = length - 1
  BY <1>5 DEF Parts
<1>7. Within(part)
  BY <1>4, <1>6
<1> QED BY <1>1, <1>5, <1>6, <1>7

\* Any list of names that are in order is searched as it should be.
LEMMA SearchFound ==
  ASSUME length \in 0..MaxUsers, items \in [Slots -> Names]
  PROVE  SearchFinds
<1> SUFFICES ASSUME \A m, n \in 0..length - 1 : m < n => Rank[items[m]] < Rank[items[n]],
                    NEW i \in 0..length - 1
             PROVE  Search(items[i]) = i
  BY DEF SearchFinds
<1>a. MaxUsers \in Nat
  BY ZenAssumption
<1>b. /\ \A m \in 0..length - 1 : items[m] \in Names /\ Rank[items[m]] \in Nat
      /\ \A m, n \in 0..length - 1 : items[m] = items[n] => m = n
  <2>1. \A m \in 0..length - 1 : items[m] \in Names
    BY <1>a DEF Slots
  <2>2. \A m \in 0..length - 1 : Rank[items[m]] \in Nat
    BY <2>1, ZenAssumption
  <2>3. ASSUME NEW m \in 0..length - 1, NEW n \in 0..length - 1, items[m] = items[n], m # n
        PROVE  FALSE
    <3>1. m < n \/ n < m
      BY <2>3
    <3>2. Rank[items[m]] < Rank[items[n]] \/ Rank[items[n]] < Rank[items[m]]
      BY <3>1
    <3> QED BY <2>2, <2>3, <3>2
  <2> QED BY <2>1, <2>2, <2>3
<1>1. PICK f : /\ Search(items[i]) = f[[left |-> 0, right |-> length - 1]]
               /\ \A part \in Parts : f[part] = Halves(f, items[i], part)
  BY <1>a, SearchHalves
<1> DEFINE Around(part) == part.left <= i /\ i <= part.right /\ part.right < length
           P == {n \in Nat : \A part \in Parts :
                   Around(part) /\ part.right - part.left < n => f[part] = i}
<1>0. \A part \in Parts : part.left \in Nat /\ part.right \in Int
  BY <1>a DEF Parts
<1>2. 0 \in P
  BY <1>0
<1>3. ASSUME NEW n \in P
      PROVE  n + 1 \in P
  <2>1. ASSUME NEW part \in Parts, Around(part), part.right - part.left < n + 1
        PROVE  f[part] = i
    <3>1. part.left <= part.right
      BY <1>0, <2>1
    <3>2. PICK mid : mid = Middle(part.left, part.right)
      OBVIOUS
    <3>3. PICK right : right = [part EXCEPT !.left = mid + 1]
      OBVIOUS
    <3>4. PICK left : left = [part EXCEPT !.right = mid - 1]
      OBVIOUS
    <3>5. /\ mid \in part.left..part.right /\ mid # -1
          /\ right \in Parts /\ right.left = mid + 1 /\ right.right = part.right
          /\ left \in Parts /\ left.left = part.left /\ left.right = mid - 1
      BY <1>a, <3>1, <3>2, <3>3, <3>4, HalvesOf
    <3>6. f[part] = IF mid = -1 \/ items[mid] = items[i] THEN mid
                    ELSE IF Rank[items[mid]] < Rank[items[i]] THEN f[right] ELSE f[left]
      BY <1>1, <3>2, <3>3, <3>4, Zenon DEF Halves
    <3>7. mid \in 0..length - 1
      BY <1>0, <2>1, <3>5
    <3>8. CASE mid = i
      BY <3>5, <3>6, <3>8
    <3>9. CASE mid < i
      <4>1. items[mid] # items[i] /\ Rank[items[mid]] < Rank[items[i]]
        BY <1>b, <3>7, <3>9
      <4>2. Around(right) /\ right.right - right.left < n
        BY <1>0, <2>1, <3>5, <3>9
      <4>3. f[right] = i
        BY <3>5, <4>2
      <4> QED BY <3>5, <3>6, <4>1, <4>3
    <3>10. CASE mid > i
      <4>1. items[mid] # items[i] /\ ~(Rank[items[mid]] < Rank[items[i]])
        BY <1>b, <3>7, <3>10
      <4>2. Around(left) /\ left.right - left.left < n
        BY <1>0, <2>1, <3>5, <3>10
      <4>3. f[left] = i
        BY <3>5, <4>2
      <4> QED BY <3>5, <3>6, <4>1, <4>3
    <3> QED BY <3>7, <3>8, <3>9, <3>10
  <2> HIDE DEF Around
  <2> QED BY <2>1
<1>4. length + 1 \in P
  <2> HIDE DEF P
  <2>1. P = Nat
    BY ONLY <1>2, <1>3, Induction, P \in SUBSET Nat DEF P
  <2> QED BY <2>1
<1>5. PICK part : part = [left |-> 0, right |-> length - 1]
  OBVIOUS
<1>6. part \in Parts /\ part.left = 0 /\ part.right = length - 1
  BY <1>a, <1>5 DEF Parts
<1>7. f[part] = i
  BY <1>4, <1>6
<1> QED BY <1>1, <1>5, <1>7

----------------------------------------------------------------------------
(* Types, and the bound on the list.                                        *)

\* A recipient is a name, the one that nothing was written to included.
LEMMA NameTyped ==
  ASSUME ListTypes, StateTypes, NEW t \in Threads
  PROVE  Name(t) \in Names
BY DEF ListTypes, StateTypes, Name, Names, Slots, NoPtr

\* A key made for a name is a key.
LEMMA KeyTyped ==
  ASSUME NEW dir \in {"send", "recv"}, NEW name \in Names
  PROVE  Key(dir, name) \in KeyType /\ Derived(dir, name) \in KeyType
BY DEF Key, Derived, KeyType, Names

\* A key that is looked up is a key.
LEMMA StoredTyped ==
  ASSUME rows \in Seq(Row), NEW dir, NEW name
  PROVE  Stored(dir, name) \in KeyType
<1>1. CASE RowsOf(name) = {}
  BY <1>1 DEF Stored, KeyType
<1>2. CASE RowsOf(name) # {}
  <2>1. PICK i \in RowsOf(name) : i = CHOOSE n \in RowsOf(name) : TRUE
    BY <1>2
  <2>2. i \in 1..Len(rows)
    BY DEF RowsOf
  <2>3. rows[i] \in Row
    BY <2>2
  <2> QED BY <1>2, <2>1, <2>3 DEF Stored, Column, Row
<1> QED BY <1>1, <1>2

\* A row that is written is a row.
LEMMA NewRowTyped ==
  ASSUME NEW dir, NEW name \in Names, NEW k \in KeyType
  PROVE  NewRow(dir, name, k) \in Row
BY DEF NewRow, Row, KeyType

\* A table of rows, one of them replaced.
LEMMA ReplacedTyped ==
  ASSUME rows \in Seq(Row), NEW row \in Row
  PROVE  /\ Replaced(row) \in Seq(Row) /\ Len(Replaced(row)) <= Len(rows) + 1
         /\ \A i \in 1..Len(Replaced(row)) :
              Replaced(row)[i] = row \/ \E n \in 1..Len(rows) : Replaced(row)[i] = rows[n]
<1>1. PICK F : F = Picked(rows, (1..Len(rows)) \ RowsOf(row.name))
  OBVIOUS
<1>2. F \in Seq(Row) /\ \E g : Picks(F, rows, (1..Len(rows)) \ RowsOf(row.name), g)
  BY <1>1, PickedIs
<1>3. PICK g : Picks(F, rows, (1..Len(rows)) \ RowsOf(row.name), g)
  BY <1>2
<1>4. \A i \in 1..Len(F) : F[i] = rows[g[i]] /\ g[i] \in 1..Len(rows)
  BY <1>3 DEF Picks
<1>5. Len(F) <= Len(rows)
  <2>1. Len(F) \in Nat /\ Len(rows) \in Nat
    BY <1>2
  <2>2. /\ g \in [1..Len(F) -> 1..Len(rows)]
        /\ \A i, j \in 1..Len(F) : i < j => g[i] < g[j]
    BY <1>3 DEF Picks
  <2>3. \A n \in Nat : n <= Len(F) => (n >= 1 => g[n] >= n)
    <3> DEFINE P == {n \in Nat : n <= Len(F) => (n >= 1 => g[n] >= n)}
    <3>1. 0 \in P
      OBVIOUS
    <3>2. ASSUME NEW n \in P PROVE n + 1 \in P
      BY <2>1, <2>2
    <3>3. P \in SUBSET Nat
      OBVIOUS
    <3> HIDE DEF P
    <3>4. P = Nat
      BY ONLY <3>1, <3>2, <3>3, Induction
    <3> QED BY <3>4 DEF P
  <2> QED BY <2>1, <2>2, <2>3
<1>6. PICK G : G = Append(F, row)
  OBVIOUS
<1>7. /\ G \in Seq(Row) /\ Len(G) = Len(F) + 1 /\ G[Len(F) + 1] = row
      /\ \A i \in 1..Len(F) : G[i] = F[i]
  BY <1>2, <1>6
<1>8. Replaced(row) = G
  BY <1>1, <1>6 DEF Replaced
<1>9. \A i \in 1..Len(G) : i \in 1..Len(F) \/ i = Len(F) + 1
  BY <1>2, <1>7
<1>10. Len(G) <= Len(rows) + 1
  BY <1>2, <1>5, <1>7
<1> QED BY <1>4, <1>7, <1>8, <1>9, <1>10

\* The places are what they are places of.
LEMMA Places ==
  /\ {EnterText, EnterSave, EnterSend, EnterStore, Ending} \subseteq UiTodo
  /\ {ChatKey, ChatSave, ChatSearch, ChatStore, ChatCount, ChatLast} \subseteq UiTodo
  /\ {<<"get_messages">>, <<"down", "get_messages">>, <<"up", "get_messages">>} \subseteq UiTodo
  /\ {InitUi, <<"sqlite_init", "get_users", "get_messages">>,
      <<"get_users", "get_messages">>} \subseteq UiTodo
  /\ {<<>>, <<"exit">>, <<"reset">>, <<"update_nickname", "get_messages", "reset">>,
      <<"clear_messages", "get_messages", "reset">>} \subseteq UiTodo
  /\ Receiving \subseteq RxTodo /\ {<<>>, <<"unlock">>, <<"exited">>} \subseteq RxTodo
  /\ {RxKey, RxSave, RxDecrypt, RxKeep, RxSearch, RxStore, RxCount, RxLast, RxShow} = Receiving
<1>1. {EnterText, EnterSave, EnterSend, EnterStore, Ending} \subseteq UiTodo
  BY Zenon DEF UiTodo, Typing
<1>2. {ChatKey, ChatSave, ChatSearch, ChatStore, ChatCount, ChatLast} \subseteq UiTodo
  BY Zenon DEF UiTodo, Chatting
<1>3. /\ {<<"get_messages">>, <<"down", "get_messages">>, <<"up", "get_messages">>} \subseteq UiTodo
      /\ {InitUi, <<"sqlite_init", "get_users", "get_messages">>,
          <<"get_users", "get_messages">>} \subseteq UiTodo
  BY Zenon DEF UiTodo, Drawing, Beginning
<1>4. {<<>>, <<"exit">>, <<"reset">>, <<"update_nickname", "get_messages", "reset">>,
      <<"clear_messages", "get_messages", "reset">>} \subseteq UiTodo
  BY Zenon DEF UiTodo, Commanding
<1>5. /\ Receiving \subseteq RxTodo /\ {<<>>, <<"unlock">>, <<"exited">>} \subseteq RxTodo
      /\ {RxKey, RxSave, RxDecrypt, RxKeep, RxSearch, RxStore, RxCount, RxLast, RxShow} = Receiving
  BY Zenon DEF RxTodo, Receiving
<1> QED BY ONLY <1>1, <1>2, <1>3, <1>4, <1>5, Zenon

\* Where the threads can be.
TodoTypes ==
  todo \in [Threads -> UiTodo \cup RxTodo] /\ todo["ui"] \in UiTodo /\ todo["rx"] \in RxTodo

\* The interface goes and leaves the receive thread where it is.
LEMMA GotoUi ==
  ASSUME TodoTypes, NEW from, NEW to \in UiTodo, Goto("ui", from, to)
  PROVE  todo'["ui"] = to /\ todo'["rx"] = todo["rx"] /\ TodoTypes'
BY DEF TodoTypes, Goto, Threads

\* The receive thread goes and leaves the interface where it is.
LEMMA GotoRx ==
  ASSUME TodoTypes, NEW from, NEW to \in RxTodo, Goto("rx", from, to)
  PROVE  todo'["rx"] = to /\ todo'["ui"] = todo["ui"] /\ TodoTypes'
BY DEF TodoTypes, Goto, Threads

\* The steps of the interface, its own and those it has in common with the other thread.
LEMMA UiActions ==
  ASSUME StateTypes
  PROVE  /\ Start => Goto("ui", <<>>, InitUi)
         /\ ArraylistInit => Goto("ui", InitUi, <<"sqlite_init", "get_users", "get_messages">>)
         /\ SqliteInit =>
              \/ Goto("ui", <<"sqlite_init", "get_users", "get_messages">>,
                            <<"get_users", "get_messages">>)
              \/ Stops
         /\ GetUsers => Goto("ui", <<"get_users", "get_messages">>, <<"get_messages">>)
         /\ Lower \/ Higher =>
              \/ BelowLast /\ WithinBound /\ Goto("ui", <<>>, <<"down", "get_messages">>)
              \/ current_user > 0 /\ Goto("ui", <<>>, <<"up", "get_messages">>)
              \/ Goto("ui", <<>>, <<"get_messages">>)
         /\ Moved =>
              \/ /\ Goto("ui", <<"down", "get_messages">>, <<"get_messages">>)
                 /\ current_user' = current_user + 1
              \/ /\ Goto("ui", <<"up", "get_messages">>, <<"get_messages">>)
                 /\ current_user' = current_user - 1
         /\ Enter => Goto("ui", <<>>, EnterText)
         /\ Send => Goto("ui", EnterSend, EnterStore) \/ Stops
         /\ \A name : Chat(name) => Goto("ui", <<>>, ChatKey)
         /\ \A name : Nick(name) =>
              Goto("ui", <<>>, <<"update_nickname", "get_messages", "reset">>)
         /\ UpdateNickname => Goto("ui", <<"update_nickname", "get_messages", "reset">>, Ending)
         /\ Clear => Goto("ui", <<>>, <<"clear_messages", "get_messages", "reset">>)
         /\ ClearMessages => Goto("ui", <<"clear_messages", "get_messages", "reset">>, Ending)
         /\ Help => Goto("ui", <<>>, <<"reset">>)
         /\ Quit => Goto("ui", <<>>, <<"exit">>) \/ Stops
         /\ GetKey("ui") =>
              \/ /\ key' = [key EXCEPT !["ui"] = Derived("send", Name("ui"))]
                 /\ Goto("ui", EnterText, EnterSave) \/ Goto("ui", ChatKey, ChatSave)
              \/ /\ Stored("send", Name("ui")) # NoKey
                 /\ key' = [key EXCEPT !["ui"] = Stored("send", Name("ui"))]
                 /\ Goto("ui", EnterText, EnterSend) \/ Goto("ui", ChatKey, ChatSearch)
         /\ SaveKey("ui") => Goto("ui", EnterSave, EnterSend) \/ Goto("ui", ChatSave, ChatSearch)
         /\ SaveMessage("ui") => Goto("ui", EnterStore, Ending)
         /\ GetMessages("ui") =>
              \/ /\ Goto("ui", <<"get_messages">>, <<>>)
                 /\ UNCHANGED <<localVars, input, ptr>>
              \/ Goto("ui", Ending, <<>>) /\ Ends("ui")
         /\ SearchUser("ui") =>
              \/ Search(who["ui"]) = -1 /\ Goto("ui", ChatSearch, ChatStore)
              \/ Search(who["ui"]) # -1 /\ Goto("ui", ChatSearch, Ending)
         /\ StoreUser("ui") => Goto("ui", ChatStore, ChatCount)
         /\ CountUser("ui") => Goto("ui", ChatCount, ChatLast)
         /\ SelectLast("ui") => Goto("ui", ChatLast, Ending)
         /\ EndsEarly("ui") => Goto("ui", <<"reset">>, <<>>) /\ Ends("ui")
<1>1. Start => Goto("ui", <<>>, InitUi)
  BY Zenon DEF Start, Begins, Goto
<1>2. ArraylistInit => Goto("ui", InitUi, <<"sqlite_init", "get_users", "get_messages">>)
  BY UiMoves DEF ArraylistInit
<1>3. SqliteInit =>
        \/ Goto("ui", <<"sqlite_init", "get_users", "get_messages">>,
                      <<"get_users", "get_messages">>)
        \/ Stops
  BY UiMoves DEF SqliteInit
<1>4. GetUsers => Goto("ui", <<"get_users", "get_messages">>, <<"get_messages">>)
  BY UiMoves DEF GetUsers, Statement, Runs
<1>5. Lower \/ Higher =>
        \/ BelowLast /\ WithinBound /\ Goto("ui", <<>>, <<"down", "get_messages">>)
        \/ current_user > 0 /\ Goto("ui", <<>>, <<"up", "get_messages">>)
        \/ Goto("ui", <<>>, <<"get_messages">>)
  <2>1. \A step, can :
          Move(step, can) =>
            \/ can /\ Goto("ui", <<>>, <<step>> \o <<"get_messages">>)
            \/ Goto("ui", <<>>, <<>> \o <<"get_messages">>)
    BY Zenon DEF Move, Begins, Goto
  <2> QED BY ONLY <2>1, Programs, Zenon DEF Lower, Higher
<1>6. Moved =>
        \/ /\ Goto("ui", <<"down", "get_messages">>, <<"get_messages">>)
           /\ current_user' = current_user + 1
        \/ /\ Goto("ui", <<"up", "get_messages">>, <<"get_messages">>)
           /\ current_user' = current_user - 1
  BY UiMoves DEF Moved
<1>7. Enter => Goto("ui", <<>>, EnterText)
  BY Zenon DEF Enter, Begins, Goto
<1>8. Send => Goto("ui", EnterSend, EnterStore) \/ Stops
  BY UiMoves DEF Send
<1>9. \A name, steps : Command(name, steps) => Goto("ui", <<>>, steps \o <<"reset">>)
  BY Zenon DEF Command, Begins, Goto
<1>10. /\ \A name : Chat(name) => Goto("ui", <<>>, ChatKey)
       /\ \A name : Nick(name) =>
            Goto("ui", <<>>, <<"update_nickname", "get_messages", "reset">>)
       /\ Clear => Goto("ui", <<>>, <<"clear_messages", "get_messages", "reset">>)
       /\ Help => Goto("ui", <<>>, <<"reset">>)
  BY ONLY <1>9, Programs, Zenon DEF Chat, Nick, Clear, Help
<1>11. /\ UpdateNickname => Goto("ui", <<"update_nickname", "get_messages", "reset">>, Ending)
       /\ ClearMessages => Goto("ui", <<"clear_messages", "get_messages", "reset">>, Ending)
  BY UiMoves DEF UpdateNickname, ClearMessages, Statement, Runs
<1>12. Quit => Goto("ui", <<>>, <<"exit">>) \/ Stops
  BY Zenon DEF Quit, Begins, Goto
<1>13. GetKey("ui") =>
         \/ /\ key' = [key EXCEPT !["ui"] = Derived("send", Name("ui"))]
            /\ Goto("ui", EnterText, EnterSave) \/ Goto("ui", ChatKey, ChatSave)
         \/ /\ Stored("send", Name("ui")) # NoKey
            /\ key' = [key EXCEPT !["ui"] = Stored("send", Name("ui"))]
            /\ Goto("ui", EnterText, EnterSend) \/ Goto("ui", ChatKey, ChatSearch)
  <2>1. GetKey("ui") =>
          /\ At("ui", "get_sendkey")
          /\ \/ KeyExchange("ui", Stored("send", Name("ui")))
             \/ KeyExchange("ui", NoKey)
    BY DEF GetKey, Statement, Runs, Direction
  <2>2. \A found : KeyExchange("ui", found) =>
          \/ /\ key' = [key EXCEPT !["ui"] = Derived("send", Name("ui"))]
             /\ Goes("ui", KeySaved("ui"))
          \/ /\ found # NoKey /\ key' = [key EXCEPT !["ui"] = found]
             /\ Goes("ui", <<>>)
    BY DEF KeyExchange, Direction
  <2>3. At("ui", "get_sendkey") /\ Goes("ui", KeySaved("ui")) =>
          Goto("ui", EnterText, EnterSave) \/ Goto("ui", ChatKey, ChatSave)
    BY Asides
  <2>4. At("ui", "get_sendkey") /\ Goes("ui", <<>>) =>
          Goto("ui", EnterText, EnterSend) \/ Goto("ui", ChatKey, ChatSearch)
    BY UiMoves
  <2> QED BY ONLY <2>1, <2>2, <2>3, <2>4, Zenon
<1>14. /\ SaveKey("ui") => Goto("ui", EnterSave, EnterSend) \/ Goto("ui", ChatSave, ChatSearch)
       /\ SaveMessage("ui") => Goto("ui", EnterStore, Ending)
  BY UiMoves DEF SaveKey, SaveMessage, Statement, Runs
<1>15. GetMessages("ui") =>
         \/ /\ Goto("ui", <<"get_messages">>, <<>>)
            /\ UNCHANGED <<localVars, input, ptr>>
         \/ Goto("ui", Ending, <<>>) /\ Ends("ui")
  <2>1. SUFFICES ASSUME GetMessages("ui") PROVE
         \/ /\ Goto("ui", <<"get_messages">>, <<>>)
            /\ UNCHANGED <<localVars, input, ptr>>
         \/ Goto("ui", Ending, <<>>) /\ Ends("ui")
    OBVIOUS
  <2>2. At("ui", "get_messages")
    BY <2>1 DEF GetMessages, Runs
  <2>3. CASE todo["ui"] = <<"get_messages">> /\ Tail(todo["ui"]) = <<>>
    <3>1. ~ \E step \in EndSteps : Tail(todo["ui"]) = <<step>>
      BY <2>3
    <3>2. Goes("ui", <<>>) /\ UNCHANGED <<localVars, input, ptr>>
      BY <2>1, <3>1 DEF GetMessages
    <3>3. ~Goto("ui", Ending, <<"reset">>)
      BY <2>3 DEF Goto, Ending
    <3> QED BY <2>2, <3>2, <3>3, UiMoves
  <2>4. CASE todo["ui"] = Ending /\ Tail(todo["ui"]) = <<"reset">>
    <3>1. \E step \in EndSteps : Tail(todo["ui"]) = <<step>>
      BY <2>4 DEF EndSteps
    <3>2. Ends("ui")
      BY <2>1, <3>1 DEF GetMessages
    <3> QED BY <2>4, <3>2 DEF Goto, Ends
  <2> QED BY <2>2, <2>3, <2>4, UiProgram
<1>16. SearchUser("ui") =>
         \/ Search(who["ui"]) = -1 /\ Goto("ui", ChatSearch, ChatStore)
         \/ Search(who["ui"]) # -1 /\ Goto("ui", ChatSearch, Ending)
  <2>1. SearchUser("ui") =>
          /\ At("ui", "search")
          /\ \/ Search(who["ui"]) = -1 /\ Goes("ui", <<"store", "count", "last">>)
             \/ Search(who["ui"]) # -1 /\ Goes("ui", <<>>)
    BY DEF SearchUser, UseList
  <2> QED BY <2>1, Asides, UiMoves
<1>17. /\ StoreUser("ui") => Goto("ui", ChatStore, ChatCount)
       /\ CountUser("ui") => Goto("ui", ChatCount, ChatLast)
       /\ SelectLast("ui") => Goto("ui", ChatLast, Ending)
  BY UiMoves DEF StoreUser, CountUser, SelectLast, UseList
<1>18. EndsEarly("ui") => Goto("ui", <<"reset">>, <<>>) /\ Ends("ui")
  <2>1. EndsEarly("ui") => (At("ui", "reset") \/ At("ui", "unlock")) /\ Ends("ui")
    BY DEF EndsEarly, EndSteps
  <2>2. Ends("ui") => todo' = [todo EXCEPT !["ui"] = <<>>]
    BY DEF Ends
  <2> QED BY <2>1, <2>2, UiProgram DEF Goto
<1> QED BY ONLY <1>1, <1>2, <1>3, <1>4, <1>5, <1>6, <1>7, <1>8, <1>10, <1>11, <1>12, <1>13, <1>14,
        <1>15, <1>16, <1>17, <1>18, Zenon

\* The steps of the receive thread.
LEMMA RxActions ==
  ASSUME StateTypes
  PROVE  /\ Decrypt =>
              \/ key["rx"] = Key("recv", who["rx"]) /\ Goto("rx", RxDecrypt, RxKeep)
              \/ key["rx"] # Key("recv", who["rx"]) /\ Goto("rx", RxDecrypt, <<"unlock">>)
         /\ ReceiveEnd => Goto("rx", <<>>, <<"exited">>) \/ Stops
         /\ \A p : Receive(p) => Goto("rx", <<>>, RxKey)
         /\ GetKey("rx") =>
              \/ /\ key' = [key EXCEPT !["rx"] = Derived("recv", Name("rx"))]
                 /\ Goto("rx", RxKey, RxSave)
              \/ /\ Stored("recv", Name("rx")) # NoKey
                 /\ key' = [key EXCEPT !["rx"] = Stored("recv", Name("rx"))]
                 /\ Goto("rx", RxKey, RxDecrypt)
         /\ SaveKey("rx") => Goto("rx", RxSave, RxDecrypt)
         /\ SaveMessage("rx") => Goto("rx", RxKeep, RxSearch)
         /\ GetMessages("rx") => Goto("rx", RxShow, <<>>) /\ Ends("rx")
         /\ SearchUser("rx") =>
              \/ Search(who["rx"]) = -1 /\ Goto("rx", RxSearch, RxStore)
              \/ Search(who["rx"]) # -1 /\ Goto("rx", RxSearch, RxShow)
         /\ StoreUser("rx") => Goto("rx", RxStore, RxCount)
         /\ CountUser("rx") => Goto("rx", RxCount, RxLast)
         /\ SelectLast("rx") => Goto("rx", RxLast, RxShow)
         /\ EndsEarly("rx") => Goto("rx", <<"unlock">>, <<>>) /\ Ends("rx")
<1>1. Decrypt =>
        \/ key["rx"] = Key("recv", who["rx"]) /\ Goto("rx", RxDecrypt, RxKeep)
        \/ key["rx"] # Key("recv", who["rx"]) /\ Goto("rx", RxDecrypt, <<"unlock">>)
  BY RxMoves, RxProgram DEF Decrypt, Goto
<1>2. ReceiveEnd => Goto("rx", <<>>, <<"exited">>) \/ Stops
  BY Zenon DEF ReceiveEnd, Begins, Goto
<1>3. \A p : Receive(p) => Goto("rx", <<>>, RxKey)
  BY Programs, Zenon DEF Receive, Begins, Goto
<1>4. GetKey("rx") =>
        \/ /\ key' = [key EXCEPT !["rx"] = Derived("recv", Name("rx"))]
           /\ Goto("rx", RxKey, RxSave)
        \/ /\ Stored("recv", Name("rx")) # NoKey
           /\ key' = [key EXCEPT !["rx"] = Stored("recv", Name("rx"))]
           /\ Goto("rx", RxKey, RxDecrypt)
  <2>1. GetKey("rx") =>
          /\ At("rx", "get_receivekey")
          /\ \/ KeyExchange("rx", Stored("recv", Name("rx")))
             \/ KeyExchange("rx", NoKey)
    BY DEF GetKey, Statement, Runs, Direction
  <2>2. \A found : KeyExchange("rx", found) =>
          \/ /\ key' = [key EXCEPT !["rx"] = Derived("recv", Name("rx"))]
             /\ Goes("rx", KeySaved("rx"))
          \/ /\ found # NoKey /\ key' = [key EXCEPT !["rx"] = found]
             /\ Goes("rx", <<>>)
    BY DEF KeyExchange, Direction
  <2>3. At("rx", "get_receivekey") /\ Goes("rx", KeySaved("rx")) => Goto("rx", RxKey, RxSave)
    BY Asides
  <2>4. At("rx", "get_receivekey") /\ Goes("rx", <<>>) => Goto("rx", RxKey, RxDecrypt)
    BY RxMoves
  <2> QED BY ONLY <2>1, <2>2, <2>3, <2>4, Zenon
<1>5. SaveKey("rx") => Goto("rx", RxSave, RxDecrypt)
  BY RxMoves DEF SaveKey, Statement, Runs
<1>6. SaveMessage("rx") => Goto("rx", RxKeep, RxSearch)
  BY RxMoves DEF SaveMessage, Statement, Runs
<1>7. GetMessages("rx") => Goto("rx", RxShow, <<>>) /\ Ends("rx")
  <2>1. SUFFICES ASSUME GetMessages("rx") PROVE Goto("rx", RxShow, <<>>) /\ Ends("rx")
    OBVIOUS
  <2>2. At("rx", "get_messages")
    BY <2>1 DEF GetMessages, Runs
  <2>3. todo["rx"] = RxShow /\ Tail(todo["rx"]) = <<"unlock">>
    BY <2>2, RxProgram
  <2>4. \E step \in EndSteps : Tail(todo["rx"]) = <<step>>
    BY <2>3 DEF EndSteps
  <2>5. Ends("rx")
    BY <2>1, <2>4 DEF GetMessages
  <2> QED BY <2>3, <2>5 DEF Goto, Ends
<1>8. SearchUser("rx") =>
        \/ Search(who["rx"]) = -1 /\ Goto("rx", RxSearch, RxStore)
        \/ Search(who["rx"]) # -1 /\ Goto("rx", RxSearch, RxShow)
  <2>1. SearchUser("rx") =>
          /\ At("rx", "search")
          /\ \/ Search(who["rx"]) = -1 /\ Goes("rx", <<"store", "count", "last">>)
             \/ Search(who["rx"]) # -1 /\ Goes("rx", <<>>)
    BY DEF SearchUser, UseList
  <2> QED BY <2>1, Asides, RxMoves
<1>9. /\ StoreUser("rx") => Goto("rx", RxStore, RxCount)
      /\ CountUser("rx") => Goto("rx", RxCount, RxLast)
      /\ SelectLast("rx") => Goto("rx", RxLast, RxShow)
  BY RxMoves DEF StoreUser, CountUser, SelectLast, UseList
<1>10. EndsEarly("rx") => Goto("rx", <<"unlock">>, <<>>) /\ Ends("rx")
  <2>1. EndsEarly("rx") => (At("rx", "reset") \/ At("rx", "unlock")) /\ Ends("rx")
    BY DEF EndsEarly, EndSteps
  <2>2. Ends("rx") => todo' = [todo EXCEPT !["rx"] = <<>>]
    BY DEF Ends
  <2> QED BY <2>1, <2>2, RxProgram DEF Goto
<1> QED BY ONLY <1>1, <1>2, <1>3, <1>4, <1>5, <1>6, <1>7, <1>8, <1>9, <1>10, Zenon

\* The steps, by the process's end and by what they change: the rows, the list, the
\* names, the texts.
Quiet ==
  \/ Start \/ ServerCloses \/ ArraylistInit \/ Insert \/ Slash \/ Escape \/ Lower \/ Higher
  \/ TypeText \/ ClearInput \/ Enter \/ Overwritten \/ Decrypt
  \/ (SqliteInit \/ Send \/ Quit \/ ReceiveEnd) /\ ~Stops
OnList(t) == SearchUser(t) \/ StoreUser(t) \/ CountUser(t) \/ SelectLast(t)
Closes(t) == GetMessages(t) \/ EndsEarly(t)

\* Every step is one of these.
LEMMA Steps ==
  ASSUME Next
  PROVE  \/ Stops \/ Quiet \/ GetUsers \/ Moved \/ UpdateNickname \/ ClearMessages
         \/ (\E name \in Peers \cup Nicks : Chat(name)) \/ (\E name \in Peers : Nick(name))
         \/ Clear \/ Help \/ \E p \in Peers : Receive(p)
         \/ \E t \in Threads :
              GetKey(t) \/ SaveKey(t) \/ SaveMessage(t) \/ OnList(t) \/ Closes(t)
<1>1. Exit \/ ReceiveError \/ (\E t \in Threads : NoList(t)) => Stops
  BY Zenon DEF Exit, ReceiveError, NoList
<1>2. Ui => \/ Stops \/ Quiet \/ GetUsers \/ Moved \/ UpdateNickname \/ ClearMessages
            \/ (\E name \in Peers \cup Nicks : Chat(name)) \/ (\E name \in Peers : Nick(name))
            \/ Clear \/ Help
  BY <1>1, Zenon DEF Ui, Quiet
<1>3. Rx => Stops \/ Quiet \/ \E p \in Peers : Receive(p)
  BY <1>1, Zenon DEF Rx, Quiet
<1>4. \A t \in Threads :
        Either(t) => Stops \/ GetKey(t) \/ SaveKey(t) \/ SaveMessage(t) \/ OnList(t) \/ Closes(t)
  BY <1>1, Zenon DEF Either, OnList, Closes
<1> QED BY <1>2, <1>3, <1>4, Zenon DEF Next, Quiet

\* The quiet ones touch neither the lists nor the database.
LEMMA QuietLists ==
  ASSUME Quiet
  PROVE  UNCHANGED <<dbVars, listVars, who, key, gone>>
<1>1. Start \/ ServerCloses \/ ArraylistInit => UNCHANGED <<dbVars, listVars, who, key, gone>>
  BY DEF Start, ServerCloses, ArraylistInit, localVars, historyVars
<1>2. Insert \/ Slash \/ Escape \/ TypeText \/ ClearInput \/ Enter \/ Overwritten \/ Decrypt =>
        UNCHANGED <<dbVars, listVars, who, key, gone>>
  BY DEF Insert, Slash, Escape, TypeText, ClearInput, Enter, Overwritten, Decrypt, localVars,
         historyVars
<1>3. Lower \/ Higher => UNCHANGED <<dbVars, listVars, who, key, gone>>
  BY DEF Lower, Higher, Move, localVars, historyVars
<1>4. (SqliteInit \/ Send \/ Quit \/ ReceiveEnd) /\ ~Stops =>
        UNCHANGED <<dbVars, listVars, who, key, gone>>
  BY DEF SqliteInit, Send, Quit, ReceiveEnd, Deinit, localVars, historyVars
<1> QED BY <1>1, <1>2, <1>3, <1>4 DEF Quiet

\* What is left of the lists when the process ends.
LEMMA StopsBase ==
  ASSUME Base, Stops
  PROVE  Base'
<1>1. ListTypes'
  BY DEF Base, ListTypes, Stops, Unwritten, Names, dbVars, Each
<1>2. /\ state' = "down" /\ todo' = Each(<<>>) /\ length' = 0
      /\ todo'["ui"] = <<>> /\ todo'["rx"] = <<>>
  BY DEF Stops, Each, Threads
<1>3. StateTypes'
  BY <1>2, Places DEF Stops, StateTypes, Each, Threads, NoPtr
<1>4. /\ <<>> \notin Receiving /\ <<>> \notin Typing
      /\ <<>> \notin {ChatKey, ChatSave, ChatSearch, ChatStore, ChatCount}
      /\ <<>> \notin {RxKey, RxSave, RxDecrypt, RxKeep, RxSearch, RxStore, RxCount}
      /\ <<>> \notin Beginning
  BY DEF Receiving, Typing, EnterText, EnterSave, EnterSend, EnterStore, ChatKey, ChatSave,
         ChatSearch, ChatStore, ChatCount, RxKey, RxSave, RxDecrypt, RxKeep, RxSearch, RxStore,
         RxCount, RxLast, RxShow, Beginning, InitUi
<1>5. TextTypes'
  BY <1>2, <1>4 DEF Base, TextTypes, Stops, Each, Threads, Text, KeyType, NoInput, dbVars,
    worldVars
<1>6. Room'
  BY <1>2, <1>4, ZenAssumption DEF Room, UiAdds, RxAdds, Loads
<1> QED BY <1>1, <1>3, <1>5, <1>6 DEF Base

\* It holds at first.
LEMMA InitBase ==
  ASSUME Init
  PROVE  Base
<1>1. ListTypes
  BY DEF ListTypes, Init, Unwritten, Names, Each
<1>2. todo["ui"] = <<>> /\ todo["rx"] = <<>>
  BY DEF Init, Each, Threads
<1>3. StateTypes
  BY <1>2, Places DEF Init, StateTypes, Each, Threads, NoPtr
<1>4. /\ <<>> \notin Receiving /\ <<>> \notin Typing
      /\ <<>> \notin {ChatKey, ChatSave, ChatSearch, ChatStore, ChatCount}
      /\ <<>> \notin {RxKey, RxSave, RxDecrypt, RxKeep, RxSearch, RxStore, RxCount}
      /\ <<>> \notin Beginning
  BY DEF Receiving, Typing, EnterText, EnterSave, EnterSend, EnterStore, ChatKey, ChatSave,
         ChatSearch, ChatStore, ChatCount, RxKey, RxSave, RxDecrypt, RxKeep, RxSearch, RxStore,
         RxCount, RxLast, RxShow, Beginning, InitUi
<1>5. TextTypes
  BY <1>2, <1>4 DEF TextTypes, Init, Each, Threads, Text, KeyType, NoInput
<1>6. Room
  BY <1>2, <1>4, ZenAssumption DEF Init, Room, UiAdds, RxAdds, Loads
<1> QED BY <1>1, <1>3, <1>5, <1>6 DEF Base

\* The list is no longer than it may be.
LEMMA RoomLeft ==
  ASSUME ListTypes, Room
  PROVE  length <= MaxUsers
<1>1. /\ \A l : UiAdds(l) \in {0, 1} /\ RxAdds(l) \in {0, 1} /\ RxSaves(l) \in {0, 1}
  BY Zenon DEF UiAdds, RxAdds, RxSaves
<1>2. Len(rows) \in Nat
  BY DEF ListTypes
<1>3. Loads(todo["ui"]) \in Nat
  BY <1>1, <1>2 DEF Loads
<1>4. UiAdds(todo["ui"]) \in Nat /\ RxAdds(todo["rx"]) \in Nat
  BY <1>1
<1> QED BY <1>3, <1>4, ZenAssumption DEF ListTypes, Room

\* The lists keep their types, and what is added has its place.
LEMMA ListTypesStep ==
  ASSUME Base, Next, ~Stops
  PROVE  ListTypes'
<1>0. MaxUsers \in Nat
  BY ZenAssumption
<1>a. ListTypes /\ StateTypes /\ TextTypes /\ Room
  BY DEF Base
<1>1. CASE Quiet
  BY <1>1, <1>a, QuietLists DEF ListTypes, dbVars, listVars
<1>2. CASE GetUsers
  <2>1. /\ UNCHANGED <<rows, current_user, who>>
        /\ \/ UNCHANGED <<items, length>>
           \/ /\ items' = [i \in Slots |-> IF i \in length..length + Len(rows) - 1
                                           THEN rows[i - length + 1].nick ELSE items[i]]
              /\ length' = length + Len(rows)
    BY <1>2 DEF GetUsers, Statement, Runs, dbVars
  <2>2. ASSUME NEW i \in Slots, i \in length..length + Len(rows) - 1
        PROVE  rows[i - length + 1].nick \in Names
    <3>1. i - length + 1 \in 1..Len(rows)
      BY <1>a, <2>2 DEF ListTypes
    <3>2. rows[i - length + 1] \in Row
      BY <1>a, <3>1 DEF ListTypes
    <3> QED BY <3>2 DEF Row
  <2>3. Len(rows) \in Nat
    BY <1>a DEF ListTypes
  <2>4. items' \in [Slots -> Names] /\ length' \in Nat
    BY <1>a, <2>1, <2>2, <2>3 DEF ListTypes
  <2> QED BY <1>a, <2>1, <2>4 DEF ListTypes
<1>3. CASE Moved
  BY <1>3, <1>a DEF ListTypes, Moved, dbVars, localVars
<1>4. CASE UpdateNickname
  <2>1. UNCHANGED <<items, length, current_user, who>>
    BY <1>4 DEF UpdateNickname, Statement, Runs, listVars
  <2>2. \/ rows' = rows
        \/ \E nick \in Nicks :
             rows' = [i \in 1..Len(rows) |-> IF i \in RowsOf(who["ui"])
                        THEN [rows[i] EXCEPT !.nick = nick] ELSE rows[i]]
    BY <1>4 DEF UpdateNickname, Statement, Runs
  <2>3. ASSUME NEW nick \in Nicks,
               rows' = [i \in 1..Len(rows) |-> IF i \in RowsOf(who["ui"])
                          THEN [rows[i] EXCEPT !.nick = nick] ELSE rows[i]]
        PROVE  rows' \in Seq(Row)
    <3>1. Len(rows) \in Nat /\ \A i \in 1..Len(rows) : rows[i] \in Row
      BY <1>a DEF ListTypes
    <3>2. \A i \in 1..Len(rows) : [rows[i] EXCEPT !.nick = nick] \in Row
      BY <3>1 DEF Row, Names
    <3> QED BY <2>3, <3>1, <3>2
  <2> QED BY <1>a, <2>1, <2>2, <2>3 DEF ListTypes
<1>5. CASE ClearMessages
  BY <1>5, <1>a DEF ListTypes, ClearMessages, Statement, Runs, listVars
<1>6. ASSUME NEW name \in Names, NEW steps, Command(name, steps)
      PROVE  ListTypes'
  BY <1>6, <1>a DEF ListTypes, Command, dbVars, listVars, Threads
<1>7. CASE \/ (\E name \in Peers \cup Nicks : Chat(name)) \/ (\E name \in Peers : Nick(name))
           \/ Clear \/ Help
  BY <1>6, <1>7, Zenon DEF Chat, Nick, Clear, Help, Names
<1>8. ASSUME NEW p \in Peers, Receive(p)
      PROVE  ListTypes'
  BY <1>8, <1>a DEF ListTypes, Receive, dbVars, listVars, Threads, Names
<1>9. ASSUME NEW t \in Threads, GetKey(t) \/ SaveMessage(t)
      PROVE  ListTypes'
  BY <1>9, <1>a DEF ListTypes, GetKey, SaveMessage, Statement, Runs, dbVars, listVars
<1>10. ASSUME NEW t \in Threads, SaveKey(t)
       PROVE  ListTypes'
  <2>1. Name(t) \in Names /\ key[t] \in KeyType
    BY <1>a, NameTyped DEF TextTypes
  <2>2. Replaced(NewRow(Direction(t), Name(t), key[t])) \in Seq(Row)
    BY <1>a, <2>1, NewRowTyped, ReplacedTyped DEF ListTypes
  <2>3. /\ rows' = rows \/ rows' = Replaced(NewRow(Direction(t), Name(t), key[t]))
        /\ UNCHANGED <<listVars, who>>
    BY <1>10 DEF SaveKey, Statement, Runs
  <2> QED BY <1>a, <2>2, <2>3 DEF ListTypes, listVars
<1>11. ASSUME NEW t \in Threads, OnList(t)
       PROVE  ListTypes'
  <2>1. UNCHANGED <<rows, who>>
    BY <1>11 DEF OnList, SearchUser, StoreUser, CountUser, SelectLast, UseList, dbVars, localVars
  <2>2. CASE SearchUser(t)
    <3>1. length <= MaxUsers
      BY <1>a, RoomLeft
    <3>2. Search(who[t]) \in Int
      BY <1>0, <1>a, <3>1, SearchIn DEF ListTypes
    <3>3. UNCHANGED <<items, length>> /\ current_user' = Search(who[t])
      BY <2>2 DEF SearchUser, Select
    <3> QED BY <1>a, <2>1, <3>2, <3>3 DEF ListTypes
  <2>3. CASE StoreUser(t)
    <3>1. who[t] \in Names
      BY <1>a DEF ListTypes
    <3>2. items' = [items EXCEPT ![length] = who[t]] /\ UNCHANGED <<length, current_user>>
      BY <2>3 DEF StoreUser
    <3> QED BY <1>a, <2>1, <3>1, <3>2 DEF ListTypes
  <2>4. CASE CountUser(t)
    BY <1>a, <2>1, <2>4 DEF ListTypes, CountUser
  <2>5. CASE SelectLast(t)
    BY <1>a, <2>1, <2>5 DEF ListTypes, SelectLast, Select
  <2> QED BY <1>11, <2>2, <2>3, <2>4, <2>5 DEF OnList
<1>12. ASSUME NEW t \in Threads, Closes(t)
       PROVE  ListTypes'
  <2>1. UNCHANGED <<rows, items, length, current_user>>
    BY <1>12 DEF Closes, GetMessages, EndsEarly, Runs, dbVars, listVars
  <2>2. who' = who \/ who' = [who EXCEPT ![t] = Garbage]
    BY <1>12 DEF Closes, GetMessages, EndsEarly, Ends, localVars
  <2> QED BY <1>a, <2>1, <2>2 DEF ListTypes, Names
<1> QED BY <1>1, <1>2, <1>3, <1>4, <1>5, <1>7, <1>8, <1>9, <1>10, <1>11, <1>12, Steps

\* A thread is always at a place of its program; one that begins does so in a
\* process, and Start begins that.
LEMMA TodoStep ==
  ASSUME StateTypes, Next, ~Stops
  PROVE  TodoTypes' /\ (Start \/ state # "down" \/ UNCHANGED todo)
<1>a. TodoTypes /\ (state = "down" => todo["ui"] = <<>> /\ todo["rx"] = <<>>)
  BY DEF StateTypes, TodoTypes, Each, Threads
<1>1. ASSUME NEW from, NEW to \in UiTodo, Goto("ui", from, to), from # <<>> \/ Up
      PROVE  TodoTypes' /\ state # "down"
  BY <1>1, <1>a, GotoUi DEF Goto, Up
<1>2. ASSUME NEW from, NEW to \in RxTodo, Goto("rx", from, to), from # <<>> \/ Up
      PROVE  TodoTypes' /\ state # "down"
  BY <1>2, <1>a, GotoRx DEF Goto, Up
<1>3. CASE Start
  BY <1>3, <1>a, UiActions, GotoUi, Places
<1>4. CASE UNCHANGED todo
  BY <1>4, <1>a DEF TodoTypes
<1>b. /\ InitUi # <<>> /\ Ending # <<>> /\ EnterText # <<>> /\ EnterSave # <<>>
      /\ EnterSend # <<>> /\ EnterStore # <<>> /\ ChatKey # <<>> /\ ChatSave # <<>>
      /\ ChatSearch # <<>> /\ ChatStore # <<>> /\ ChatCount # <<>> /\ ChatLast # <<>>
      /\ RxKey # <<>> /\ RxSave # <<>> /\ RxDecrypt # <<>> /\ RxKeep # <<>> /\ RxSearch # <<>>
      /\ RxStore # <<>> /\ RxCount # <<>> /\ RxLast # <<>> /\ RxShow # <<>>
  BY DEF InitUi, Ending, EnterText, EnterSave, EnterSend, EnterStore, ChatKey, ChatSave,
         ChatSearch, ChatStore, ChatCount, ChatLast, RxKey, RxSave, RxDecrypt, RxKeep, RxSearch,
         RxStore, RxCount, RxLast, RxShow
<1>5. CASE ArraylistInit \/ SqliteInit \/ GetUsers \/ Moved \/ Send \/ UpdateNickname
           \/ ClearMessages
  <2>1. \E from, to : Goto("ui", from, to) /\ from # <<>> /\ to \in UiTodo
    BY <1>5, <1>b, UiActions, Places
  <2> QED BY <1>1, <2>1
<1>6. CASE \/ Lower \/ Higher \/ Enter \/ Clear \/ Help \/ Quit
           \/ (\E name \in Peers \cup Nicks : Chat(name)) \/ (\E name \in Peers : Nick(name))
  <2>1. Up
    BY <1>6 DEF Lower, Higher, Move, Enter, Clear, Help, Quit, Chat, Nick, Command, Pressed, Keys
  <2>2. \E from, to : Goto("ui", from, to) /\ to \in UiTodo
    BY <1>6, UiActions, Places
  <2> QED BY <1>1, <2>1, <2>2
<1>7. CASE \/ GetKey("ui") \/ SaveKey("ui") \/ SaveMessage("ui") \/ OnList("ui") \/ Closes("ui")
  <2>1. \E from, to : Goto("ui", from, to) /\ from # <<>> /\ to \in UiTodo
    BY <1>7, <1>b, UiActions, Places DEF OnList, Closes
  <2> QED BY <1>1, <2>1
<1>8. CASE \/ Decrypt \/ GetKey("rx") \/ SaveKey("rx") \/ SaveMessage("rx") \/ OnList("rx")
           \/ Closes("rx")
  <2>1. \E from, to : Goto("rx", from, to) /\ from # <<>> /\ to \in RxTodo
    BY <1>8, <1>b, RxActions, Places DEF OnList, Closes
  <2> QED BY <1>2, <2>1
<1>9. CASE ReceiveEnd \/ \E p \in Peers : Receive(p)
  <2>1. Up
    BY <1>9 DEF ReceiveEnd, Receive
  <2>2. \E from, to : Goto("rx", from, to) /\ to \in RxTodo
    BY <1>9, RxActions, Places
  <2> QED BY <1>2, <2>1, <2>2
<1>10. CASE ServerCloses \/ Insert \/ Slash \/ Escape \/ TypeText \/ ClearInput \/ Overwritten
  <2>1. UNCHANGED todo
    BY <1>10 DEF ServerCloses, Insert, Slash, Escape, TypeText, ClearInput, Overwritten
  <2> QED BY <1>4, <2>1
<1> QED BY <1>3, <1>5, <1>6, <1>7, <1>8, <1>9, <1>10, Steps DEF Quiet, Threads

\* What the steps make of the mode, the recipient and the process.
LEMMA ModeStep ==
  ASSUME Next, ~Stops
  PROVE  /\ mode' \in {mode, "NORMAL", "INSERT", "COMMAND"}
         /\ ptr' \in {ptr, NoPtr, [ptr EXCEPT !.at = -1]} \/ Enter
         /\ state' \in {state, "started", "listed", "ready", "freed"}
         /\ Start => state' = "started"
<1> DEFINE Goal == /\ mode' \in {mode, "NORMAL", "INSERT", "COMMAND"}
                   /\ ptr' \in {ptr, NoPtr, [ptr EXCEPT !.at = -1]} \/ Enter
                   /\ state' \in {state, "started", "listed", "ready", "freed"}
<1>1. Start \/ ServerCloses \/ ArraylistInit => Goal
  BY DEF Start, ServerCloses, ArraylistInit, uiVars
<1>2. Insert \/ Slash \/ Escape \/ TypeText \/ ClearInput \/ Overwritten \/ Decrypt => Goal
  BY DEF Insert, Slash, Escape, TypeText, ClearInput, Overwritten, Decrypt, uiVars
<1>3. Lower \/ Higher \/ Moved => Goal
  BY DEF Lower, Higher, Move, Moved, uiVars
<1>4. Enter => Goal
  BY DEF Enter
<1>5. (SqliteInit \/ Send \/ Quit \/ ReceiveEnd) /\ ~Stops => Goal
  BY DEF SqliteInit, Send, Quit, ReceiveEnd, Deinit, uiVars
<1>6. GetUsers \/ UpdateNickname \/ ClearMessages => Goal
  BY DEF GetUsers, UpdateNickname, ClearMessages, Statement, Runs
<1>7. \A name, steps : Command(name, steps) => Goal
  BY DEF Command
<1>8. \A name : Chat(name) \/ Nick(name) \/ Clear \/ Help => Goal
  BY <1>7, Zenon DEF Chat, Nick, Clear, Help
<1>9. \A p \in Peers : Receive(p) => Goal
  BY DEF Receive, uiVars
<1>10. \A t \in Threads : GetKey(t) \/ SaveKey(t) \/ SaveMessage(t) => Goal
  BY DEF GetKey, SaveKey, SaveMessage, Statement, Runs
<1>11. \A t \in Threads : OnList(t) => Goal
  BY DEF OnList, SearchUser, StoreUser, CountUser, SelectLast, UseList
<1>12. \A t \in Threads : Closes(t) => Goal
  BY DEF Closes, GetMessages, EndsEarly, Ends, Runs
<1>13. Goal
  <2> HIDE DEF Goal
  <2> QED BY <1>1, <1>2, <1>3, <1>4, <1>5, <1>6, <1>8, <1>9, <1>10, <1>11, <1>12, Steps DEF Quiet
<1>14. Start => state' = "started"
  BY DEF Start
<1> QED BY <1>13, <1>14

\* The list grows where it is loaded, and where a user added is counted.
LEMMA LengthStep ==
  ASSUME Next, ~Stops
  PROVE  \/ length' = length \/ GetUsers
         \/ \E t \in Threads : (CountUser(t) /\ length' = length + 1)
<1>1. Quiet => length' = length
  BY QuietLists DEF listVars
<1>2. Moved \/ UpdateNickname \/ ClearMessages => length' = length
  BY DEF Moved, UpdateNickname, ClearMessages, Statement, Runs, listVars
<1>3. \A name, steps : Command(name, steps) => length' = length
  BY DEF Command, listVars
<1>4. \A name : Chat(name) \/ Nick(name) \/ Clear \/ Help => length' = length
  BY <1>3, Zenon DEF Chat, Nick, Clear, Help
<1>5. \A p \in Peers : Receive(p) => length' = length
  BY DEF Receive, listVars
<1>6. \A t \in Threads :
        GetKey(t) \/ SaveKey(t) \/ SaveMessage(t) \/ Closes(t) => length' = length
  BY DEF GetKey, SaveKey, SaveMessage, Closes, GetMessages, EndsEarly, Statement, Runs, listVars
<1>7. \A t \in Threads : OnList(t) => length' = length \/ (CountUser(t) /\ length' = length + 1)
  BY DEF OnList, SearchUser, StoreUser, CountUser, SelectLast, UseList
<1> QED BY <1>1, <1>2, <1>4, <1>5, <1>6, <1>7, Steps

\* The state of the process keeps its types.
LEMMA StateTypesStep ==
  ASSUME Base, Next, ~Stops
  PROVE  StateTypes'
<1>1. StateTypes
  BY DEF Base
<1>2. TodoTypes' /\ (Start \/ state # "down" \/ UNCHANGED todo)
  BY <1>1, TodoStep
<1>3. mode' \in {"NORMAL", "INSERT", "COMMAND"}
  BY <1>1, ModeStep DEF StateTypes
<1>4. ptr' = [at |-> ptr'.at, capacity |-> ptr'.capacity] /\ ptr'.at \in {-1} \cup Slots
  <2>1. CASE ptr' \in {ptr, NoPtr, [ptr EXCEPT !.at = -1]}
    <3>1. PICK p : p = ptr
      OBVIOUS
    <3>2. p = [at |-> p.at, capacity |-> p.capacity] /\ p.at \in {-1} \cup Slots
      BY <1>1, <3>1 DEF StateTypes
    <3> QED BY <2>1, <3>1, <3>2 DEF NoPtr
  <2>2. CASE Enter
    BY <2>2 DEF Enter
  <2> QED BY <2>1, <2>2, ModeStep
<1>5. state' \in {"down", "started", "listed", "ready", "freed"}
  BY <1>1, ModeStep DEF StateTypes
<1>6. ASSUME state' = "down"
      PROVE  todo' = Each(<<>>) /\ length' = 0
  <2>1. state = "down" /\ ~Start
    BY <1>6, ModeStep
  <2>2. todo' = todo /\ todo = Each(<<>>) /\ length = 0
    BY <1>1, <1>2, <2>1 DEF StateTypes
  <2>3. \A t \in Threads : todo[t] = <<>>
    BY <2>2 DEF Each
  <2>4. ~GetUsers /\ \A t \in Threads : ~CountUser(t)
    BY <2>3 DEF GetUsers, CountUser, UseList, Statement, Runs, At, Threads
  <2> QED BY <2>2, <2>4, LengthStep
<1> QED BY <1>2, <1>3, <1>4, <1>5, <1>6 DEF StateTypes, TodoTypes

\* What is to be done at each kind of place.
LEMMA UiKinds ==
  /\ \A l \in Typing : /\ l \notin Beginning /\ l \notin Drawing /\ l \notin Chatting
                       /\ l # Ending /\ l # <<>> /\ l \notin Commanding /\ l # <<"exit">>
  /\ \A l \in Chatting : /\ l \notin Beginning /\ l \notin Drawing
                         /\ l # Ending /\ l # <<>> /\ l \notin Commanding /\ l # <<"exit">>
  /\ \A l \in Beginning : /\ l \notin Drawing /\ l # Ending /\ l # <<>> /\ l \notin Commanding
                          /\ l # <<"exit">>
  /\ \A l \in Drawing : l # Ending /\ l # <<>> /\ l \notin Commanding /\ l # <<"exit">>
  /\ \A l \in Commanding : l # Ending /\ l # <<>> /\ l # <<"exit">>
  /\ Ending # <<>> /\ Ending # <<"exit">> /\ <<>> # <<"exit">>
<1>1. \A l \in Typing : /\ l \notin Beginning /\ l \notin Drawing
                        /\ l # Ending /\ l # <<>> /\ l \notin Commanding /\ l # <<"exit">>
  BY DEF Typing, EnterText, EnterSave, EnterSend, EnterStore, Ending, Beginning, InitUi,
         Drawing, Commanding
<1>2. \A l \in Chatting : l \notin Typing
  BY DEF Typing, EnterText, EnterSave, EnterSend, EnterStore, Chatting, ChatKey, ChatSave,
         ChatSearch, ChatStore, ChatCount, ChatLast
<1>3. \A l \in Chatting : /\ l \notin Beginning /\ l \notin Drawing
                          /\ l # Ending /\ l # <<>> /\ l \notin Commanding /\ l # <<"exit">>
  BY DEF Chatting, ChatKey, ChatSave, ChatSearch, ChatStore, ChatCount, ChatLast, Ending,
         Beginning, InitUi, Drawing, Commanding
<1>4. \A l \in Beginning : /\ l \notin Drawing /\ l # Ending /\ l # <<>> /\ l \notin Commanding
                           /\ l # <<"exit">>
  BY DEF Beginning, InitUi, Drawing, Ending, Commanding
<1>5. /\ \A l \in Drawing : l # Ending /\ l # <<>> /\ l \notin Commanding /\ l # <<"exit">>
      /\ \A l \in Commanding : l # Ending /\ l # <<>> /\ l # <<"exit">>
      /\ Ending # <<>> /\ Ending # <<"exit">> /\ <<>> # <<"exit">>
  BY DEF Drawing, Ending, Commanding
<1> QED BY ONLY <1>1, <1>2, <1>3, <1>4, <1>5, Zenon

\* What kind each place is of.
LEMMA UiKindOf ==
  /\ EnterText \in Typing /\ EnterSave \in Typing /\ EnterSend \in Typing /\ EnterStore \in Typing
  /\ ChatKey \in Chatting /\ ChatSave \in Chatting /\ ChatSearch \in Chatting
  /\ ChatStore \in Chatting /\ ChatCount \in Chatting /\ ChatLast \in Chatting
  /\ <<"get_messages">> \in Drawing /\ <<"down", "get_messages">> \in Drawing
  /\ <<"up", "get_messages">> \in Drawing /\ InitUi \in Beginning
  /\ <<"sqlite_init", "get_users", "get_messages">> \in Beginning
  /\ <<"get_users", "get_messages">> \in Beginning
  /\ <<"update_nickname", "get_messages", "reset">> \in Commanding
  /\ <<"clear_messages", "get_messages", "reset">> \in Commanding /\ <<"reset">> \in Commanding
BY Zenon DEF Typing, Chatting, Drawing, Beginning, Commanding

\* Places of /chat, and of the receive thread, that are not the same.
LEMMA ChatPlaces ==
  ChatLast \notin {ChatKey, ChatSave, ChatSearch, ChatStore, ChatCount}
BY DEF ChatKey, ChatSave, ChatSearch, ChatStore, ChatCount, ChatLast

\* The same, of the receive thread.
LEMMA RxPlaces ==
  /\ {RxLast, RxShow, <<>>, <<"unlock">>, <<"exited">>}
       \cap {RxKey, RxSave, RxDecrypt, RxKeep, RxSearch, RxStore, RxCount} = {}
  /\ {RxDecrypt, RxKeep, RxSearch, RxStore, RxCount, RxLast, RxShow, <<>>, <<"unlock">>,
       <<"exited">>}
       \cap {RxKey, RxSave} = {}
  /\ {<<>>, <<"unlock">>, <<"exited">>} \cap Receiving = {}
<1>1. \A l \in {RxLast, RxShow, <<>>, <<"unlock">>, <<"exited">>} :
        l \notin {RxKey, RxSave, RxDecrypt, RxKeep, RxSearch, RxStore, RxCount}
  BY DEF RxKey, RxSave, RxDecrypt, RxKeep, RxSearch, RxStore, RxCount, RxLast, RxShow
<1>2. \A l \in {RxDecrypt, RxKeep, RxSearch, RxStore, RxCount, RxLast, RxShow, <<>>, <<"unlock">>,
                <<"exited">>} : l \notin {RxKey, RxSave}
  BY DEF RxKey, RxSave, RxDecrypt, RxKeep, RxSearch, RxStore, RxCount, RxLast, RxShow
<1>3. \A l \in {<<>>, <<"unlock">>, <<"exited">>} : l \notin Receiving
  BY DEF Receiving, RxKey, RxSave, RxDecrypt, RxKeep, RxSearch, RxStore, RxCount, RxLast, RxShow
<1> QED BY ONLY <1>1, <1>2, <1>3, Zenon

\* What a place leaves to be added, saved and loaded.
LEMMA UiRoom ==
  /\ \A l \in {ChatKey, ChatSave, ChatSearch, ChatStore, ChatCount} :
       UiAdds(l) = 1 /\ l \notin Beginning
  /\ \A l \in {<<>>, Ending, ChatLast, <<"exit">>} \cup Commanding \cup Typing \cup Drawing :
       UiAdds(l) = 0 /\ l \notin Beginning
  /\ \A l \in Beginning : UiAdds(l) = 0
<1>1. \A l \in {ChatKey, ChatSave, ChatSearch, ChatStore, ChatCount} : l \notin Beginning
  BY ONLY UiKinds, UiKindOf, Zenon
<1>2. \A l \in {<<>>, Ending, ChatLast, <<"exit">>} \cup Commanding \cup Typing \cup Drawing :
        l \notin Beginning /\ l \notin {ChatKey, ChatSave, ChatSearch, ChatStore, ChatCount}
  BY ONLY UiKinds, UiKindOf, ChatPlaces, Zenon
<1> QED BY ONLY <1>1, <1>2, Zenon DEF UiAdds

\* The same, of the receive thread.
LEMMA RxRoom ==
  /\ \A l \in {RxKey, RxSave} : RxAdds(l) = 1 /\ RxSaves(l) = 1
  /\ \A l \in {RxDecrypt, RxKeep, RxSearch, RxStore, RxCount} : RxAdds(l) = 1 /\ RxSaves(l) = 0
  /\ \A l \in {RxLast, RxShow, <<>>, <<"unlock">>, <<"exited">>} : RxAdds(l) = 0 /\ RxSaves(l) = 0
BY ONLY RxPlaces, Zenon DEF RxAdds, RxSaves

\* A text is sent by what Enter begins, and a message kept by what Receive does.
LEMMA TypingStep ==
  ASSUME StateTypes, Next, ~Stops
  PROVE  /\ todo'["ui"] \in Typing => todo["ui"] \in Typing \/ Enter
         /\ todo'["rx"] \in Receiving => todo["rx"] \in Receiving \/ \E p \in Peers : Receive(p)
<1> DEFINE Goal == /\ todo'["ui"] \in Typing => todo["ui"] \in Typing \/ Enter
                   /\ todo'["rx"] \in Receiving =>
                        todo["rx"] \in Receiving \/ \E p \in Peers : Receive(p)
<1>a. TodoTypes
  BY DEF StateTypes, TodoTypes
<1>1. ASSUME NEW from, NEW to \in UiTodo, Goto("ui", from, to),
             to \in Typing => from \in Typing \/ Enter
      PROVE  Goal
  BY <1>1, <1>a, GotoUi DEF Goto
<1>2. ASSUME NEW from, NEW to \in RxTodo, Goto("rx", from, to),
             to \in Receiving => from \in Receiving \/ \E p \in Peers : Receive(p)
      PROVE  Goal
  BY <1>2, <1>a, GotoRx DEF Goto
<1> SUFFICES Goal
  OBVIOUS
<1> HIDE DEF Goal
<1>3. CASE UNCHANGED todo
  BY <1>3 DEF Goal
<1>4. CASE Start \/ ArraylistInit \/ SqliteInit \/ GetUsers \/ Lower \/ Higher \/ Moved
  <2>1. \E from, to : Goto("ui", from, to) /\ to \in UiTodo /\ to \notin Typing
    BY <1>4, UiActions, Places, UiKinds, UiKindOf
  <2> QED BY <1>1, <2>1
<1>5. CASE \/ UpdateNickname \/ ClearMessages \/ Clear \/ Help \/ Quit
           \/ (\E name \in Peers \cup Nicks : Chat(name)) \/ (\E name \in Peers : Nick(name))
  <2>1. \E from, to : Goto("ui", from, to) /\ to \in UiTodo /\ to \notin Typing
    BY <1>5, UiActions, Places, UiKinds, UiKindOf
  <2> QED BY <1>1, <2>1
<1>6. CASE Enter
  BY <1>1, <1>6, UiActions, Places
<1>7. CASE Send \/ GetKey("ui") \/ SaveKey("ui")
  <2>1. \E from, to : Goto("ui", from, to) /\ to \in UiTodo /\ (to \in Typing => from \in Typing)
    BY <1>7, UiActions, Places, UiKinds, UiKindOf
  <2> QED BY <1>1, <2>1
<1>8. CASE SaveMessage("ui") \/ OnList("ui") \/ Closes("ui")
  <2>1. \E from, to : Goto("ui", from, to) /\ to \in UiTodo /\ to \notin Typing
    BY <1>8, UiActions, Places, UiKinds, UiKindOf DEF OnList, Closes
  <2> QED BY <1>1, <2>1
<1>9. CASE Decrypt \/ GetKey("rx") \/ SaveKey("rx") \/ SaveMessage("rx") \/ OnList("rx")
  <2>1. \E from, to : Goto("rx", from, to) /\ to \in RxTodo
                       /\ (to \in Receiving => from \in Receiving)
    BY <1>9, RxActions, Places, RxPlaces DEF OnList
  <2> QED BY <1>2, <2>1
<1>10. CASE Closes("rx") \/ ReceiveEnd
  <2>1. \E from, to : Goto("rx", from, to) /\ to \in RxTodo /\ to \notin Receiving
    BY <1>10, RxActions, Places, RxPlaces DEF Closes
  <2> QED BY <1>2, <2>1
<1>11. CASE \E p \in Peers : Receive(p)
  BY <1>2, <1>11, RxActions, Places
<1>12. CASE ServerCloses \/ Insert \/ Slash \/ Escape \/ TypeText \/ ClearInput \/ Overwritten
  BY <1>3, <1>12 DEF ServerCloses, Insert, Slash, Escape, TypeText, ClearInput, Overwritten
<1> QED BY <1>4, <1>5, <1>6, <1>7, <1>8, <1>9, <1>10, <1>11, <1>12, Steps DEF Quiet, Threads

\* A key at hand is a key.
LEMMA KeysTyped ==
  ASSUME Base, Next, ~Stops
  PROVE  key' \in [Threads -> KeyType]
<1>a. ListTypes /\ StateTypes /\ key \in [Threads -> KeyType]
  BY DEF Base, TextTypes
<1>1. Quiet => key' = key
  BY QuietLists
<1>2. GetUsers \/ Moved \/ UpdateNickname \/ ClearMessages => key' = key
  BY DEF GetUsers, Moved, UpdateNickname, ClearMessages, localVars
<1>3. \A name, steps : Command(name, steps) => key' = key
  BY DEF Command
<1>4. \A name : Chat(name) \/ Nick(name) \/ Clear \/ Help => key' = key
  BY <1>3, Zenon DEF Chat, Nick, Clear, Help
<1>5. \A p \in Peers : Receive(p) => key' = key
  BY DEF Receive
<1>6. \A t \in Threads : SaveKey(t) \/ SaveMessage(t) \/ OnList(t) => key' = key
  BY DEF SaveKey, SaveMessage, OnList, SearchUser, StoreUser, CountUser, SelectLast, UseList,
         localVars
<1>7. ASSUME NEW t \in Threads, GetKey(t)
      PROVE  key' \in [Threads -> KeyType]
  <2>1. Name(t) \in Names
    BY <1>a, NameTyped
  <2>2. Direction(t) \in {"send", "recv"}
    BY DEF Direction
  <2>3. Derived(Direction(t), Name(t)) \in KeyType
    BY <2>1, <2>2, KeyTyped
  <2>4. Stored(Direction(t), Name(t)) \in KeyType /\ NoKey \in KeyType
    BY <1>a, StoredTyped DEF ListTypes, KeyType
  <2>5. \/ KeyExchange(t, Stored(Direction(t), Name(t)))
        \/ KeyExchange(t, NoKey)
    BY <1>7 DEF GetKey, Statement, Runs
  <2>6. \E k \in KeyType : key' = [key EXCEPT ![t] = k]
    BY <2>3, <2>4, <2>5 DEF KeyExchange
  <2> QED BY <1>a, <2>6
<1>8. ASSUME NEW t \in Threads, Closes(t)
      PROVE  key' \in [Threads -> KeyType]
  <2>1. key' = key \/ key' = [key EXCEPT ![t] = NoKey]
    BY <1>8 DEF Closes, GetMessages, EndsEarly, Ends, localVars
  <2> QED BY <1>a, <2>1 DEF KeyType
<1> QED BY <1>a, <1>1, <1>2, <1>4, <1>5, <1>6, <1>7, <1>8, Steps

\* What the steps make of the texts: typed, received, and at hand.
LEMMA TextStep ==
  ASSUME Next, ~Stops
  PROVE  \/ UNCHANGED <<text, input, typed, got>>
         \/ Enter /\ UNCHANGED <<input, typed, got>>
              /\ text' = [text EXCEPT !["ui"] = input.text] /\ input # NoInput
         \/ TypeText /\ UNCHANGED <<text, got>> /\ typed' = typed + 1
              /\ input' = [text |-> typed + 1, meant |-> {Selected}]
         \/ (Escape \/ ClearInput) /\ UNCHANGED <<text, typed, got>> /\ input' = NoInput
         \/ /\ \E p \in Peers : Receive(p) /\ who' = [who EXCEPT !["rx"] = p]
            /\ UNCHANGED <<input, typed>>
            /\ got' = got + 1 /\ text' = [text EXCEPT !["rx"] = got + 1]
         \/ \E t \in Threads :
              /\ SearchUser(t) \/ SelectLast(t)
              /\ UNCHANGED <<text, typed, got>>
              /\ \/ input' = input
                 \/ /\ t = "rx" /\ input # NoInput /\ todo["ui"] = <<>>
                    /\ input' = [input EXCEPT !.meant = @ \cup {Selected'}]
         \/ \E t \in Threads :
              /\ Closes(t) /\ Ends(t) /\ text' = [text EXCEPT ![t] = NoText]
              /\ UNCHANGED <<typed, got>>
              /\ IF t = "ui" THEN input' = NoInput ELSE input' = input
<1>1. Start \/ ServerCloses \/ ArraylistInit => UNCHANGED <<text, input, typed, got>>
  BY DEF Start, ServerCloses, ArraylistInit, uiVars, localVars, worldVars
<1>2. Insert \/ Slash \/ Overwritten \/ Decrypt => UNCHANGED <<text, input, typed, got>>
  BY DEF Insert, Slash, Overwritten, Decrypt, uiVars, localVars, worldVars
<1>3. Lower \/ Higher \/ Moved => UNCHANGED <<text, input, typed, got>>
  BY DEF Lower, Higher, Move, Moved, uiVars, localVars, worldVars
<1>4. (SqliteInit \/ Send \/ Quit \/ ReceiveEnd) /\ ~Stops =>
        UNCHANGED <<text, input, typed, got>>
  BY DEF SqliteInit, Send, Quit, ReceiveEnd, Deinit, uiVars, localVars, worldVars
<1>5. GetUsers \/ UpdateNickname \/ ClearMessages => UNCHANGED <<text, input, typed, got>>
  BY DEF GetUsers, UpdateNickname, ClearMessages, Statement, Runs, worldVars
<1>6. \A name, steps : Command(name, steps) => UNCHANGED <<text, input, typed, got>>
  BY DEF Command
<1>7. \A name : Chat(name) \/ Nick(name) \/ Clear \/ Help => UNCHANGED <<text, input, typed, got>>
  BY <1>6, Zenon DEF Chat, Nick, Clear, Help
<1>8. \A t \in Threads : GetKey(t) \/ SaveKey(t) \/ SaveMessage(t) \/ StoreUser(t)
                         \/ CountUser(t) =>
        UNCHANGED <<text, input, typed, got>>
  BY DEF GetKey, SaveKey, SaveMessage, StoreUser, CountUser, UseList, Statement, Runs, worldVars,
         localVars
<1>9. Enter => /\ UNCHANGED <<input, typed, got>> /\ input # NoInput
               /\ text' = [text EXCEPT !["ui"] = input.text]
  BY DEF Enter, worldVars
<1>10. TypeText => /\ UNCHANGED <<text, got>> /\ typed' = typed + 1
                   /\ input' = [text |-> typed + 1, meant |-> {Selected}]
  BY DEF TypeText, localVars
<1>11. Escape \/ ClearInput => UNCHANGED <<text, typed, got>> /\ input' = NoInput
  BY DEF Escape, ClearInput, localVars, worldVars
<1>12. \A p \in Peers : Receive(p) =>
         /\ who' = [who EXCEPT !["rx"] = p] /\ UNCHANGED <<input, typed>>
         /\ got' = got + 1 /\ text' = [text EXCEPT !["rx"] = got + 1]
  BY DEF Receive, uiVars
<1>13. \A t \in Threads : SearchUser(t) \/ SelectLast(t) =>
         /\ UNCHANGED <<text, typed, got>>
         /\ \/ input' = input
            \/ /\ t = "rx" /\ input # NoInput /\ todo["ui"] = <<>>
               /\ input' = [input EXCEPT !.meant = @ \cup {Selected'}]
  BY DEF SearchUser, SelectLast, UseList, Select, localVars, worldVars
<1>14. \A t \in Threads : Closes(t) =>
         /\ UNCHANGED <<typed, got>>
         /\ \/ UNCHANGED <<text, input>>
            \/ /\ Ends(t) /\ text' = [text EXCEPT ![t] = NoText]
               /\ IF t = "ui" THEN input' = NoInput ELSE input' = input
  BY DEF Closes, GetMessages, EndsEarly, Ends, Runs, localVars, worldVars
<1> QED BY <1>1, <1>2, <1>3, <1>4, <1>5, <1>7, <1>8, <1>9, <1>10, <1>11, <1>12, <1>13, <1>14, Steps
        DEF Quiet, OnList

\* What changes the database.
LEMMA MessagesStep ==
  ASSUME Next, ~Stops
  PROVE  /\ \/ msgs' = msgs \/ (ClearMessages /\ msgs' = {})
            \/ \E t \in Threads : SaveMessage(t) /\ msgs' = msgs \cup {Saving(t)}
         /\ rows' = rows \/ UpdateNickname \/ \E t \in Threads : SaveKey(t)
<1> DEFINE Same == UNCHANGED <<rows, msgs>>
<1>1. Quiet => Same
  BY QuietLists DEF dbVars
<1>2. GetUsers \/ Moved => Same
  BY DEF GetUsers, Moved, dbVars
<1>3. UpdateNickname => msgs' = msgs
  BY DEF UpdateNickname
<1>4. ClearMessages => rows' = rows /\ msgs' \in {msgs, {}}
  BY DEF ClearMessages, Statement, Runs
<1>5. \A name, steps : Command(name, steps) => Same
  BY DEF Command, dbVars
<1>6. \A name : Chat(name) \/ Nick(name) \/ Clear \/ Help => Same
  BY <1>5, Zenon DEF Chat, Nick, Clear, Help
<1>7. \A p \in Peers : Receive(p) => Same
  BY DEF Receive, dbVars
<1>8. \A t \in Threads : GetKey(t) \/ OnList(t) \/ Closes(t) => Same
  BY DEF GetKey, OnList, SearchUser, StoreUser, CountUser, SelectLast, UseList, Closes,
         GetMessages, EndsEarly, dbVars
<1>9. \A t \in Threads : SaveMessage(t) => rows' = rows /\ msgs' \in {msgs, msgs \cup {Saving(t)}}
  BY DEF SaveMessage, Statement, Runs
<1>10. \A t \in Threads : SaveKey(t) => msgs' = msgs
  BY DEF SaveKey
<1> QED BY <1>1, <1>2, <1>3, <1>4, <1>6, <1>7, <1>8, <1>9, <1>10, Steps

\* What Overwritten makes of the input.
LEMMA MeantMore ==
  ASSUME NEW x, x = [text |-> x.text, meant |-> x.meant], NEW u
  PROVE  [x EXCEPT !.meant = @ \cup u] = [text |-> x.text, meant |-> x.meant \cup u]
OBVIOUS

\* The commands.
Commanded ==
  \/ Clear \/ Help
  \/ (\E name \in Peers \cup Nicks : Chat(name)) \/ \E name \in Peers : Nick(name)

\* Whose name a thread has at hand: a command's, or a message's.
LEMMA WhoStep ==
  ASSUME Next, ~Stops
  PROVE  \/ who' = who
         \/ Commanded /\ \E name : who' = [who EXCEPT !["ui"] = name]
         \/ \E p \in Peers : Receive(p) /\ who' = [who EXCEPT !["rx"] = p]
         \/ \E t \in Threads : Closes(t) /\ Ends(t) /\ who' = [who EXCEPT ![t] = Garbage]
<1>1. Quiet => who' = who
  BY QuietLists
<1>2. GetUsers \/ Moved \/ UpdateNickname \/ ClearMessages => who' = who
  BY DEF GetUsers, Moved, UpdateNickname, ClearMessages, Statement, localVars
<1>3. \A name, steps : Command(name, steps) => who' = [who EXCEPT !["ui"] = name]
  BY DEF Command
<1>4. \A name : Chat(name) \/ Nick(name) \/ Clear \/ Help =>
        \E n : who' = [who EXCEPT !["ui"] = n]
  BY <1>3, Zenon DEF Chat, Nick, Clear, Help
<1>5. \A p \in Peers : Receive(p) => who' = [who EXCEPT !["rx"] = p]
  BY DEF Receive
<1>6. \A t \in Threads : GetKey(t) \/ SaveKey(t) \/ SaveMessage(t) \/ OnList(t) => who' = who
  BY DEF GetKey, SaveKey, SaveMessage, OnList, SearchUser, StoreUser, CountUser, SelectLast,
         UseList, Statement, localVars
<1>7. \A t \in Threads : Closes(t) =>
        who' = who \/ (Ends(t) /\ who' = [who EXCEPT ![t] = Garbage])
  BY DEF Closes, GetMessages, EndsEarly, Ends, localVars
<1> QED BY <1>1, <1>2, <1>4, <1>5, <1>6, <1>7, Steps DEF Commanded

\* The texts keep their types.
LEMMA TextTypesStep ==
  ASSUME Base, Next, ~Stops
  PROVE  TextTypes'
<1>a. ListTypes /\ StateTypes /\ TextTypes /\ TodoTypes
  BY DEF Base, StateTypes, TodoTypes
<1>b. /\ text \in [Threads -> Text] /\ typed \in Nat /\ got \in Nat
      /\ input = [text |-> input.text, meant |-> input.meant]
      /\ input = NoInput \/ input.text \in Nat
      /\ todo["rx"] \in Receiving => who["rx"] \in Peers /\ text["rx"] \in 1..got
      /\ todo["ui"] \in Typing => text["ui"] \in Nat
  BY <1>a DEF TextTypes
<1>1. msgs' \subseteq [author : Peers \cup {Me}, to : Names \cup {Me}, text : Nat]
  <2>1. ASSUME SaveMessage("ui") PROVE text["ui"] \in Nat
    BY <1>a, <1>b, <2>1, UiActions, UiKindOf DEF Goto
  <2>2. ASSUME SaveMessage("rx") PROVE who["rx"] \in Peers /\ text["rx"] \in Nat
    BY <1>a, <1>b, <2>2, RxActions, Places DEF Goto
  <2>3. Recipient \in Names
    BY <1>a, NameTyped DEF Recipient, Threads
  <2>4. \A t \in Threads :
          SaveMessage(t) =>
            Saving(t) \in [author : Peers \cup {Me}, to : Names \cup {Me}, text : Nat]
    BY <2>1, <2>2, <2>3 DEF Saving, Message, Threads
  <2> QED BY <1>a, <2>4, MessagesStep DEF TextTypes
<1>2. /\ text' \in [Threads -> Text] /\ typed' \in Nat /\ got' \in Nat /\ got' >= got
      /\ input' = [text |-> input'.text, meant |-> input'.meant]
      /\ input' = NoInput \/ input'.text \in Nat
  <2>1. \A t \in Threads : [text EXCEPT ![t] = NoText] \in [Threads -> Text]
    BY <1>b DEF Text
  <2>2. input # NoInput => [text EXCEPT !["ui"] = input.text] \in [Threads -> Text]
    BY <1>b DEF Text
  <2>3. [text EXCEPT !["rx"] = got + 1] \in [Threads -> Text]
    <3>1. got + 1 \in Text
      BY <1>b DEF Text
    <3> QED BY <1>b, <3>1
  <2>4. \A u : [input EXCEPT !.meant = @ \cup u] =
                 [text |-> input.text, meant |-> input.meant \cup u]
    BY <1>b, MeantMore
  <2>5. text' \in [Threads -> Text]
    BY <1>b, <2>1, <2>2, <2>3, TextStep
  <2>6. typed' \in Nat /\ got' \in Nat /\ got' >= got
    BY <1>b, TextStep
  <2>7. /\ input' = [text |-> input'.text, meant |-> input'.meant]
        /\ input' = NoInput \/ input'.text \in Nat
    <3>1. \/ input' = input \/ input' = NoInput
          \/ input' = [text |-> typed + 1, meant |-> {Selected}]
          \/ /\ input # NoInput
             /\ input' = [text |-> input.text, meant |-> input.meant \cup {Selected'}]
      BY <2>4, TextStep
    <3>2. CASE input' = input \/ input' = NoInput
      BY <1>b, <3>2 DEF NoInput
    <3>3. CASE input' = [text |-> typed + 1, meant |-> {Selected}]
      BY <1>b, <3>3
    <3>4. CASE /\ input # NoInput
               /\ input' = [text |-> input.text, meant |-> input.meant \cup {Selected'}]
      BY <1>b, <3>4
    <3> QED BY <3>1, <3>2, <3>3, <3>4
  <2> QED BY <2>5, <2>6, <2>7
<1>3. ASSUME todo'["rx"] \in Receiving
      PROVE  who'["rx"] \in Peers /\ text'["rx"] \in 1..got'
  <2>1. CASE \E p \in Peers : Receive(p)
    <3>1. PICK p \in Peers : Receive(p)
      BY <2>1
    <3>2. /\ who' = [who EXCEPT !["rx"] = p]
          /\ got' = got + 1 /\ text' = [text EXCEPT !["rx"] = got + 1]
      BY <3>1 DEF Receive
    <3> QED BY <1>a, <1>b, <3>2 DEF ListTypes, Threads
  <2>2. CASE todo["rx"] \in Receiving /\ ~ \E p \in Peers : Receive(p)
    <3>1. text'["rx"] = text["rx"]
      <4>1. ~(Closes("rx") /\ Ends("rx"))
        BY <1>a, <1>3, RxPlaces DEF Ends, TodoTypes, Threads
      <4> QED BY <1>b, <2>2, <4>1, TextStep DEF Threads
    <3>2. who'["rx"] = who["rx"]
      <4>1. ~(Closes("rx") /\ Ends("rx"))
        BY <1>a, <1>3, RxPlaces DEF Ends, TodoTypes, Threads
      <4> QED BY <1>a, <2>2, <4>1, WhoStep DEF ListTypes, Threads
    <3> QED BY <1>b, <1>2, <2>2, <3>1, <3>2
  <2> QED BY <1>a, <1>3, <2>1, <2>2, TypingStep
<1>4. ASSUME todo'["ui"] \in Typing
      PROVE  text'["ui"] \in Nat
  <2>1. CASE Enter
    <3>1. text' = [text EXCEPT !["ui"] = input.text] /\ input # NoInput
      BY <2>1 DEF Enter
    <3> QED BY <1>b, <3>1 DEF Threads
  <2>2. CASE todo["ui"] \in Typing /\ ~Enter
    <3>1. ~(Closes("ui") /\ Ends("ui"))
      BY <1>a, <1>4, UiKinds DEF Ends, TodoTypes, Threads
    <3>2. text'["ui"] = text["ui"]
      BY <1>b, <2>2, <3>1, TextStep DEF Threads
    <3> QED BY <1>b, <2>2, <3>2
  <2> QED BY <1>a, <1>4, <2>1, <2>2, TypingStep
<1> QED BY <1>1, <1>2, <1>3, <1>4, KeysTyped DEF TextTypes

\* While the rows are to be loaded, Fits leaves room for them.
LEMMA LoadingAt ==
  ASSUME todo["ui"] \in Beginning
  PROVE  Loading
<1>1. ASSUME todo["ui"] = InitUi PROVE Loading
  <2>1. 3 \in 1..Len(todo["ui"]) /\ todo["ui"][3] = "get_users"
    BY <1>1 DEF InitUi
  <2> QED BY <2>1 DEF Loading
<1>2. ASSUME todo["ui"] = <<"sqlite_init", "get_users", "get_messages">> PROVE Loading
  <2>1. 2 \in 1..Len(todo["ui"]) /\ todo["ui"][2] = "get_users"
    BY <1>2
  <2> QED BY <2>1 DEF Loading
<1>3. ASSUME todo["ui"] = <<"get_users", "get_messages">> PROVE Loading
  <2>1. 1 \in 1..Len(todo["ui"]) /\ todo["ui"][1] = "get_users"
    BY <1>3
  <2> QED BY <2>1 DEF Loading
<1> QED BY ONLY <1>1, <1>2, <1>3, todo["ui"] \in Beginning, Zenon DEF Beginning

\* Where a command or a message begins there is room for two users.
LEMMA FitsRoom ==
  ASSUME ListTypes, Fits
  PROVE  length + 2 <= MaxUsers
<1>1. Len(rows) \in Nat /\ length \in Nat /\ MaxUsers \in Nat
  BY ZenAssumption DEF ListTypes
<1>2. CASE Loading
  <2>1. length + 2 + (Len(rows) + 1) <= MaxUsers
    BY <1>2 DEF Fits
  <2> QED BY ONLY <1>1, <2>1
<1>3. CASE ~Loading
  <2>1. length + 2 + 0 <= MaxUsers
    BY <1>3 DEF Fits
  <2> QED BY ONLY <1>1, <2>1
<1> QED BY <1>2, <1>3

\* Steps that add nothing, and go where no more is to be added, leave the room there was.
LEMMA RoomKept ==
  ASSUME ListTypes, Room, length' = length, Len(rows') = Len(rows),
         UiAdds(todo'["ui"]) <= UiAdds(todo["ui"]), RxAdds(todo'["rx"]) <= RxAdds(todo["rx"]),
         RxSaves(todo'["rx"]) <= RxSaves(todo["rx"]),
         todo'["ui"] \in Beginning => todo["ui"] \in Beginning
  PROVE  Room'
<1>1. /\ \A l : UiAdds(l) \in Nat /\ RxAdds(l) \in Nat /\ RxSaves(l) \in Nat
  BY DEF UiAdds, RxAdds, RxSaves
<1>2. Len(rows) \in Nat /\ length \in Nat
  BY DEF ListTypes
<1>3. Loads(todo["ui"]) = IF todo["ui"] \in Beginning THEN Len(rows) + RxSaves(todo["rx"]) ELSE 0
  BY DEF Loads
<1>4. Loads(todo["ui"])' =
        IF todo'["ui"] \in Beginning THEN Len(rows) + RxSaves(todo'["rx"]) ELSE 0
  BY DEF Loads
<1>5. Loads(todo["ui"])' <= Loads(todo["ui"]) /\ Loads(todo["ui"]) \in Nat
      /\ Loads(todo["ui"])' \in Nat
  <2>1. RxSaves(todo["rx"]) \in Nat /\ RxSaves(todo'["rx"]) \in Nat
    BY <1>1
  <2> QED BY <1>2, <1>3, <1>4, <2>1
<1>6. /\ UiAdds(todo["ui"]) \in Nat /\ UiAdds(todo'["ui"]) \in Nat
      /\ RxAdds(todo["rx"]) \in Nat /\ RxAdds(todo'["rx"]) \in Nat
  BY <1>1
<1>7. length + UiAdds(todo["ui"]) + RxAdds(todo["rx"]) + Loads(todo["ui"]) <= MaxUsers
  BY DEF Room
<1>8. length + UiAdds(todo'["ui"]) + RxAdds(todo'["rx"]) + Loads(todo["ui"])' <= MaxUsers
  <2>1. PICK u, v \in Nat : u = UiAdds(todo["ui"]) /\ v = UiAdds(todo'["ui"])
    BY <1>6
  <2>2. PICK r, q \in Nat : r = RxAdds(todo["rx"]) /\ q = RxAdds(todo'["rx"])
    BY <1>6
  <2>3. PICK l, k \in Nat : l = Loads(todo["ui"]) /\ k = Loads(todo["ui"])'
    BY <1>5
  <2>4. v <= u /\ q <= r /\ k <= l /\ length + u + r + l <= MaxUsers /\ MaxUsers \in Nat
    BY <1>5, <1>7, <2>1, <2>2, <2>3, ZenAssumption
  <2>5. length + v + q + k <= MaxUsers
    BY ONLY <1>2, <2>4, u \in Nat, v \in Nat, r \in Nat, q \in Nat, l \in Nat, k \in Nat
  <2> QED BY ONLY <2>1, <2>2, <2>3, <2>5
<1> QED BY <1>8 DEF Room

\* No step takes more room than it has left itself.
LEMMA RoomStep ==
  ASSUME Base, Next, ~Stops
  PROVE  Room'
<1>a. ListTypes /\ StateTypes /\ TodoTypes /\ Room /\ MaxUsers \in Nat
  BY ZenAssumption DEF Base, StateTypes, TodoTypes
<1>b. /\ Len(rows) \in Nat /\ length \in Nat
      /\ \A l : UiAdds(l) \in {0, 1} /\ RxAdds(l) \in {0, 1} /\ RxSaves(l) \in {0, 1}
  BY <1>a DEF ListTypes, UiAdds, RxAdds, RxSaves
<1>c. (length' = length /\ rows' = rows) \/ GetUsers \/ UpdateNickname
        \/ \E t \in Threads : CountUser(t) \/ SaveKey(t)
  BY LengthStep, MessagesStep
<1>1. ASSUME NEW from, NEW to \in UiTodo, Goto("ui", from, to), length' = length,
             Len(rows') = Len(rows), UiAdds(to) <= UiAdds(from),
             to \in Beginning => from \in Beginning
      PROVE  Room'
  <2>1. todo'["ui"] = to /\ todo'["rx"] = todo["rx"] /\ todo["ui"] = from
    BY <1>1, <1>a, GotoUi DEF Goto
  <2>2. RxAdds(todo["rx"]) <= RxAdds(todo["rx"]) /\ RxSaves(todo["rx"]) <= RxSaves(todo["rx"])
    BY <1>b
  <2> QED BY <1>1, <1>a, <2>1, <2>2, RoomKept
<1>2. ASSUME NEW from, NEW to \in RxTodo, Goto("rx", from, to), length' = length,
             Len(rows') = Len(rows), RxAdds(to) <= RxAdds(from), RxSaves(to) <= RxSaves(from)
      PROVE  Room'
  <2>1. todo'["rx"] = to /\ todo'["ui"] = todo["ui"] /\ todo["rx"] = from
    BY <1>2, <1>a, GotoRx DEF Goto
  <2>2. UiAdds(todo["ui"]) <= UiAdds(todo["ui"])
    BY <1>b
  <2> QED BY <1>2, <1>a, <2>1, <2>2, RoomKept
<1>3. CASE UNCHANGED <<todo, length, rows>>
  BY <1>3, <1>a DEF Room, Loads
<1>4. CASE Start
  <2>1. length = 0 /\ todo["rx"] = <<>> /\ Len(rows) <= MaxUsers /\ UNCHANGED <<rows, length>>
    BY <1>4, <1>a DEF Start, StateTypes, Each, Threads, dbVars, listVars
  <2>2. todo'["ui"] = InitUi /\ todo'["rx"] = <<>>
    BY <1>4, <1>a, <2>1, UiActions, GotoUi, Places
  <2>3. UiAdds(InitUi) = 0 /\ RxAdds(<<>>) = 0 /\ RxSaves(<<>>) = 0
    BY UiRoom, RxRoom, UiKindOf
  <2> QED BY <1>a, <1>b, <2>1, <2>2, <2>3 DEF Room, Loads
<1>5. CASE GetUsers
  <2>1. Goto("ui", <<"get_users", "get_messages">>, <<"get_messages">>)
    BY <1>5, <1>a, UiActions
  <2>2. /\ todo["ui"] \in Beginning /\ todo'["ui"] = <<"get_messages">>
        /\ todo'["rx"] = todo["rx"]
    BY <1>a, <2>1, GotoUi, Places, UiKindOf DEF Goto
  <2>3. length' \in {length, length + Len(rows)}
    BY <1>5 DEF GetUsers, Statement, Runs
  <2>4. /\ UiAdds(<<"get_messages">>) = 0 /\ <<"get_messages">> \notin Beginning
        /\ UiAdds(todo["ui"]) = 0
    BY <2>2, UiRoom, UiKindOf
  <2>5. Loads(todo["ui"])' = 0 /\ Loads(todo["ui"]) = Len(rows) + RxSaves(todo["rx"])
    BY <2>2, <2>4 DEF Loads
  <2>6. RxAdds(todo["rx"]) \in {0, 1} /\ RxSaves(todo["rx"]) \in {0, 1}
    BY <1>b
  <2>7. length + 0 + RxAdds(todo["rx"]) + (Len(rows) + RxSaves(todo["rx"])) <= MaxUsers
    BY <1>a, <2>4, <2>5 DEF Room
  <2>8. length' + 0 + RxAdds(todo["rx"]) + 0 <= MaxUsers
    BY ONLY <1>a, <1>b, <2>3, <2>6, <2>7
  <2> QED BY <2>2, <2>4, <2>5, <2>8 DEF Room
<1>6. CASE CountUser("ui")
  <2>1. Goto("ui", ChatCount, ChatLast) /\ length' = length + 1 /\ rows' = rows
    BY <1>6, <1>a, UiActions DEF CountUser, UseList, dbVars
  <2>2. todo["ui"] = ChatCount /\ todo'["ui"] = ChatLast /\ todo'["rx"] = todo["rx"]
    BY <1>a, <2>1, GotoUi, Places DEF Goto
  <2>3. /\ UiAdds(ChatCount) = 1 /\ UiAdds(ChatLast) = 0
        /\ ChatCount \notin Beginning /\ ChatLast \notin Beginning
    BY UiRoom
  <2> QED BY <1>a, <1>b, <2>1, <2>2, <2>3 DEF Room, Loads
<1>7. CASE CountUser("rx")
  <2>1. Goto("rx", RxCount, RxLast) /\ length' = length + 1 /\ rows' = rows
    BY <1>7, <1>a, RxActions DEF CountUser, UseList, dbVars
  <2>2. todo["rx"] = RxCount /\ todo'["rx"] = RxLast /\ todo'["ui"] = todo["ui"]
    BY <1>a, <2>1, GotoRx, Places DEF Goto
  <2>3. RxAdds(RxCount) = 1 /\ RxAdds(RxLast) = 0 /\ RxSaves(RxCount) = 0 /\ RxSaves(RxLast) = 0
    BY RxRoom
  <2>4. Loads(todo["ui"])' = Loads(todo["ui"]) /\ Loads(todo["ui"]) \in Nat
    BY <1>b, <2>1, <2>2, <2>3 DEF Loads
  <2>5. length + UiAdds(todo["ui"]) + 1 + Loads(todo["ui"]) <= MaxUsers
    BY <1>a, <2>2, <2>3 DEF Room
  <2>6. UiAdds(todo["ui"]) \in {0, 1}
    BY <1>b
  <2>7. (length + 1) + UiAdds(todo["ui"]) + 0 + Loads(todo["ui"]) <= MaxUsers
    BY ONLY <1>a, <1>b, <2>4, <2>5, <2>6
  <2> QED BY <2>1, <2>2, <2>3, <2>4, <2>7 DEF Room
<1>8. CASE SaveKey("ui")
  <2>1. length' = length
    BY <1>8 DEF SaveKey, listVars
  <2>2. \/ Goto("ui", EnterSave, EnterSend) \/ Goto("ui", ChatSave, ChatSearch)
    BY <1>8, <1>a, UiActions
  <2>3. /\ UiAdds(EnterSave) = 0 /\ UiAdds(EnterSend) = 0 /\ UiAdds(ChatSave) = 1
        /\ UiAdds(ChatSearch) = 1
        /\ \A l \in {EnterSave, EnterSend, ChatSave, ChatSearch} : l \notin Beginning
    BY UiRoom, UiKindOf
  <2>4. /\ todo'["rx"] = todo["rx"] /\ UiAdds(todo'["ui"]) = UiAdds(todo["ui"])
        /\ todo["ui"] \notin Beginning /\ todo'["ui"] \notin Beginning
    BY <1>a, <2>2, <2>3, GotoUi, Places DEF Goto
  <2> QED BY <1>a, <2>1, <2>4 DEF Room, Loads
<1>9. CASE SaveKey("rx")
  <2>1. length' = length
    BY <1>9 DEF SaveKey, listVars
  <2>2. Goto("rx", RxSave, RxDecrypt)
    BY <1>9, <1>a, RxActions
  <2>3. todo["rx"] = RxSave /\ todo'["rx"] = RxDecrypt /\ todo'["ui"] = todo["ui"]
    BY <1>a, <2>2, GotoRx, Places DEF Goto
  <2>4. RxAdds(RxSave) = 1 /\ RxAdds(RxDecrypt) = 1 /\ RxSaves(RxSave) = 1 /\ RxSaves(RxDecrypt) = 0
    BY RxRoom
  <2>5. Len(rows') \in Nat /\ Len(rows') <= Len(rows) + 1
    <3>1. /\ Name("rx") \in Names /\ key["rx"] \in KeyType
      BY <1>a, NameTyped DEF Base, TextTypes, Threads
    <3>2. PICK row \in Row : rows' = rows \/ rows' = Replaced(row)
      BY <1>9, <3>1, NewRowTyped DEF SaveKey, Statement, Runs
    <3>3. Len(Replaced(row)) \in Nat /\ Len(Replaced(row)) <= Len(rows) + 1
      <4>1. PICK R : R = Replaced(row)
        OBVIOUS
      <4>2. R \in Seq(Row) /\ Len(R) <= Len(rows) + 1
        BY <1>a, <4>1, ReplacedTyped DEF ListTypes
      <4>3. Len(R) \in Nat
        BY <4>2
      <4> QED BY <4>1, <4>2, <4>3
    <3> QED BY <1>b, <3>2, <3>3
  <2>6. CASE todo["ui"] \in Beginning
    BY <1>a, <1>b, <2>1, <2>3, <2>4, <2>5, <2>6, UiRoom DEF Room, Loads
  <2>7. CASE todo["ui"] \notin Beginning
    BY <1>a, <1>b, <2>1, <2>3, <2>4, <2>7 DEF Room, Loads
  <2> QED BY <2>6, <2>7
<1>10. CASE UpdateNickname
  <2>1. length' = length
    BY <1>10 DEF UpdateNickname, listVars
  <2>2. Len(rows') = Len(rows)
    BY <1>10, <1>b DEF UpdateNickname, Statement, Runs
  <2>3. Goto("ui", <<"update_nickname", "get_messages", "reset">>, Ending)
    BY <1>10, <1>a, UiActions
  <2>4. /\ UiAdds(<<"update_nickname", "get_messages", "reset">>) = 0 /\ UiAdds(Ending) = 0
        /\ Ending \notin Beginning
    BY UiRoom, UiKindOf
  <2> QED BY <1>1, <2>1, <2>2, <2>3, <2>4, Places
<1>d. /\ UiAdds(InitUi) = 0 /\ UiAdds(<<"sqlite_init", "get_users", "get_messages">>) = 0
      /\ UiAdds(<<"get_users", "get_messages">>) = 0 /\ UiAdds(<<"get_messages">>) = 0
      /\ UiAdds(<<"down", "get_messages">>) = 0 /\ UiAdds(<<"up", "get_messages">>) = 0
      /\ UiAdds(<<"update_nickname", "get_messages", "reset">>) = 0
      /\ UiAdds(<<"clear_messages", "get_messages", "reset">>) = 0 /\ UiAdds(<<"reset">>) = 0
      /\ UiAdds(<<"exit">>) = 0 /\ UiAdds(<<>>) = 0 /\ UiAdds(Ending) = 0
      /\ UiAdds(EnterText) = 0 /\ UiAdds(EnterSave) = 0 /\ UiAdds(EnterSend) = 0
      /\ UiAdds(EnterStore) = 0 /\ UiAdds(ChatKey) = 1 /\ UiAdds(ChatSave) = 1
      /\ UiAdds(ChatSearch) = 1 /\ UiAdds(ChatStore) = 1 /\ UiAdds(ChatCount) = 1
      /\ UiAdds(ChatLast) = 0
  BY UiRoom, UiKindOf
<1>e. /\ {<<"get_messages">>, <<"down", "get_messages">>, <<"up", "get_messages">>, <<>>,
          <<"update_nickname", "get_messages", "reset">>, <<"exit">>, <<"reset">>,
          <<"clear_messages", "get_messages", "reset">>, Ending} \cap Beginning = {}
      /\ {EnterText, EnterSave, EnterSend, EnterStore} \cap Beginning = {}
      /\ {ChatKey, ChatSave, ChatSearch, ChatStore, ChatCount, ChatLast} \cap Beginning = {}
      /\ InitUi \in Beginning /\ <<"sqlite_init", "get_users", "get_messages">> \in Beginning
      /\ <<"get_users", "get_messages">> \in Beginning
  BY UiRoom, UiKindOf
<1>f. /\ RxAdds(RxKey) = 1 /\ RxAdds(RxSave) = 1 /\ RxAdds(RxDecrypt) = 1 /\ RxAdds(RxKeep) = 1
      /\ RxAdds(RxSearch) = 1 /\ RxAdds(RxStore) = 1 /\ RxAdds(RxCount) = 1
      /\ RxAdds(RxLast) = 0 /\ RxAdds(RxShow) = 0 /\ RxAdds(<<>>) = 0 /\ RxAdds(<<"unlock">>) = 0
      /\ RxAdds(<<"exited">>) = 0
      /\ RxSaves(RxKey) = 1 /\ RxSaves(RxSave) = 1 /\ RxSaves(RxDecrypt) = 0
      /\ RxSaves(RxKeep) = 0 /\ RxSaves(RxSearch) = 0 /\ RxSaves(RxStore) = 0
      /\ RxSaves(RxCount) = 0 /\ RxSaves(RxLast) = 0 /\ RxSaves(RxShow) = 0
      /\ RxSaves(<<>>) = 0 /\ RxSaves(<<"unlock">>) = 0 /\ RxSaves(<<"exited">>) = 0
  BY RxRoom
<1>11. CASE ArraylistInit \/ SqliteInit \/ Lower \/ Higher \/ Moved \/ Enter \/ Send
  <2>1. length' = length /\ Len(rows') = Len(rows)
    <3>1. ArraylistInit \/ SqliteInit \/ Lower \/ Higher \/ Enter \/ Send => Quiet
      BY DEF Quiet
    <3>2. Moved => UNCHANGED <<length, rows>>
      BY DEF Moved, dbVars
    <3> QED BY <1>11, <3>1, <3>2, QuietLists DEF dbVars, listVars
  <2>2. \E from, to : /\ Goto("ui", from, to) /\ to \in UiTodo /\ UiAdds(to) <= UiAdds(from)
                      /\ (to \in Beginning => from \in Beginning)
    BY <1>11, <1>a, <1>d, <1>e, UiActions, Places
  <2> QED BY <1>1, <2>1, <2>2
<1>12. CASE Clear \/ Help \/ Quit \/ ClearMessages \/ \E name \in Peers : Nick(name)
  <2>1. length' = length /\ Len(rows') = Len(rows)
    <3>1. Quit => Quiet
      BY DEF Quiet
    <3>2. \A name, steps : Command(name, steps) => UNCHANGED <<length, rows>>
      BY DEF Command, dbVars, listVars
    <3>3. ClearMessages => UNCHANGED <<length, rows>>
      BY DEF ClearMessages, listVars
    <3> QED BY <1>12, <3>1, <3>2, <3>3, QuietLists DEF dbVars, listVars, Clear, Help, Nick
  <2>2. \E from, to : /\ Goto("ui", from, to) /\ to \in UiTodo /\ UiAdds(to) <= UiAdds(from)
                      /\ (to \in Beginning => from \in Beginning)
    BY <1>12, <1>a, <1>d, <1>e, UiActions, Places
  <2> QED BY <1>1, <2>1, <2>2
<1>13. CASE \/ GetKey("ui") \/ SaveMessage("ui") \/ SearchUser("ui") \/ StoreUser("ui")
            \/ SelectLast("ui") \/ Closes("ui")
  <2>1. length' = length /\ Len(rows') = Len(rows)
    BY <1>13 DEF GetKey, SaveMessage, SearchUser, StoreUser, SelectLast, UseList, Closes,
                 GetMessages, EndsEarly, dbVars, listVars
  <2>2. \E from, to : /\ Goto("ui", from, to) /\ to \in UiTodo /\ UiAdds(to) <= UiAdds(from)
                      /\ (to \in Beginning => from \in Beginning)
    BY <1>13, <1>a, <1>d, <1>e, UiActions, Places DEF Closes
  <2> QED BY <1>1, <2>1, <2>2
<1>14. CASE \/ GetKey("rx") \/ SaveMessage("rx") \/ SearchUser("rx") \/ StoreUser("rx")
            \/ SelectLast("rx") \/ Closes("rx") \/ Decrypt \/ ReceiveEnd
  <2>1. length' = length /\ Len(rows') = Len(rows)
    <3>1. Decrypt \/ ReceiveEnd => Quiet
      BY DEF Quiet
    <3> QED BY <1>14, <3>1, QuietLists
            DEF GetKey, SaveMessage, SearchUser, StoreUser, SelectLast, UseList, Closes,
                GetMessages, EndsEarly, dbVars, listVars
  <2>2. \E from, to : /\ Goto("rx", from, to) /\ to \in RxTodo /\ RxAdds(to) <= RxAdds(from)
                      /\ RxSaves(to) <= RxSaves(from)
    BY <1>14, <1>a, <1>f, RxActions, Places DEF Closes
  <2> QED BY <1>2, <2>1, <2>2
<1>15. CASE \E name \in Peers \cup Nicks : Chat(name)
  <2>1. Goto("ui", <<>>, ChatKey) /\ Fits /\ UNCHANGED <<length, rows>>
    BY <1>15, <1>a, UiActions DEF Chat, Command, dbVars, listVars
  <2>2. todo'["ui"] = ChatKey /\ todo'["rx"] = todo["rx"]
    BY <1>a, <2>1, GotoUi, Places
  <2>3. length + 2 <= MaxUsers
    BY <1>a, <2>1, FitsRoom
  <2>4. RxAdds(todo["rx"]) \in {0, 1}
    BY <1>b
  <2>5. Loads(todo["ui"])' = 0
    BY <1>e, <2>2 DEF Loads
  <2> QED BY <1>a, <1>b, <1>d, <2>1, <2>2, <2>3, <2>4, <2>5 DEF Room
<1>16. CASE \E p \in Peers : Receive(p)
  <2>1. Goto("rx", <<>>, RxKey) /\ Fits /\ UNCHANGED <<length, rows>>
    BY <1>16, <1>a, RxActions DEF Receive, dbVars, listVars
  <2>2. todo'["rx"] = RxKey /\ todo'["ui"] = todo["ui"]
    BY <1>a, <2>1, GotoRx, Places
  <2>3. UiAdds(todo["ui"]) \in {0, 1}
    BY <1>b
  <2>4. CASE todo["ui"] \in Beginning
    <3>1. length + 2 + (Len(rows) + 1) <= MaxUsers
      BY <2>1, <2>4, LoadingAt DEF Fits
    <3>2. Loads(todo["ui"])' = Len(rows) + 1
      BY <1>f, <2>1, <2>2, <2>4 DEF Loads
    <3> QED BY <1>a, <1>b, <1>f, <2>1, <2>2, <2>3, <3>1, <3>2 DEF Room
  <2>5. CASE todo["ui"] \notin Beginning
    <3>1. length + 2 <= MaxUsers
      BY <1>a, <2>1, FitsRoom
    <3>2. Loads(todo["ui"])' = 0
      BY <2>2, <2>5 DEF Loads
    <3> QED BY <1>a, <1>b, <1>f, <2>1, <2>2, <2>3, <3>1, <3>2 DEF Room
  <2> QED BY <2>4, <2>5
<1>17. CASE ServerCloses \/ Insert \/ Slash \/ Escape \/ TypeText \/ ClearInput \/ Overwritten
  <2>1. UNCHANGED <<todo, length, rows>>
    BY <1>17 DEF ServerCloses, Insert, Slash, Escape, TypeText, ClearInput, Overwritten, dbVars,
                 listVars
  <2> QED BY <1>3, <2>1
<1> QED BY <1>4, <1>5, <1>6, <1>7, <1>8, <1>9, <1>10, <1>11, <1>12, <1>13, <1>14, <1>15, <1>16,
           <1>17, Steps DEF Quiet, OnList, Threads

\* Types, places and room go on.
LEMMA BaseStep ==
  ASSUME Base, [Next]_vars
  PROVE  Base'
<1>1. CASE UNCHANGED vars
  BY <1>1 DEF vars, Base, ListTypes, StateTypes, TextTypes, Room, Loads, dbVars, listVars, uiVars,
              localVars, worldVars
<1>2. CASE Next /\ ~Stops
  BY <1>2, ListTypesStep, StateTypesStep, TextTypesStep, RoomStep DEF Base
<1> QED BY <1>1, <1>2, StopsBase

----------------------------------------------------------------------------
(* The list and the selection.                                              *)

\* What a key begins, or the process.
Begun ==
  \/ Start \/ Lower \/ Higher \/ Enter \/ Clear \/ Help \/ Quit
  \/ (\E name \in Peers \cup Nicks : Chat(name)) \/ \E name \in Peers : Nick(name)

\* Which action takes a thread from where it is.
LEMMA UiHeads ==
  ASSUME StateTypes, Next, ~Stops, todo'["ui"] # todo["ui"]
  PROVE  \/ todo["ui"] = <<>> /\ Begun
         \/ ArraylistInit /\ At("ui", "arraylist_init")
         \/ SqliteInit /\ At("ui", "sqlite_init")
         \/ GetUsers /\ At("ui", "get_users")
         \/ Moved /\ (At("ui", "down") \/ At("ui", "up"))
         \/ Send /\ At("ui", "send")
         \/ UpdateNickname /\ At("ui", "update_nickname")
         \/ ClearMessages /\ At("ui", "clear_messages")
         \/ GetKey("ui") /\ At("ui", "get_sendkey")
         \/ SaveKey("ui") /\ At("ui", "save_sendkey")
         \/ SaveMessage("ui") /\ At("ui", "save_message")
         \/ SearchUser("ui") /\ At("ui", "search")
         \/ StoreUser("ui") /\ At("ui", "store")
         \/ CountUser("ui") /\ At("ui", "count")
         \/ SelectLast("ui") /\ At("ui", "last")
         \/ GetMessages("ui") /\ At("ui", "get_messages")
         \/ EndsEarly("ui") /\ At("ui", "reset")
<1>a. TodoTypes
  BY DEF StateTypes, TodoTypes
<1>1. ASSUME NEW from, NEW to \in RxTodo, Goto("rx", from, to)
      PROVE  FALSE
  BY <1>1, <1>a, GotoRx
<1>2. ~(Decrypt \/ ReceiveEnd \/ (\E p \in Peers : Receive(p)))
  <2>1. SUFFICES ASSUME Decrypt \/ ReceiveEnd \/ (\E p \in Peers : Receive(p)) PROVE FALSE
    OBVIOUS
  <2>2. \E from, to : Goto("rx", from, to) /\ to \in RxTodo
    BY <2>1, RxActions, Places
  <2> QED BY <1>1, <2>2
<1>3. ~(GetKey("rx") \/ SaveKey("rx") \/ SaveMessage("rx") \/ OnList("rx") \/ Closes("rx"))
  <2>1. SUFFICES ASSUME GetKey("rx") \/ SaveKey("rx") \/ SaveMessage("rx") \/ OnList("rx")
                        \/ Closes("rx")
                 PROVE  FALSE
    OBVIOUS
  <2>2. \E from, to : Goto("rx", from, to) /\ to \in RxTodo
    BY <2>1, RxActions, Places DEF OnList, Closes
  <2> QED BY <1>1, <2>2
<1>4. ~(ServerCloses \/ Insert \/ Slash \/ Escape \/ TypeText \/ ClearInput \/ Overwritten)
  BY DEF ServerCloses, Insert, Slash, Escape, TypeText, ClearInput, Overwritten
<1>5. Start \/ Lower \/ Higher \/ Enter \/ Quit => todo["ui"] = <<>>
  BY DEF Start, Lower, Higher, Move, Enter, Quit, Begins, Pressed, Keys
<1>6. Clear \/ Help \/ (\E name \in Peers \cup Nicks : Chat(name))
      \/ (\E name \in Peers : Nick(name))
        => todo["ui"] = <<>>
  BY DEF Clear, Help, Chat, Nick, Command, Begins
<1>7. /\ ArraylistInit => At("ui", "arraylist_init")
      /\ SqliteInit => At("ui", "sqlite_init")
      /\ GetUsers => At("ui", "get_users")
      /\ Moved => At("ui", "down") \/ At("ui", "up")
      /\ Send => At("ui", "send")
      /\ UpdateNickname => At("ui", "update_nickname")
      /\ ClearMessages => At("ui", "clear_messages")
  BY DEF ArraylistInit, SqliteInit, GetUsers, Moved, Send, UpdateNickname, ClearMessages,
         Statement, Runs
<1>8. /\ GetKey("ui") => At("ui", "get_sendkey")
      /\ SaveKey("ui") => At("ui", "save_sendkey")
      /\ SaveMessage("ui") => At("ui", "save_message")
      /\ GetMessages("ui") => At("ui", "get_messages")
  BY DEF GetKey, SaveKey, SaveMessage, GetMessages, Statement, Runs
<1>9. /\ SearchUser("ui") => At("ui", "search")
      /\ StoreUser("ui") => At("ui", "store")
      /\ CountUser("ui") => At("ui", "count")
      /\ SelectLast("ui") => At("ui", "last")
      /\ EndsEarly("ui") => At("ui", "reset")
  <2>1. EndsEarly("ui") => At("ui", "reset") \/ At("ui", "unlock")
    BY DEF EndsEarly, EndSteps
  <2>2. ~At("ui", "unlock")
    BY UiProgram
  <2>3. /\ SearchUser("ui") => At("ui", "search")
        /\ StoreUser("ui") => At("ui", "store")
        /\ CountUser("ui") => At("ui", "count")
        /\ SelectLast("ui") => At("ui", "last")
    BY DEF SearchUser, StoreUser, CountUser, SelectLast, UseList
  <2> QED BY <2>1, <2>2, <2>3
<1> QED BY <1>2, <1>3, <1>4, <1>5, <1>6, <1>7, <1>8, <1>9, Steps
        DEF Quiet, OnList, Closes, Threads, Begun

\* The same, of the receive thread.
LEMMA RxHeads ==
  ASSUME StateTypes, Next, ~Stops, todo'["rx"] # todo["rx"]
  PROVE  \/ todo["rx"] = <<>> /\ (ReceiveEnd \/ \E p \in Peers : Receive(p))
         \/ Decrypt /\ At("rx", "decrypt")
         \/ GetKey("rx") /\ At("rx", "get_receivekey")
         \/ SaveKey("rx") /\ At("rx", "save_receivekey")
         \/ SaveMessage("rx") /\ At("rx", "save_message")
         \/ SearchUser("rx") /\ At("rx", "search")
         \/ StoreUser("rx") /\ At("rx", "store")
         \/ CountUser("rx") /\ At("rx", "count")
         \/ SelectLast("rx") /\ At("rx", "last")
         \/ GetMessages("rx") /\ At("rx", "get_messages")
         \/ EndsEarly("rx") /\ At("rx", "unlock")
<1>a. TodoTypes
  BY DEF StateTypes, TodoTypes
<1>1. ASSUME NEW from, NEW to \in UiTodo, Goto("ui", from, to)
      PROVE  FALSE
  BY <1>1, <1>a, GotoUi
<1>2. ~(Start \/ ArraylistInit \/ SqliteInit \/ GetUsers \/ Lower \/ Higher \/ Moved \/ Enter
        \/ Send)
  <2>1. SUFFICES ASSUME Start \/ ArraylistInit \/ SqliteInit \/ GetUsers \/ Lower \/ Higher \/ Moved
                          \/ Enter \/ Send
                 PROVE  FALSE
    OBVIOUS
  <2>2. \E from, to : Goto("ui", from, to) /\ to \in UiTodo
    BY <2>1, UiActions, Places
  <2> QED BY <1>1, <2>2
<1>3. ~(\/ UpdateNickname \/ ClearMessages \/ Clear \/ Help \/ Quit
        \/ (\E name \in Peers \cup Nicks : Chat(name)) \/ (\E name \in Peers : Nick(name)))
  <2>1. SUFFICES ASSUME \/ UpdateNickname \/ ClearMessages \/ Clear \/ Help \/ Quit
                        \/ (\E name \in Peers \cup Nicks : Chat(name))
                        \/ (\E name \in Peers : Nick(name))
                 PROVE  FALSE
    OBVIOUS
  <2>2. \E from, to : Goto("ui", from, to) /\ to \in UiTodo
    BY <2>1, UiActions, Places
  <2> QED BY <1>1, <2>2
<1>4. ~(GetKey("ui") \/ SaveKey("ui") \/ SaveMessage("ui") \/ OnList("ui") \/ Closes("ui"))
  <2>1. SUFFICES ASSUME GetKey("ui") \/ SaveKey("ui") \/ SaveMessage("ui") \/ OnList("ui")
                        \/ Closes("ui")
                 PROVE  FALSE
    OBVIOUS
  <2>2. \E from, to : Goto("ui", from, to) /\ to \in UiTodo
    BY <2>1, UiActions, Places DEF OnList, Closes
  <2> QED BY <1>1, <2>2
<1>5. ~(ServerCloses \/ Insert \/ Slash \/ Escape \/ TypeText \/ ClearInput \/ Overwritten)
  BY DEF ServerCloses, Insert, Slash, Escape, TypeText, ClearInput, Overwritten
<1>6. /\ ReceiveEnd => todo["rx"] = <<>>
      /\ \A p \in Peers : Receive(p) => todo["rx"] = <<>>
      /\ Decrypt => At("rx", "decrypt")
  BY DEF ReceiveEnd, Receive, Decrypt, Begins
<1>7. /\ GetKey("rx") => At("rx", "get_receivekey")
      /\ SaveKey("rx") => At("rx", "save_receivekey")
      /\ SaveMessage("rx") => At("rx", "save_message")
      /\ GetMessages("rx") => At("rx", "get_messages")
  BY DEF GetKey, SaveKey, SaveMessage, GetMessages, Statement, Runs
<1>8. /\ SearchUser("rx") => At("rx", "search")
      /\ StoreUser("rx") => At("rx", "store")
      /\ CountUser("rx") => At("rx", "count")
      /\ SelectLast("rx") => At("rx", "last")
      /\ EndsEarly("rx") => At("rx", "unlock")
  <2>1. EndsEarly("rx") => At("rx", "reset") \/ At("rx", "unlock")
    BY DEF EndsEarly, EndSteps
  <2>2. ~At("rx", "reset")
    BY RxProgram
  <2>3. /\ SearchUser("rx") => At("rx", "search")
        /\ StoreUser("rx") => At("rx", "store")
        /\ CountUser("rx") => At("rx", "count")
        /\ SelectLast("rx") => At("rx", "last")
    BY DEF SearchUser, StoreUser, CountUser, SelectLast, UseList
  <2> QED BY <2>1, <2>2, <2>3
<1> QED BY <1>2, <1>3, <1>4, <1>5, <1>6, <1>7, <1>8, Steps, Zenon
        DEF Quiet, OnList, Closes, Threads

\* What changes the array, and what the selection.
LEMMA ListStep ==
  ASSUME Next, ~Stops
  PROVE  /\ \/ items' = items
            \/ /\ GetUsers /\ length' = length + Len(rows)
               /\ items' = [i \in Slots |-> IF i \in length..length + Len(rows) - 1
                                            THEN rows[i - length + 1].nick ELSE items[i]]
            \/ \E t \in Threads : StoreUser(t) /\ items' = [items EXCEPT ![length] = who[t]]
         /\ \/ current_user' = current_user
            \/ Moved
            \/ \E t \in Threads : \/ SearchUser(t) /\ current_user' = Search(who[t])
                                  \/ SelectLast(t) /\ current_user' = length - 1
<1> DEFINE Same == items' = items /\ current_user' = current_user
<1>1. Quiet => Same
  BY QuietLists DEF listVars
<1>2. UpdateNickname \/ ClearMessages => Same
  BY DEF UpdateNickname, ClearMessages, Statement, Runs, listVars
<1>3. \A name, steps : Command(name, steps) => Same
  BY DEF Command, listVars
<1>4. \A name : Chat(name) \/ Nick(name) \/ Clear \/ Help => Same
  BY <1>3, Zenon DEF Chat, Nick, Clear, Help
<1>5. \A p \in Peers : Receive(p) => Same
  BY DEF Receive, listVars
<1>6. \A t \in Threads : GetKey(t) \/ SaveKey(t) \/ SaveMessage(t) \/ Closes(t) \/ CountUser(t)
                         => Same
  BY DEF GetKey, SaveKey, SaveMessage, Closes, GetMessages, EndsEarly, Statement, Runs, listVars,
         CountUser
<1>7. \A t \in Threads : /\ SearchUser(t) => items' = items /\ current_user' = Search(who[t])
                         /\ SelectLast(t) => items' = items /\ current_user' = length - 1
  BY DEF SearchUser, SelectLast, Select
<1>8. \A t \in Threads : StoreUser(t) =>
        items' = [items EXCEPT ![length] = who[t]] /\ current_user' = current_user
  BY DEF StoreUser
<1>9. Moved => items' = items
  BY DEF Moved
<1>10. GetUsers =>
         /\ current_user' = current_user
         /\ \/ items' = items
            \/ /\ length' = length + Len(rows)
               /\ items' = [i \in Slots |-> IF i \in length..length + Len(rows) - 1
                                            THEN rows[i - length + 1].nick ELSE items[i]]
  BY DEF GetUsers, Statement, Runs
<1> QED BY <1>1, <1>2, <1>4, <1>5, <1>6, <1>7, <1>8, <1>9, <1>10, Steps DEF OnList

\* A user being added is counted before the thread goes on, and selected then.
LEMMA CountsNext ==
  ASSUME StateTypes, Next, ~Stops
  PROVE  /\ todo["ui"] = ChatCount => todo'["ui"] = ChatCount \/ CountUser("ui")
         /\ todo["rx"] = RxCount => todo'["rx"] = RxCount \/ CountUser("rx")
         /\ todo["ui"] = ChatLast => todo'["ui"] = ChatLast \/ SelectLast("ui")
         /\ todo["rx"] = RxLast => todo'["rx"] = RxLast \/ SelectLast("rx")
<1>1. /\ ChatCount # <<>> /\ Head(ChatCount) = "count"
      /\ RxCount # <<>> /\ Head(RxCount) = "count"
      /\ ChatLast # <<>> /\ Head(ChatLast) = "last"
      /\ RxLast # <<>> /\ Head(RxLast) = "last"
  BY DEF ChatCount, RxCount, ChatLast, RxLast
<1>2. ASSUME todo["ui"] = ChatCount \/ todo["ui"] = ChatLast
      PROVE  /\ todo["ui"] = ChatCount => todo'["ui"] = ChatCount \/ CountUser("ui")
             /\ todo["ui"] = ChatLast => todo'["ui"] = ChatLast \/ SelectLast("ui")
  <2>1. \A s : todo["ui"] # <<>> /\ (At("ui", s) => Head(todo["ui"]) = s)
    BY <1>1, <1>2 DEF At
  <2>2. /\ todo["ui"] = ChatCount => todo'["ui"] = todo["ui"] \/ CountUser("ui")
        /\ todo["ui"] = ChatLast => todo'["ui"] = todo["ui"] \/ SelectLast("ui")
    BY <1>1, <1>2, <2>1, UiHeads
  <2> QED BY <1>1, <2>2
<1>3. ASSUME todo["rx"] = RxCount \/ todo["rx"] = RxLast
      PROVE  /\ todo["rx"] = RxCount => todo'["rx"] = RxCount \/ CountUser("rx")
             /\ todo["rx"] = RxLast => todo'["rx"] = RxLast \/ SelectLast("rx")
  <2>1. \A s : todo["rx"] # <<>> /\ (At("rx", s) => Head(todo["rx"]) = s)
    BY <1>1, <1>3 DEF At
  <2>2. /\ todo["rx"] = RxCount => todo'["rx"] = todo["rx"] \/ CountUser("rx")
        /\ todo["rx"] = RxLast => todo'["rx"] = todo["rx"] \/ SelectLast("rx")
    BY <1>1, <1>3, <2>1, RxHeads
  <2> QED BY <1>1, <2>2
<1> QED BY <1>2, <1>3

\* Where a thread is while it adds a user, and where it goes.
LEMMA CountsAt ==
  ASSUME StateTypes
  PROVE  /\ CountUser("ui") => todo["ui"] = ChatCount /\ todo'["ui"] = ChatLast
         /\ CountUser("rx") => todo["rx"] = RxCount /\ todo'["rx"] = RxLast
         /\ StoreUser("ui") => todo["ui"] = ChatStore /\ todo'["ui"] = ChatCount
         /\ StoreUser("rx") => todo["rx"] = RxStore /\ todo'["rx"] = RxCount
         /\ SelectLast("ui") => todo["ui"] = ChatLast /\ todo'["ui"] = Ending
         /\ SelectLast("rx") => todo["rx"] = RxLast /\ todo'["rx"] = RxShow
         /\ SearchUser("ui") => todo["ui"] = ChatSearch /\ todo'["ui"] \in {ChatStore, Ending}
         /\ SearchUser("rx") => todo["rx"] = RxSearch /\ todo'["rx"] \in {RxStore, RxShow}
<1>1. TodoTypes
  BY DEF StateTypes, TodoTypes
<1> QED BY <1>1, UiActions, RxActions, GotoUi, GotoRx, Places DEF Goto

\* What lies beyond the list has not been written, or is a user being added.
LEMMA UnusedStep ==
  ASSUME Base, Unused, [Next]_vars
  PROVE  Unused'
<1>a. ListTypes /\ StateTypes /\ length \in Nat /\ Len(rows) \in Nat
  BY DEF Base, ListTypes
<1>1. CASE UNCHANGED vars
  BY <1>1 DEF vars, Unused, listVars
<1>2. CASE Stops
  BY <1>2 DEF Stops, Unwritten, Unused
<1>3. CASE Next /\ ~Stops
  <2>1. CASE GetUsers
    <3>1. \/ items' = items /\ length' = length
          \/ /\ length' = length + Len(rows)
             /\ items' = [i \in Slots |-> IF i \in length..length + Len(rows) - 1
                                          THEN rows[i - length + 1].nick ELSE items[i]]
      BY <2>1 DEF GetUsers, Statement, Runs
    <3>2. length' \in Nat /\ length' >= length
      BY <1>a, <3>1
    <3>3. ASSUME NEW i \in Slots, i >= length'
          PROVE  items'[i] = items[i]
      <4>1. CASE items' = items
        BY <4>1
      <4>2. CASE /\ length' = length + Len(rows)
                 /\ items' = [i_1 \in Slots |-> IF i_1 \in length..length + Len(rows) - 1
                                                THEN rows[i_1 - length + 1].nick
                                                ELSE items[i_1]]
        <5>1. i \in Nat /\ i \notin length..length + Len(rows) - 1
          BY <1>a, <3>3, <4>2 DEF Slots
        <5> QED BY <4>2, <5>1
      <4> QED BY <3>1, <4>1, <4>2
    <3>4. todo["ui"] # ChatCount /\ (todo["rx"] = RxCount => todo'["rx"] = RxCount)
      <4>1. At("ui", "get_users")
        BY <2>1 DEF GetUsers, Statement, Runs
      <4>2. todo["ui"] # ChatCount
        BY <4>1 DEF At, ChatCount
      <4>3. ~CountUser("rx")
        <5>1. ASSUME CountUser("rx") PROVE FALSE
          <6>1. todo'["rx"] # todo["rx"]
            BY <1>a, <5>1, CountsAt DEF RxCount, RxLast
          <6>2. todo'["ui"] # todo["ui"]
            <7>1. Goto("ui", <<"get_users", "get_messages">>, <<"get_messages">>)
              BY <1>a, <2>1, UiActions
            <7>2. todo["rx"] = todo'["rx"]
              BY <1>a, <7>1, GotoUi, Places DEF StateTypes, TodoTypes
            <7> QED BY <6>1, <7>2
          <6>3. todo'["ui"] = todo["ui"]
            BY <1>a, <5>1, RxActions, GotoRx, Places DEF StateTypes, TodoTypes
          <6> QED BY <6>2, <6>3
        <5> QED BY <5>1
      <4> QED BY <1>3, <1>a, <4>2, <4>3, CountsNext
    <3>5. ASSUME NEW i \in Slots, i >= length', items'[i] # Garbage
          PROVE  i = length' /\ todo'["rx"] = RxCount
      <4>1. items[i] # Garbage /\ i >= length
        BY <1>a, <3>2, <3>3, <3>5 DEF Slots
      <4>2. i = length /\ todo["rx"] = RxCount
        BY <3>4, <4>1 DEF Unused
      <4> QED BY <1>a, <3>2, <3>4, <3>5, <4>2
    <3> QED BY <3>5 DEF Unused
  <2>2. CASE \E t \in Threads : CountUser(t) /\ length' = length + 1
    <3>1. items' = items
      BY <2>2 DEF CountUser
    <3>2. \A i \in Slots : i >= length + 1 => items[i] = Garbage
      BY <1>a DEF Unused, Slots
    <3> QED BY <2>2, <3>1, <3>2 DEF Unused
  <2>3. CASE \E t \in Threads : StoreUser(t) /\ items' = [items EXCEPT ![length] = who[t]]
    <3>1. length' = length
      BY <2>3 DEF StoreUser
    <3>2. todo'["ui"] = ChatCount \/ todo'["rx"] = RxCount
      BY <1>a, <2>3, CountsAt DEF Threads
    <3>3. \A i \in Slots : i >= length /\ i # length => items'[i] = Garbage
      BY <1>a, <2>3 DEF Unused, ListTypes
    <3> QED BY <3>1, <3>2, <3>3 DEF Unused
  <2>4. CASE /\ length' = length /\ items' = items
             /\ ~ \E t \in Threads : CountUser(t)
    <3>1. /\ todo["ui"] = ChatCount => todo'["ui"] = ChatCount
          /\ todo["rx"] = RxCount => todo'["rx"] = RxCount
      BY <1>3, <1>a, <2>4, CountsNext DEF Threads
    <3> QED BY <2>4, <3>1 DEF Unused
  <2>5. \A t \in Threads : CountUser(t) => length' = length + 1
    BY DEF CountUser
  <2> QED BY <1>3, <2>1, <2>2, <2>3, <2>4, <2>5, LengthStep, ListStep
<1> QED BY <1>1, <1>2, <1>3

\* How the interface comes to the places where the selection or the list is at stake.
LEMMA Arrivals ==
  ASSUME StateTypes, Next, ~Stops
  PROVE  /\ todo'["ui"] = <<"up", "get_messages">> =>
              todo["ui"] = <<"up", "get_messages">> \/ ((Lower \/ Higher) /\ current_user > 0)
         /\ todo'["ui"] = <<"down", "get_messages">> =>
              todo["ui"] = <<"down", "get_messages">> \/ ((Lower \/ Higher) /\ BelowLast)
         /\ todo'["ui"] \in Beginning => todo["ui"] \in Beginning \/ Start
         /\ todo'["ui"] = ChatLast => todo["ui"] = ChatLast \/ CountUser("ui")
         /\ todo'["rx"] = RxLast => todo["rx"] = RxLast \/ CountUser("rx")
<1> DEFINE Up1 == <<"up", "get_messages">>
           Down1 == <<"down", "get_messages">>
           Strict == {Up1, Down1, ChatLast} \cup Beginning
<1>a. TodoTypes
  BY DEF StateTypes, TodoTypes
<1>0. /\ Up1 # Down1 /\ ChatLast \notin {Up1, Down1} /\ Up1 \notin Beginning
      /\ Down1 \notin Beginning /\ ChatLast \notin Beginning
      /\ <<"get_messages">> \notin Strict
  <2>1. Up1 # Down1 /\ <<"get_messages">> # Up1 /\ <<"get_messages">> # Down1
    OBVIOUS
  <2> QED BY <2>1, UiKinds, UiKindOf, Zenon
<1>b. \A l \in {EnterText, EnterSave, EnterSend, EnterStore, Ending, <<>>, <<"exit">>, <<"reset">>,
                <<"update_nickname", "get_messages", "reset">>,
                <<"clear_messages", "get_messages", "reset">>, ChatKey, ChatSave, ChatSearch,
                ChatStore, ChatCount, <<"get_messages">>} : l \notin Strict
  BY ONLY <1>0, UiKinds, UiKindOf, ChatPlaces, Zenon
<1>c. ASSUME NEW from, NEW to \in UiTodo, Goto("ui", from, to)
      PROVE  todo'["ui"] = to
  BY <1>a, <1>c, GotoUi
<1>1. ASSUME todo'["ui"] # todo["ui"], todo'["ui"] \in Strict
      PROVE  \/ todo'["ui"] = Up1 /\ (Lower \/ Higher) /\ current_user > 0
             \/ todo'["ui"] = Down1 /\ (Lower \/ Higher) /\ BelowLast
             \/ todo'["ui"] \in Beginning /\ (todo["ui"] \in Beginning \/ Start)
             \/ todo'["ui"] = ChatLast /\ CountUser("ui")
  <2> DEFINE Goal ==
        \/ todo'["ui"] = Up1 /\ (Lower \/ Higher) /\ current_user > 0
        \/ todo'["ui"] = Down1 /\ (Lower \/ Higher) /\ BelowLast
        \/ todo'["ui"] \in Beginning /\ (todo["ui"] \in Beginning \/ Start)
        \/ todo'["ui"] = ChatLast /\ CountUser("ui")
  <2> SUFFICES Goal
    OBVIOUS
  <2>a. ~(GetMessages("ui") \/ EndsEarly("ui"))
    <3>1. ~(Goto("ui", <<"get_messages">>, <<>>) \/ Goto("ui", Ending, <<>>)
            \/ Goto("ui", <<"reset">>, <<>>))
      BY <1>1, <1>b, <1>c, Places
    <3> QED BY <3>1, UiActions
  <2>1. CASE Start
    <3>1. todo'["ui"] = InitUi
      BY <2>1, <1>c, UiActions, Places
    <3> QED BY <2>1, <3>1, UiKindOf
  <2>2. CASE Lower \/ Higher
    <3>1. \/ BelowLast /\ todo'["ui"] = Down1
          \/ current_user > 0 /\ todo'["ui"] = Up1
          \/ todo'["ui"] = <<"get_messages">>
      BY <2>2, <1>c, UiActions, Places
    <3> QED BY <2>2, <3>1, <1>1, <1>0
  <2>3. ~(\/ Enter \/ Clear \/ Help \/ Quit \/ Moved \/ Send \/ UpdateNickname \/ ClearMessages
          \/ (\E name \in Peers \cup Nicks : Chat(name)) \/ \E name \in Peers : Nick(name))
    <3>1. \A to \in {EnterText, <<"clear_messages", "get_messages", "reset">>, <<"reset">>,
                     <<"exit">>, <<"get_messages">>, EnterStore, Ending, ChatKey,
                     <<"update_nickname", "get_messages", "reset">>} :
            \A from : ~Goto("ui", from, to)
      BY <1>1, <1>b, <1>c, Places
    <3> QED BY <1>1, <3>1, UiActions
  <2>4. ~(GetKey("ui") \/ SaveKey("ui") \/ SaveMessage("ui") \/ SearchUser("ui") \/ StoreUser("ui")
          \/ SelectLast("ui") \/ GetUsers)
    <3>1. \A to \in {EnterSave, ChatSave, EnterSend, ChatSearch, Ending, ChatStore, ChatCount,
                     <<"get_messages">>} :
            \A from : ~Goto("ui", from, to)
      BY <1>1, <1>b, <1>c, Places
    <3> QED BY <3>1, UiActions
  <2>5. CASE ArraylistInit \/ SqliteInit
    <3>1. \/ Goto("ui", InitUi, <<"sqlite_init", "get_users", "get_messages">>)
          \/ Goto("ui", <<"sqlite_init", "get_users", "get_messages">>,
                        <<"get_users", "get_messages">>)
      BY <2>5, UiActions
    <3> QED BY <3>1, <1>c, Places, UiKindOf DEF Goto
  <2>6. CASE CountUser("ui")
    BY <2>6, <1>c, UiActions, Places
  <2> HIDE DEF Goal
  <2> QED BY <1>1, <2>a, <2>1, <2>2, <2>3, <2>4, <2>5, <2>6, UiHeads DEF Begun
<1>2. ASSUME todo'["rx"] = RxLast, todo["rx"] # RxLast
      PROVE  CountUser("rx")
  <2>1. \A from : \A to \in {RxKey, RxSave, RxDecrypt, RxKeep, RxSearch, RxStore, RxCount, RxShow,
                             <<>>, <<"unlock">>, <<"exited">>} : ~Goto("rx", from, to)
    <3>1. \A to \in {RxKey, RxSave, RxDecrypt, RxKeep, RxSearch, RxStore, RxCount, RxShow,
                     <<>>, <<"unlock">>, <<"exited">>} : to # RxLast /\ to \in RxTodo
      <4>1. RxLast # RxShow
        BY DEF RxLast, RxShow
      <4> QED BY <4>1, RxPlaces, Places, Zenon
    <3> QED BY <1>a, <1>2, <3>1, GotoRx
  <2> QED BY <1>2, <2>1, RxHeads, RxActions
<1> QED BY ONLY <1>0, <1>1, <1>2, Zenon

\* The selection, wherever the two threads move it.
LEMMA SelectingStep ==
  ASSUME Base, Selecting, [Next]_vars
  PROVE  Selecting'
<1>a. ListTypes /\ StateTypes /\ length \in Nat /\ current_user \in Int /\ length <= MaxUsers
  BY RoomLeft DEF Base, ListTypes
<1>b. /\ <<>> # ChatLast /\ <<>> # RxLast /\ <<>> \notin Beginning
      /\ <<>> # <<"up", "get_messages">> /\ <<>> # <<"down", "get_messages">>
  BY DEF ChatLast, RxLast, Beginning, InitUi
<1>1. CASE UNCHANGED vars
  BY <1>1 DEF vars, Selecting, listVars
<1>2. CASE Stops
  <2>1. /\ todo'["ui"] = <<>> /\ todo'["rx"] = <<>> /\ current_user' = 0 /\ length' = 0
    BY <1>2 DEF Stops, Each, Threads
  <2> QED BY <1>b, <2>1 DEF Selecting
<1>3. CASE Next /\ ~Stops
  <2>1. CASE GetUsers
    <3>1. /\ length' \in Nat /\ length' >= length /\ current_user' = current_user
          /\ state' = state
      <4>1. Len(rows) \in Nat
        BY <1>a DEF ListTypes
      <4> QED BY <1>a, <2>1, <4>1 DEF GetUsers, Statement, Runs
    <3>2. /\ todo["ui"] = <<"get_users", "get_messages">> /\ todo'["ui"] = <<"get_messages">>
          /\ todo'["rx"] = todo["rx"]
      BY <1>a, <2>1, UiActions, GotoUi, Places DEF Goto, StateTypes, TodoTypes
    <3>3. /\ todo["ui"] \in Beginning /\ todo'["ui"] \notin Beginning /\ todo["ui"] # ChatLast
          /\ todo'["ui"] # ChatLast /\ todo'["ui"] # <<"up", "get_messages">>
          /\ todo'["ui"] # <<"down", "get_messages">> /\ state # "down"
          /\ todo["ui"] # <<"up", "get_messages">>
          /\ todo["ui"] # <<"down", "get_messages">>
      <4>1. /\ <<"get_messages">> # <<"up", "get_messages">>
            /\ <<"get_messages">> # <<"down", "get_messages">>
            /\ <<"get_users", "get_messages">> # <<>>
        OBVIOUS
      <4>2. state # "down"
        BY <1>a, <3>2, <4>1 DEF StateTypes, Each, Threads
      <4> QED BY ONLY <3>2, <4>1, <4>2, UiKinds, UiKindOf, Zenon
    <3> QED BY <1>a, <3>1, <3>2, <3>3 DEF Selecting
  <2>2. ASSUME NEW t \in Threads, CountUser(t), length' = length + 1
        PROVE  Selecting'
    <3>1. current_user' = current_user /\ state' = state
      BY <2>2 DEF CountUser, UseList
    <3>2. /\ todo'["ui"] = ChatLast \/ todo'["rx"] = RxLast
          /\ todo["ui"] # <<>> \/ todo["rx"] # <<>>
      <4>1. ChatCount # <<>> /\ RxCount # <<>>
        BY DEF ChatCount, RxCount
      <4> QED BY <1>a, <2>2, <4>1, CountsAt DEF Threads
    <3>3. state # "down"
      BY <1>a, <3>2 DEF StateTypes, Each, Threads
    <3>4. todo'["ui"] = <<"up", "get_messages">> => todo["ui"] = <<"up", "get_messages">>
      <4>1. ~(Lower \/ Higher)
        <5>1. Lower \/ Higher => length' = length
          BY DEF Lower, Higher, Move, listVars
        <5> QED BY <1>a, <2>2, <5>1
      <4> QED BY <1>3, <1>a, <4>1, Arrivals
    <3> QED BY <1>a, <2>2, <3>1, <3>2, <3>3, <3>4 DEF Selecting
  <2>3. ASSUME length' = length
        PROVE  /\ length' = 0 => todo'["ui"] # ChatLast /\ todo'["rx"] # RxLast
               /\ state' = "down" => current_user' = 0
    <3>1. ~CountUser("ui") /\ ~CountUser("rx")
      BY <1>a, <2>3 DEF CountUser
    <3>2. length' = 0 => todo'["ui"] # ChatLast /\ todo'["rx"] # RxLast
      BY <1>3, <1>a, <2>3, <3>1, Arrivals DEF Selecting
    <3>3. ASSUME state' = "down" PROVE current_user' = 0
      <4>1. state = "down"
        BY <1>3, <3>3, ModeStep
      <4>2. \A t \in Threads : todo[t] = <<>>
        BY <1>a, <4>1 DEF StateTypes, Each
      <4>3. ~Moved /\ \A t \in Threads : ~SearchUser(t) /\ ~SelectLast(t)
        BY <4>2 DEF Moved, SearchUser, SelectLast, UseList, At, Threads
      <4> QED BY <1>3, <4>1, <4>3, ListStep DEF Selecting
    <3> QED BY <3>2, <3>3
  <2>4. ASSUME length' = length, current_user' \in -1..length - 1
        PROVE  Selecting'
    BY <1>a, <2>3, <2>4 DEF Selecting
  <2>5. CASE Moved
    <3>1. length' = length /\ todo'["ui"] = <<"get_messages">> /\ todo'["rx"] = todo["rx"]
      BY <1>a, <2>5, UiActions, GotoUi, Places DEF Moved, StateTypes, TodoTypes
    <3>2. \/ todo["ui"] = <<"down", "get_messages">> /\ current_user' = current_user + 1
          \/ todo["ui"] = <<"up", "get_messages">> /\ current_user' = current_user - 1
      BY <1>a, <2>5, UiActions DEF Goto
    <3>3. /\ \A l \in Drawing : l \notin Beginning /\ l # ChatLast
          /\ <<"get_messages">> # <<"up", "get_messages">>
          /\ <<"get_messages">> # <<"down", "get_messages">>
          /\ <<"up", "get_messages">> # <<"down", "get_messages">>
      <4>1. /\ <<"get_messages">> # <<"up", "get_messages">>
            /\ <<"get_messages">> # <<"down", "get_messages">>
            /\ <<"up", "get_messages">> # <<"down", "get_messages">>
        OBVIOUS
      <4> QED BY <4>1, UiKinds, UiKindOf, Zenon
    <3>4. /\ todo["ui"] # ChatLast /\ todo'["ui"] # ChatLast /\ todo'["ui"] \notin Beginning
          /\ todo'["ui"] # <<"up", "get_messages">> /\ todo'["ui"] # <<"down", "get_messages">>
      BY <3>1, <3>2, <3>3, UiKindOf
    <3>5. current_user' \in Int /\ current_user' >= -2
      BY <1>a, <3>2 DEF Selecting
    <3>6. length > 0 /\ todo["rx"] # RxLast => current_user' <= length
      BY <1>a, <3>2, <3>3, <3>4 DEF Selecting
    <3> QED BY <1>a, <2>3, <3>1, <3>4, <3>5, <3>6 DEF Selecting
  <2>6. ASSUME length' = length, current_user' = current_user,
               \A t \in Threads : ~SelectLast(t)
        PROVE  Selecting'
    <3>1. todo'["ui"] = <<"up", "get_messages">> => current_user' >= -1
      BY <1>3, <1>a, <2>6, Arrivals DEF Selecting
    <3>2. length' = 0 /\ todo'["ui"] \in Beginning => current_user' <= 0
      <4>1. Start => current_user = 0
        BY DEF Start, Selecting
      <4> QED BY <1>3, <1>a, <2>6, <4>1, Arrivals DEF Selecting
    <3>3. todo'["ui"] # ChatLast /\ todo'["rx"] # RxLast =>
            todo["ui"] # ChatLast /\ todo["rx"] # RxLast
      BY <1>3, <1>a, <2>6, CountsNext DEF Threads
    <3>4. ASSUME length > 0, todo'["ui"] # ChatLast, todo'["rx"] # RxLast
          PROVE  current_user <= IF todo'["ui"] = <<"down", "get_messages">>
                                 THEN length - 1 ELSE length
      <4>1. todo["ui"] # ChatLast /\ todo["rx"] # RxLast
        BY <3>3, <3>4
      <4>2. CASE todo'["ui"] = <<"down", "get_messages">>
        <5>1. todo["ui"] = <<"down", "get_messages">> \/ BelowLast
          BY <1>3, <1>a, <4>2, Arrivals
        <5>2. current_user <= length - 1
          BY <1>a, <3>4, <4>1, <5>1 DEF Selecting, BelowLast
        <5> QED BY <4>2, <5>2
      <4>3. CASE todo'["ui"] # <<"down", "get_messages">>
        BY <1>a, <3>4, <4>1, <4>3 DEF Selecting
      <4> QED BY <4>2, <4>3
    <3>5. current_user' >= -2
      BY <2>6 DEF Selecting
    <3> QED BY <2>3, <2>6, <3>1, <3>2, <3>4, <3>5 DEF Selecting
  <2>7. \A t \in Threads : SearchUser(t) => length' = length /\ current_user' \in -1..length - 1
    <3>1. ASSUME NEW t \in Threads, SearchUser(t)
          PROVE  length' = length /\ current_user' \in -1..length - 1
      <4>1. Search(who[t]) \in -1..length - 1
        BY <1>a, SearchIn, ZenAssumption DEF ListTypes
      <4> QED BY <3>1, <4>1 DEF SearchUser, Select
    <3> QED BY <3>1
  <2>8. \A t \in Threads : SelectLast(t) => length' = length /\ current_user' \in -1..length - 1
    BY <1>a DEF SelectLast, Select
  <2>9. CASE \E t \in Threads : SearchUser(t) \/ SelectLast(t)
    BY <2>4, <2>7, <2>8, <2>9
  <2>10. CASE ~GetUsers /\ ~Moved /\ ~ \E t \in Threads : SearchUser(t) \/ SelectLast(t)
    <3>1. current_user' = current_user
      BY <1>3, <2>10, ListStep
    <3> QED BY <1>3, <2>2, <2>6, <2>10, <3>1, LengthStep
  <2> QED BY <2>1, <2>5, <2>9, <2>10
<1> QED BY <1>1, <1>2, <1>3

\* The list and the selection hold together, whatever the two threads do to them.
ListInv == Base /\ Selecting /\ Unused
\* They do at first.
LEMMA InitList ==
  ASSUME Init
  PROVE  ListInv
<1>1. todo["ui"] = <<>> /\ todo["rx"] = <<>> /\ length = 0 /\ current_user = 0
  BY DEF Init, Each, Threads
<1>2. <<>> # ChatLast /\ <<>> # RxLast /\ <<>> # <<"up", "get_messages">>
  BY DEF ChatLast, RxLast
<1>3. \A i \in Slots : items[i] = Garbage
  BY DEF Init, Unwritten
<1> QED BY <1>1, <1>2, <1>3, InitBase DEF ListInv, Selecting, Unused

\* They go on to.
LEMMA ListStepsOn ==
  ASSUME ListInv, [Next]_vars
  PROVE  ListInv'
BY BaseStep, SelectingStep, UnusedStep DEF ListInv

\* So they do throughout.
LEMMA ListHolds == Spec => []ListInv
BY InitList, ListStepsOn, PTL DEF Spec

\* The state has its types, the list is within its bound, and the selection is no more than
\* two places off the list, though two threads move it without a lock (ui.c, user.c).
THEOREM ZenTypeCorrect == Spec => []TypeOK
<1>1. ListInv => TypeOK
  <2>1. SUFFICES ASSUME ListInv PROVE TypeOK
    OBVIOUS
  <2>2. ListTypes /\ StateTypes /\ TextTypes /\ Selecting /\ length <= MaxUsers
    BY <2>1, RoomLeft DEF ListInv, Base
  <2>3. (todo["ui"] = ChatLast => At("ui", "last")) /\ (todo["rx"] = RxLast => At("rx", "last"))
    <3>1. ChatLast # <<>> /\ Head(ChatLast) = "last" /\ RxLast # <<>> /\ Head(RxLast) = "last"
      BY DEF ChatLast, RxLast
    <3> QED BY <3>1 DEF At
  <2>4. length > 0 => current_user <= length \/ \E t \in Threads : At(t, "last")
    BY <2>2, <2>3 DEF Selecting, ListTypes, Threads
  <2>5. /\ rows \in Seq([name : Names, nick : Names, rk : KeyType, sk : KeyType])
        /\ items \in [Slots -> Names] /\ length \in 0..MaxUsers
    BY <2>2, ZenAssumption DEF ListTypes, Row
  <2>6. msgs \subseteq [author : Peers \cup {Me}, to : Names \cup {Me}, text : Nat]
    BY <2>2 DEF TextTypes
  <2>7. /\ state \in {"down", "started", "listed", "ready", "freed"}
        /\ mode \in {"NORMAL", "INSERT", "COMMAND"}
    BY <2>2 DEF StateTypes
  <2>8. current_user >= -2
    BY <2>2 DEF Selecting
  <2> QED BY ONLY <2>4, <2>5, <2>6, <2>7, <2>8, Zenon DEF TypeOK
<1> QED BY <1>1, ListHolds, PTL

\* Whatever the two threads have made of the list, while its names are in order the search
\* finds each of them where it is (arraylist_search, user.c).
THEOREM SearchCorrect == Spec => []SearchFinds
<1>1. ListInv => SearchFinds
  <2>1. ListInv => length \in 0..MaxUsers /\ items \in [Slots -> Names]
    BY RoomLeft, ZenAssumption DEF ListInv, Base, ListTypes
  <2> QED BY <2>1, SearchFound
<1> QED BY <1>1, ListHolds, PTL

----------------------------------------------------------------------------
(* A text from its first key to its end.                                    *)

\* Where the interface goes from a text, and how it comes to wait for a key.
LEMMA EntryPlaces ==
  ASSUME StateTypes, Next, ~Stops
  PROVE  /\ todo["ui"] \in Typing => todo'["ui"] \in Typing \cup {Ending}
         /\ todo["ui"] = Ending => todo'["ui"] = Ending \/ (Ends("ui") /\ todo'["ui"] = <<>>)
         /\ todo["ui"] = <<>> => todo'["ui"] = <<>> \/ Begun
         /\ todo'["ui"] = <<>> =>
              todo["ui"] = <<>> \/ Ends("ui") \/ (todo["ui"] = <<"get_messages">> /\ who' = who)
         /\ todo'["ui"] \in Drawing => todo["ui"] \in {<<>>} \cup Drawing \cup Beginning
<1> DEFINE Goal ==
      /\ todo["ui"] \in Typing => todo'["ui"] \in Typing \cup {Ending}
      /\ todo["ui"] = Ending => todo'["ui"] = Ending \/ (Ends("ui") /\ todo'["ui"] = <<>>)
      /\ todo["ui"] = <<>> => todo'["ui"] = <<>> \/ Begun
      /\ todo'["ui"] = <<>> =>
           todo["ui"] = <<>> \/ Ends("ui") \/ (todo["ui"] = <<"get_messages">> /\ who' = who)
      /\ todo'["ui"] \in Drawing => todo["ui"] \in {<<>>} \cup Drawing \cup Beginning
<1>a. TodoTypes
  BY DEF StateTypes, TodoTypes
<1> SUFFICES Goal
  OBVIOUS
<1>c. ASSUME NEW from, NEW to \in UiTodo, Goto("ui", from, to)
      PROVE  todo["ui"] = from /\ todo'["ui"] = to
  BY <1>a, <1>c, GotoUi DEF Goto
<1>1. CASE todo'["ui"] = todo["ui"]
  BY <1>1
<1>2. CASE todo["ui"] = <<>> /\ Begun
  BY <1>2, UiKinds
<1>3. CASE ArraylistInit \/ SqliteInit \/ GetUsers \/ Moved
  <2>1. /\ todo["ui"] \in Beginning \cup Drawing
        /\ todo'["ui"] \in Beginning \cup Drawing
    BY <1>3, <1>c, UiActions, Places, UiKindOf
  <2> QED BY <2>1, UiKinds
<1>4. CASE Send \/ GetKey("ui") \/ SaveKey("ui") \/ SaveMessage("ui")
  <2>1. \/ todo["ui"] \in Typing /\ todo'["ui"] \in Typing \cup {Ending}
        \/ todo["ui"] \in Chatting /\ todo'["ui"] \in Chatting
    BY <1>4, <1>c, UiActions, Places, UiKindOf
  <2> QED BY <2>1, UiKinds
<1>5. CASE \/ UpdateNickname \/ ClearMessages
           \/ SearchUser("ui") \/ StoreUser("ui") \/ CountUser("ui") \/ SelectLast("ui")
  <2>1. todo["ui"] \in Commanding \cup Chatting /\ todo'["ui"] \in Chatting \cup {Ending}
    BY <1>5, <1>c, UiActions, Places, UiKindOf
  <2> QED BY <2>1, UiKinds
<1>6. CASE GetMessages("ui") \/ EndsEarly("ui")
  <2>1. \/ /\ todo["ui"] = <<"get_messages">> /\ todo'["ui"] = <<>> /\ who' = who
        \/ /\ todo["ui"] \in {Ending, <<"reset">>} /\ Ends("ui") /\ todo'["ui"] = <<>>
    BY <1>6, <1>c, UiActions, Places DEF localVars
  <2> QED BY <2>1, UiKinds, UiKindOf
<1> HIDE DEF Goal
<1> QED BY <1>1, <1>2, <1>3, <1>4, <1>5, <1>6, UiHeads

\* What the keys and the steps make of the mode and of the recipient.
LEMMA ModeOf ==
  ASSUME Next, ~Stops
  PROVE  /\ \/ mode' = mode \/ Insert \/ Slash \/ Escape
            \/ mode = "COMMAND" /\ mode' = "NORMAL" /\ todo["ui"] = <<>>
         /\ ptr' = ptr \/ Enter \/ Overwritten \/ (Ends("ui") /\ ptr' = NoPtr)
<1> DEFINE Same == UNCHANGED <<mode, ptr>>
<1>1. Start \/ ServerCloses \/ ArraylistInit => Same
  BY DEF Start, ServerCloses, ArraylistInit, uiVars
<1>2. TypeText \/ ClearInput \/ Decrypt \/ Lower \/ Higher \/ Moved => Same
  BY DEF TypeText, ClearInput, Decrypt, Lower, Higher, Move, Moved, uiVars
<1>3. (SqliteInit \/ Send \/ Quit \/ ReceiveEnd) /\ ~Stops => Same
  BY DEF SqliteInit, Send, Quit, ReceiveEnd, Deinit, uiVars
<1>4. GetUsers \/ UpdateNickname \/ ClearMessages => Same
  BY DEF GetUsers, UpdateNickname, ClearMessages, Statement, Runs
<1>5. \A name, steps : Command(name, steps) =>
        mode = "COMMAND" /\ mode' = "NORMAL" /\ todo["ui"] = <<>> /\ ptr' = ptr
  BY DEF Command, Pressed, Keys
<1>6. \A name : Chat(name) \/ Nick(name) \/ Clear \/ Help =>
        mode = "COMMAND" /\ mode' = "NORMAL" /\ todo["ui"] = <<>> /\ ptr' = ptr
  BY <1>5, Zenon DEF Chat, Nick, Clear, Help
<1>7. \A p \in Peers : Receive(p) => Same
  BY DEF Receive, uiVars
<1>8. \A t \in Threads : GetKey(t) \/ SaveKey(t) \/ SaveMessage(t) => Same
  BY DEF GetKey, SaveKey, SaveMessage, Statement, Runs
<1>9. \A t \in Threads : OnList(t) => Same
  BY DEF OnList, SearchUser, StoreUser, CountUser, SelectLast, UseList
<1>10. \A t \in Threads :
         Closes(t) => mode' = mode /\ (ptr' = ptr \/ (t = "ui" /\ Ends(t) /\ ptr' = NoPtr))
  BY DEF Closes, GetMessages, EndsEarly, Ends, Runs
<1>11. /\ Insert \/ Slash \/ Escape => ptr' = ptr
       /\ Enter \/ Overwritten => mode' = mode
  BY DEF Insert, Slash, Escape, Enter, Overwritten
<1> HIDE DEF Same
<1>12. Same => mode' = mode /\ ptr' = ptr
  BY DEF Same
<1> QED BY <1>1, <1>2, <1>3, <1>4, <1>6, <1>7, <1>8, <1>9, <1>10, <1>11, <1>12, Steps DEF Quiet

\* While a text is sent, it stays what it is, and its recipient where it points to.
LEMMA TypingKeeps ==
  ASSUME Base, Next, ~Stops, todo["ui"] \in Typing, todo'["ui"] \in Typing
  PROVE  /\ input' = input /\ text'["ui"] = text["ui"] /\ who'["ui"] = who["ui"]
         /\ ptr' = ptr \/ ptr'.at = -1
<1>a. /\ StateTypes /\ TodoTypes
      /\ text \in [Threads -> Text] /\ who \in [Threads -> Names]
  BY DEF Base, StateTypes, TodoTypes, TextTypes, ListTypes
<1>b. <<>> \notin Typing /\ todo["ui"] # <<>>
  BY UiKinds
<1>1. ~TypeText /\ ~Escape /\ ~ClearInput /\ ~Enter
  BY <1>b DEF TypeText, Escape, ClearInput, Enter, Begins, Pressed, Keys
<1>2. ~Ends("ui")
  BY <1>a, <1>b DEF Ends, TodoTypes, Threads
<1>3. input' = input /\ text'["ui"] = text["ui"]
  BY <1>a, <1>b, <1>1, <1>2, TextStep DEF Threads
<1>4. ~Commanded
  <2>1. Commanded => todo'["ui"] \in Commanding \cup Chatting
    BY <1>a, UiActions, GotoUi, Places, UiKindOf DEF Commanded
  <2> QED BY <2>1, UiKinds
<1>5. who'["ui"] = who["ui"]
  BY <1>a, <1>2, <1>4, WhoStep DEF Threads
<1>6. ptr' = ptr \/ ptr'.at = -1
  <2>1. PICK p : p = ptr
    OBVIOUS
  <2>2. p = [at |-> p.at, capacity |-> p.capacity]
    BY <1>a, <2>1 DEF StateTypes
  <2>3. Overwritten => ptr' = [p EXCEPT !.at = -1]
    BY <2>1 DEF Overwritten
  <2>4. [p EXCEPT !.at = -1].at = -1
    BY <2>2
  <2> QED BY <1>1, <1>2, <2>3, <2>4, ModeOf
<1> QED BY <1>3, <1>5, <1>6

\* What is typed, and whom it is for, belongs to one entry.
LEMMA TypedStep ==
  ASSUME Base, TypedOrNot, [Next]_vars
  PROVE  TypedOrNot'
<1>a. /\ ListTypes /\ StateTypes /\ TextTypes /\ TodoTypes
      /\ text \in [Threads -> Text] /\ who \in [Threads -> Names]
  BY DEF Base, StateTypes, TodoTypes, TextTypes, ListTypes
<1>b. <<>> \notin Typing /\ <<>> # Ending
  BY UiKinds
<1>1. CASE UNCHANGED vars
  BY <1>1 DEF vars, TypedOrNot, InEntry, uiVars, localVars
<1>2. CASE Stops
  <2>1. /\ todo'["ui"] = <<>> /\ input' = NoInput /\ ptr' = NoPtr /\ who'["ui"] = Garbage
    BY <1>2 DEF Stops, Each, Threads
  <2> QED BY <1>b, <2>1 DEF TypedOrNot
<1>3. CASE Next /\ ~Stops
  <2>1. Enter => /\ todo'["ui"] = EnterText /\ EnterText \in Typing
                 /\ todo["ui"] = <<>> /\ input # NoInput
                 /\ input' = input /\ who' = who /\ text' = [text EXCEPT !["ui"] = input.text]
    BY <1>a, UiActions, GotoUi, Places, UiKindOf DEF Enter, Goto
  <2>2. Ends("ui") => input' = NoInput /\ ptr' = NoPtr
    BY DEF Ends
  <2>3. Escape \/ ClearInput => input' = NoInput
    BY DEF Escape, ClearInput
  <2>4. ASSUME Begun, mode = "INSERT", state # "down"
        PROVE  Enter
    BY <2>4 DEF Begun, Start, Lower, Higher, Move, Browsing, Clear, Help, Chat, Nick, Command,
                Quit, Pressed
  <2>5. ASSUME input' # NoInput
        PROVE  mode' = "INSERT" /\ state' # "down" /\ (todo'["ui"] = <<>> \/ InEntry')
    <3>1. CASE TypeText
      <4>1. /\ mode' = mode /\ mode = "INSERT" /\ state' = state /\ state # "down"
            /\ todo' = todo /\ todo["ui"] = <<>>
        BY <3>1 DEF TypeText, Pressed, Keys, Up
      <4> QED BY <4>1
    <3>2. CASE ~TypeText
      <4>1. input # NoInput /\ ~Escape /\ ~Ends("ui")
        BY <1>3, <2>2, <2>3, <2>5, <3>2, TextStep
      <4>2. mode = "INSERT" /\ state # "down" /\ (todo["ui"] = <<>> \/ InEntry)
        BY <4>1 DEF TypedOrNot
      <4>3. mode' = mode
        <5>1. Insert \/ Slash => mode = "NORMAL"
          BY DEF Insert, Slash, Pressed
        <5> QED BY <1>3, <4>1, <4>2, <5>1, ModeOf
      <4>4. state' # "down"
        BY <1>3, <4>2, ModeStep
      <4>5. todo'["ui"] = <<>> \/ InEntry'
        <5>1. CASE todo["ui"] = <<>>
          <6>1. todo'["ui"] = <<>> \/ Enter
            BY <1>3, <1>a, <2>4, <4>2, <5>1, EntryPlaces
          <6> QED BY <2>1, <6>1 DEF InEntry
        <5>2. CASE todo["ui"] # <<>>
          <6>1. todo'["ui"] \in Typing \cup {Ending}
            BY <1>3, <1>a, <4>1, <4>2, <5>2, EntryPlaces DEF InEntry
          <6> QED BY <6>1 DEF InEntry
        <5> QED BY <5>1, <5>2
      <4> QED BY <4>2, <4>3, <4>4, <4>5
    <3> QED BY <3>1, <3>2
  <2>6. ASSUME ptr' # NoPtr
        PROVE  InEntry'
    <3>1. CASE Enter
      BY <2>1, <3>1 DEF InEntry
    <3>2. CASE Overwritten
      <4>1. todo' = todo /\ ptr # NoPtr
        BY <3>2 DEF Overwritten
      <4> QED BY <4>1 DEF TypedOrNot, InEntry
    <3>3. CASE ptr' = ptr /\ ~Ends("ui")
      <4>1. InEntry
        BY <2>6, <3>3 DEF TypedOrNot
      <4> QED BY <1>3, <1>a, <3>3, <4>1, EntryPlaces DEF InEntry
    <3> QED BY <1>3, <2>2, <2>6, <3>1, <3>2, <3>3, ModeOf
  <2>7. Commanded => todo'["ui"] \in Commanding \cup Chatting
    BY <1>a, UiActions, GotoUi, Places, UiKindOf DEF Commanded
  <2>8. ASSUME todo'["ui"] \in Typing
        PROVE  input' # NoInput /\ who'["ui"] = Garbage /\ text'["ui"] = input'.text
    <3>1. CASE Enter
      BY <1>a, <2>1, <3>1 DEF TypedOrNot, Threads
    <3>2. CASE ~Enter
      <4>1. todo["ui"] \in Typing
        BY <1>3, <1>a, <2>8, <3>2, TypingStep
      <4>2. input # NoInput /\ who["ui"] = Garbage /\ text["ui"] = input.text
        BY <4>1 DEF TypedOrNot
      <4>3. input' = input /\ text'["ui"] = text["ui"] /\ who'["ui"] = who["ui"]
        BY <1>3, <1>a, <2>8, <4>1, TypingKeeps
      <4> QED BY <4>2, <4>3
    <3> QED BY <3>1, <3>2
  <2>9. ASSUME todo'["ui"] \in {<<>>} \cup Drawing \cup Beginning
        PROVE  who'["ui"] = Garbage
    <3>1. ~Commanded
      BY <2>7, <2>9, UiKinds
    <3>2. CASE Ends("ui")
      BY <1>a, <3>2 DEF Ends, Threads
    <3>3. CASE ~Ends("ui")
      <4>1. Start => todo["ui"] = <<>>
        BY DEF Start, Begins
      <4>2. todo["ui"] \in {<<>>} \cup Drawing \cup Beginning
        BY <1>3, <1>a, <2>9, <3>3, <4>1, EntryPlaces, Arrivals, UiKindOf
      <4>3. who["ui"] = Garbage
        BY <4>2 DEF TypedOrNot
      <4> QED BY <1>3, <1>a, <3>1, <3>3, <4>3, WhoStep DEF Threads
    <3> QED BY <3>2, <3>3
  <2> QED BY <2>5, <2>6, <2>8, <2>9 DEF TypedOrNot
<1> QED BY <1>1, <1>2, <1>3

\* A place of the list that is filled keeps its name: while a text is typed nothing is
\* loaded, and the only name added is the receive thread's, beyond the filled places.
LEMMA FilledStep ==
  ASSUME Base, Next, ~Stops, todo["ui"] \in {<<>>} \cup Typing, NEW i, Filled(i)
  PROVE  Filled(i)' /\ items'[i] = items[i]
<1>a. ListTypes /\ StateTypes /\ length \in Nat
  BY DEF Base, ListTypes
<1>0. todo["ui"] \notin Beginning \cup Chatting
  BY UiKinds
<1>1. ~GetUsers
  BY <1>a, <1>0, UiActions, UiKindOf DEF Goto
<1>2. ~StoreUser("ui") /\ ~CountUser("ui")
  BY <1>a, <1>0, UiActions, UiKindOf DEF Goto
<1>3. items'[i] = items[i]
  <2>1. CASE StoreUser("rx") /\ items' = [items EXCEPT ![length] = who["rx"]]
    <3>1. todo["rx"] # RxCount
      <4>1. todo["rx"] = RxStore /\ RxStore # RxCount
        BY <1>a, <2>1, CountsAt DEF RxStore, RxCount
      <4> QED BY <4>1
    <3>2. i # length /\ i \in Slots
      BY <1>a, <3>1 DEF Filled
    <3> QED BY <1>a, <2>1, <3>2 DEF ListTypes
  <2> QED BY <1>1, <1>2, <2>1, ListStep DEF Threads
<1>4. length' = length \/ (CountUser("rx") /\ length' = length + 1)
  BY <1>1, <1>2, LengthStep DEF Threads
<1>5. todo["rx"] = RxCount => todo'["rx"] = RxCount \/ (CountUser("rx") /\ length' = length + 1)
  <2>1. CountUser("rx") => length' = length + 1
    BY DEF CountUser
  <2> QED BY <1>a, <2>1, CountsNext
<1>6. i \in Slots /\ i \in Int
  BY ZenAssumption DEF Filled, Slots
<1> QED BY <1>a, <1>3, <1>4, <1>5, <1>6 DEF Filled

\* Who a text is for stays the name at its place, whatever the two threads do.
LEMMA MeantStep ==
  ASSUME Base, Unused, TypedOrNot, Meant, [Next]_vars, Unused'
  PROVE  Meant'
<1>a. /\ ListTypes /\ StateTypes /\ length \in Nat /\ length' \in Nat
      /\ \A i \in Slots : i \in Int
      /\ input = [text |-> input.text, meant |-> input.meant]
  <2>1. Base'
    BY BaseStep
  <2>2. ListTypes /\ ListTypes' /\ StateTypes /\ TextTypes
    BY <2>1 DEF Base
  <2>3. length \in Nat /\ length' \in Nat
    BY <2>2 DEF ListTypes
  <2>4. \A i \in Slots : i \in Int
    BY ZenAssumption DEF Slots
  <2>5. input = [text |-> input.text, meant |-> input.meant]
    BY <2>2 DEF TextTypes
  <2> QED BY <2>2, <2>3, <2>4, <2>5
<1>b. <<>> \notin Typing /\ <<>> # Ending /\ <<>> # ChatCount
  BY UiKinds, UiKindOf
<1>1. CASE UNCHANGED vars
  BY <1>1 DEF vars, Meant, Filled, uiVars, listVars
<1>2. CASE Stops
  <2>1. todo'["ui"] = <<>> /\ input' = NoInput
    BY <1>2 DEF Stops, Each, Threads
  <2> QED BY <1>b, <2>1 DEF Meant
<1>3. CASE Next /\ ~Stops
  <2>1. ASSUME input' # NoInput, todo'["ui"] = <<>>, Garbage \notin input'.meant
        PROVE  Filled(current_user)' /\ items'[current_user'] \in input'.meant
    <3>1. Ends("ui") \/ Escape \/ ClearInput => input' = NoInput
      BY DEF Ends, Escape, ClearInput
    <3>2. TypeText \/ input # NoInput
      BY <1>3, <2>1, <3>1, TextStep
    <3>3. todo["ui"] = <<>>
      <4>1. TypeText => todo["ui"] = <<>>
        BY DEF TypeText, Pressed, Keys
      <4>2. todo["ui"] # <<"get_messages">> \/ TypeText
        <5>1. <<"get_messages">> \notin Typing \cup {<<>>, Ending}
          BY UiKinds, UiKindOf
        <5> QED BY <3>2, <5>1 DEF TypedOrNot, InEntry
      <4> QED BY <1>3, <1>a, <2>1, <3>1, <4>1, <4>2, EntryPlaces
    <3>4. CASE TypeText
      <4>1. /\ UNCHANGED <<items, length, current_user, todo>>
            /\ input' = [text |-> typed + 1, meant |-> {Selected}]
        BY <3>4 DEF TypeText, listVars
      <4>2. Selected # Garbage /\ input'.meant = {Selected}
        BY <2>1, <4>1
      <4>3. current_user \in Slots /\ Selected = items[current_user]
        BY <4>2 DEF Selected
      <4>4. Filled(current_user)
        BY <1>a, <1>b, <3>3, <4>2, <4>3 DEF Filled, Unused
      <4> QED BY <4>1, <4>2, <4>3, <4>4 DEF Filled
    <3>5. CASE ~TypeText /\ (SearchUser("rx") \/ SelectLast("rx"))
      <4>1. input' = [input EXCEPT !.meant = @ \cup {Selected'}]
        BY <3>2, <3>3, <3>5 DEF SearchUser, SelectLast, Select
      <4>2. input' = [text |-> input.text, meant |-> input.meant \cup {Selected'}]
        BY <1>a, <4>1, MeantMore
      <4>3. Selected' \in input'.meant /\ Selected' # Garbage
        BY <2>1, <4>2
      <4>4. current_user' \in Slots /\ Selected' = items'[current_user']
        BY <4>3 DEF Selected
      <4>5. Filled(current_user)'
        BY <1>a, <1>b, <2>1, <4>3, <4>4 DEF Filled, Unused
      <4> QED BY <4>3, <4>4, <4>5
    <3>6. CASE ~TypeText /\ ~(SearchUser("rx") \/ SelectLast("rx"))
      <4>1. current_user' = current_user
        <5>1. ~Moved /\ ~SearchUser("ui") /\ ~SelectLast("ui")
          BY <3>3 DEF Moved, SearchUser, SelectLast, UseList, At
        <5> QED BY <1>3, <3>6, <5>1, ListStep DEF Threads
      <4>2. input' = input /\ input # NoInput
        <5>1. ~SearchUser("ui") /\ ~SelectLast("ui")
          BY <3>3 DEF SearchUser, SelectLast, UseList, At
        <5> QED BY <1>3, <2>1, <3>1, <3>2, <3>6, <5>1, TextStep DEF Threads
      <4>3. Filled(current_user) /\ items[current_user] \in input.meant
        BY <2>1, <3>3, <4>2 DEF Meant
      <4>4. PICK i : i = current_user
        OBVIOUS
      <4>5. Filled(i)' /\ items'[i] = items[i]
        BY <1>3, <3>3, <4>3, <4>4, FilledStep
      <4> QED BY <4>1, <4>2, <4>3, <4>4, <4>5 DEF Filled
    <3> QED BY <3>4, <3>5, <3>6
  <2>2. ASSUME todo'["ui"] \in Typing, Garbage \notin input'.meant
        PROVE  ptr'.at = -1 \/ (Filled(ptr.at)' /\ items'[ptr'.at] \in input'.meant)
    <3>1. CASE Enter
      <4>1. /\ todo["ui"] = <<>> /\ input # NoInput /\ input' = input
            /\ ptr'.at = IF current_user \in Slots THEN current_user ELSE -1
        BY <3>1 DEF Enter, Begins
      <4>2. Filled(current_user) /\ items[current_user] \in input.meant
        BY <2>2, <4>1 DEF Meant
      <4>3. PICK i : i = current_user
        OBVIOUS
      <4>4. Filled(i)' /\ items'[i] = items[i]
        BY <1>3, <4>1, <4>2, <4>3, FilledStep
      <4>5. ptr'.at = i
        BY <4>1, <4>2, <4>3 DEF Filled
      <4> QED BY <4>1, <4>2, <4>3, <4>4, <4>5 DEF Filled
    <3>2. CASE todo["ui"] \in Typing
      <4>1. input' = input /\ (ptr' = ptr \/ ptr'.at = -1)
        BY <1>3, <2>2, <3>2, TypingKeeps
      <4>3. CASE ptr' = ptr /\ ptr.at # -1
        <5>1. Filled(ptr.at) /\ items[ptr.at] \in input.meant
          BY <2>2, <3>2, <4>1, <4>3 DEF Meant
        <5>2. PICK i : i = ptr.at
          OBVIOUS
        <5>3. Filled(i)' /\ items'[i] = items[i]
          BY <1>3, <3>2, <5>1, <5>2, FilledStep
        <5> QED BY <4>1, <4>3, <5>1, <5>2, <5>3 DEF Filled
      <4> QED BY <4>1, <4>3
    <3> QED BY <1>3, <1>a, <2>2, <3>1, <3>2, TypingStep
  <2> QED BY <2>1, <2>2 DEF Meant, Filled
<1> QED BY <1>1, <1>2, <1>3

\* Nothing but Send makes a packet, and it makes one that was sent or one that was not.
LEMMA PacketsStep ==
  ASSUME Next, ~Stops
  PROVE  \/ packets' = packets
         \/ Send /\ \E ok \in BOOLEAN : packets' = packets \cup {Packet(ok)}
<1>1. Start \/ ServerCloses \/ ArraylistInit \/ SqliteInit \/ Quit \/ ReceiveEnd =>
        packets' = packets \/ Stops
  BY DEF Start, ServerCloses, ArraylistInit, SqliteInit, Quit, ReceiveEnd, Deinit, historyVars
<1>2. Insert \/ Slash \/ Escape \/ TypeText \/ ClearInput \/ Enter \/ Overwritten \/ Decrypt =>
        packets' = packets
  BY DEF Insert, Slash, Escape, TypeText, ClearInput, Enter, Overwritten, Decrypt, historyVars
<1>3. Lower \/ Higher \/ Moved => packets' = packets
  BY DEF Lower, Higher, Move, Moved, historyVars
<1>4. GetUsers \/ UpdateNickname \/ ClearMessages => packets' = packets
  BY DEF GetUsers, UpdateNickname, ClearMessages, Statement, Runs
<1>5. \A name, steps : Command(name, steps) => packets' = packets
  BY DEF Command, historyVars
<1>6. \A name : Chat(name) \/ Nick(name) \/ Clear \/ Help => packets' = packets
  BY <1>5, Zenon DEF Chat, Nick, Clear, Help
<1>7. \A p \in Peers : Receive(p) => packets' = packets
  BY DEF Receive, historyVars
<1>8. \A t \in Threads : GetKey(t) \/ SaveKey(t) \/ SaveMessage(t) => packets' = packets
  BY DEF GetKey, SaveKey, SaveMessage, Statement, Runs
<1>9. \A t \in Threads : OnList(t) => packets' = packets
  BY DEF OnList, SearchUser, StoreUser, CountUser, SelectLast, UseList, historyVars
<1>10. \A t \in Threads : Closes(t) => packets' = packets
  BY DEF Closes, GetMessages, EndsEarly, Runs, historyVars
<1>11. Send => Stops \/ \E ok \in BOOLEAN : packets' = packets \cup {Packet(ok)}
  BY DEF Send
<1> QED BY <1>1, <1>2, <1>3, <1>4, <1>6, <1>7, <1>8, <1>9, <1>10, <1>11, Steps DEF Quiet

\* Send sends while a text is being sent.
LEMMA SendAt ==
  ASSUME StateTypes, Send, ~Stops
  PROVE  todo["ui"] = EnterSend /\ todo'["ui"] = EnterStore
BY UiActions, GotoUi, UiKindOf, Places DEF Goto, StateTypes, TodoTypes

\* The recipient of a text is nobody, or the name it points to.
LEMMA NameIs ==
  ASSUME TypedOrNot, todo["ui"] \in Typing
  PROVE  /\ Name("ui") \in {Garbage, items[ptr.at]}
         /\ ptr.at = -1 => Name("ui") = Garbage
BY DEF TypedOrNot, Name

\* Who a text is for, from its first key on: the entry it belongs to and the place it
\* points to, which neither thread gives another name.
MeantInv == ListInv /\ TypedOrNot /\ Meant

\* So it is throughout.
LEMMA MeantHolds == Spec => []MeantInv
<1>1. Init => MeantInv
  <2>1. ASSUME Init PROVE ListInv /\ TypedOrNot /\ Meant
    <3>1. /\ todo["ui"] = <<>> /\ input = NoInput /\ ptr = NoPtr /\ who["ui"] = Garbage
      BY <2>1 DEF Init, Each, Threads
    <3>2. <<>> \notin Typing
      BY UiKinds
    <3>3. ListInv
      BY <2>1, InitList
    <3> QED BY <3>1, <3>2, <3>3 DEF TypedOrNot, Meant
  <2> QED BY <2>1 DEF MeantInv
<1>2. MeantInv /\ [Next]_vars => MeantInv'
  BY ListStepsOn, TypedStep, MeantStep DEF MeantInv, ListInv
<1> QED BY <1>1, <1>2, PTL DEF Spec

\* A text goes to the user who was selected when it was begun, or to one whom the receive
\* thread has selected since, or to what its pointer is left with when the array has moved
\* (get_panel_content, update_current_user, ui.c; arraylist_add, user.c).
THEOREM MeantCorrect == Spec => []SentToMeant
<1>1. Init => SentToMeant
  BY DEF Init, SentToMeant
<1>2. ASSUME MeantInv, SentToMeant, [Next]_vars
      PROVE  SentToMeant'
  <2>1. CASE packets' = packets
    BY <1>2, <2>1 DEF SentToMeant
  <2>2. CASE Next /\ ~Stops /\ Send /\ \E ok \in BOOLEAN : packets' = packets \cup {Packet(ok)}
    <3>1. todo["ui"] \in Typing
      BY <1>2, <2>2, SendAt, UiKindOf DEF MeantInv, ListInv, Base
    <3>2. Garbage \in input.meant \/ Name("ui") \in input.meant \cup {Garbage}
      BY <1>2, <3>1, NameIs DEF MeantInv, Meant
    <3> QED BY <1>2, <2>2, <3>2 DEF SentToMeant, Packet
  <2>3. Stops \/ UNCHANGED vars => packets' = packets
    BY DEF Stops, vars, historyVars
  <2> QED BY <1>2, <2>1, <2>2, <2>3, PacketsStep
<1> QED BY <1>1, <1>2, MeantHolds, PTL DEF Spec

----------------------------------------------------------------------------
(* The keys.                                                                *)

\* The places of keys are no others.
LEMMA KeyPlaces ==
  /\ EnterSave \notin {EnterText, EnterSend, EnterStore}
  /\ EnterSend \notin {EnterText, EnterSave, EnterStore}
  /\ EnterStore \notin {EnterText, EnterSave, EnterSend}
  /\ ChatSave \notin {ChatKey, ChatSearch, ChatStore, ChatCount, ChatLast}
  /\ RxSave \notin {RxKey, RxDecrypt, RxKeep, RxSearch, RxStore, RxCount, RxLast, RxShow}
  /\ RxDecrypt \notin {RxKey, RxSave, RxKeep, RxSearch, RxStore, RxCount, RxLast, RxShow}
<1>1. /\ EnterSave \notin {EnterText, EnterSend, EnterStore}
      /\ EnterSend \notin {EnterText, EnterSave, EnterStore}
      /\ EnterStore \notin {EnterText, EnterSave, EnterSend}
  BY DEF EnterText, EnterSave, EnterSend, EnterStore
<1>2. ChatSave \notin {ChatKey, ChatSearch, ChatStore, ChatCount, ChatLast}
  BY DEF ChatKey, ChatSave, ChatSearch, ChatStore, ChatCount, ChatLast
<1>3. /\ RxSave \notin {RxKey, RxDecrypt, RxKeep, RxSearch, RxStore, RxCount, RxLast, RxShow}
      /\ RxDecrypt \notin {RxKey, RxSave, RxKeep, RxSearch, RxStore, RxCount, RxLast, RxShow}
  BY DEF RxKey, RxSave, RxDecrypt, RxKeep, RxSearch, RxStore, RxCount, RxLast, RxShow
<1> QED BY <1>1, <1>2, <1>3

\* How the interface comes to a key, and to a text that is sent.
LEMMA UiKeyArrivals ==
  ASSUME StateTypes, Next, ~Stops, todo'["ui"] # todo["ui"]
  PROVE  /\ todo'["ui"] \in {EnterSave, ChatSave} =>
              GetKey("ui") /\ key' = [key EXCEPT !["ui"] = Derived("send", Name("ui"))]
         /\ todo'["ui"] = EnterSend =>
              \/ SaveKey("ui") /\ todo["ui"] = EnterSave
              \/ /\ GetKey("ui") /\ todo["ui"] = EnterText
                 /\ Stored("send", Name("ui")) # NoKey
                 /\ key' = [key EXCEPT !["ui"] = Stored("send", Name("ui"))]
         /\ todo'["ui"] = EnterStore => Send
<1> DEFINE Keyed == {EnterSave, ChatSave, EnterSend, EnterStore}
           Goal == /\ todo'["ui"] \in {EnterSave, ChatSave} =>
                        GetKey("ui") /\ key' = [key EXCEPT !["ui"] = Derived("send", Name("ui"))]
                   /\ todo'["ui"] = EnterSend =>
                        \/ SaveKey("ui") /\ todo["ui"] = EnterSave
                        \/ /\ GetKey("ui") /\ todo["ui"] = EnterText
                           /\ Stored("send", Name("ui")) # NoKey
                           /\ key' = [key EXCEPT !["ui"] = Stored("send", Name("ui"))]
                   /\ todo'["ui"] = EnterStore => Send
<1> SUFFICES Goal
  OBVIOUS
<1>a. TodoTypes
  BY DEF StateTypes, TodoTypes
<1>b. /\ EnterSave \notin {EnterSend, EnterStore, ChatSave}
      /\ EnterSend \notin {EnterStore, ChatSave} /\ EnterStore # ChatSave
      /\ \A l \in {<<>>, Ending, <<"exit">>, EnterText, ChatKey, ChatSearch, ChatStore, ChatCount,
                   ChatLast} \cup Commanding \cup Drawing \cup Beginning : l \notin Keyed
  <2>1. \A l \in {<<>>, Ending, <<"exit">>} \cup Commanding \cup Drawing \cup Beginning :
          l \notin Keyed
    BY UiKinds, UiKindOf
  <2>2. \A l \in {EnterText, ChatKey, ChatSearch, ChatStore, ChatCount, ChatLast} : l \notin Keyed
    BY UiKinds, UiKindOf, KeyPlaces
  <2>3. /\ EnterSave \notin {EnterSend, EnterStore, ChatSave}
        /\ EnterSend \notin {EnterStore, ChatSave} /\ EnterStore # ChatSave
    BY UiKinds, UiKindOf, KeyPlaces
  <2> HIDE DEF Keyed
  <2> QED BY ONLY <2>1, <2>2, <2>3, Zenon
<1>c. ASSUME NEW from, NEW to \in UiTodo, Goto("ui", from, to)
      PROVE  todo["ui"] = from /\ todo'["ui"] = to
  BY <1>a, <1>c, GotoUi DEF Goto
<1>d. todo'["ui"] \notin Keyed => Goal
  OBVIOUS
<1>1. CASE Begun
  <2>1. todo'["ui"] \in {InitUi, <<"down", "get_messages">>, <<"up", "get_messages">>,
          <<"get_messages">>, EnterText, ChatKey, <<"reset">>, <<"exit">>,
          <<"update_nickname", "get_messages", "reset">>,
          <<"clear_messages", "get_messages", "reset">>}
    BY <1>1, <1>c, UiActions, Places DEF Begun
  <2> QED BY <2>1, <1>b, <1>d, UiKindOf
<1>2. CASE ArraylistInit \/ SqliteInit \/ GetUsers \/ Moved \/ UpdateNickname \/ ClearMessages
  <2>1. todo'["ui"] \in Beginning \cup Drawing \cup {Ending}
    BY <1>2, <1>c, UiActions, Places, UiKindOf
  <2> QED BY <2>1, <1>b, <1>d
<1>3. CASE \/ SearchUser("ui") \/ StoreUser("ui") \/ CountUser("ui") \/ SelectLast("ui")
           \/ SaveMessage("ui") \/ GetMessages("ui") \/ EndsEarly("ui")
  <2>1. todo'["ui"] \in {ChatStore, ChatCount, ChatLast, Ending, <<>>}
    BY <1>3, <1>c, UiActions, Places
  <2> QED BY <2>1, <1>b, <1>d
<1>4. CASE Send
  <2>1. todo'["ui"] = EnterStore
    BY <1>4, SendAt
  <2> QED BY <2>1, <1>4, <1>b
<1>5. CASE SaveKey("ui")
  <2>1. \/ todo["ui"] = EnterSave /\ todo'["ui"] = EnterSend
        \/ todo'["ui"] = ChatSearch
    BY <1>5, <1>c, UiActions, Places
  <2> QED BY <2>1, <1>5, <1>b, <1>d
<1>6. CASE GetKey("ui")
  <2>1. \/ /\ key' = [key EXCEPT !["ui"] = Derived("send", Name("ui"))]
           /\ todo'["ui"] \in {EnterSave, ChatSave}
        \/ todo'["ui"] = ChatSearch
        \/ /\ Stored("send", Name("ui")) # NoKey
           /\ key' = [key EXCEPT !["ui"] = Stored("send", Name("ui"))]
           /\ todo["ui"] = EnterText /\ todo'["ui"] = EnterSend
    BY <1>6, <1>c, UiActions, Places
  <2> QED BY <2>1, <1>6, <1>b, <1>d
<1> HIDE DEF Goal
<1> QED BY <1>1, <1>2, <1>3, <1>4, <1>5, <1>6, UiHeads

\* How the receive thread comes to its key, and to a packet it has not decrypted.
LEMMA RxKeyArrivals ==
  ASSUME StateTypes, Next, ~Stops, todo'["rx"] # todo["rx"]
  PROVE  /\ todo'["rx"] \in {RxSave, RxDecrypt} =>
              \/ SaveKey("rx") /\ todo["rx"] = RxSave
              \/ /\ GetKey("rx") /\ todo["rx"] = RxKey
                 /\ \E k : /\ key' = [key EXCEPT !["rx"] = k]
                           /\ \/ k = Derived("recv", Name("rx"))
                              \/ k = Stored("recv", Name("rx")) /\ k # NoKey
         /\ todo'["rx"] = <<"unlock">> =>
              todo["rx"] = RxDecrypt /\ key["rx"] # Key("recv", who["rx"])
<1>a. TodoTypes
  BY DEF StateTypes, TodoTypes
<1>b. /\ \A l \in {RxKey, RxKeep, RxSearch, RxStore, RxCount, RxLast, RxShow, <<>>, <<"exited">>,
                   <<"unlock">>} : l \notin {RxSave, RxDecrypt}
      /\ \A l \in Receiving \cup {<<>>, <<"exited">>} : l # <<"unlock">>
      /\ RxSave \in Receiving /\ RxDecrypt \in Receiving
  <2>1. <<>> # <<"unlock">> /\ <<"exited">> # <<"unlock">>
    OBVIOUS
  <2>2. \A l \in {<<>>, <<"exited">>, <<"unlock">>} : l \notin Receiving
    BY RxPlaces
  <2>3. /\ Receiving =
             {RxKey, RxSave, RxDecrypt, RxKeep, RxSearch, RxStore, RxCount, RxLast, RxShow}
    BY Places
  <2> QED BY <2>1, <2>2, <2>3, KeyPlaces
<1>c. ASSUME NEW from, NEW to \in RxTodo, Goto("rx", from, to)
      PROVE  todo["rx"] = from /\ todo'["rx"] = to
  BY <1>a, <1>c, GotoRx DEF Goto
<1> SUFFICES ASSUME todo'["rx"] \in {RxSave, RxDecrypt, <<"unlock">>}
             PROVE  \/ SaveKey("rx") /\ todo["rx"] = RxSave /\ todo'["rx"] = RxDecrypt
                    \/ /\ GetKey("rx") /\ todo["rx"] = RxKey /\ todo'["rx"] \in {RxSave, RxDecrypt}
                       /\ \E k : /\ key' = [key EXCEPT !["rx"] = k]
                                 /\ \/ k = Derived("recv", Name("rx"))
                                    \/ k = Stored("recv", Name("rx")) /\ k # NoKey
                    \/ /\ todo["rx"] = RxDecrypt /\ key["rx"] # Key("recv", who["rx"])
                       /\ todo'["rx"] = <<"unlock">>
  BY <1>b
<1>1. ~(\/ ReceiveEnd \/ (\E p \in Peers : Receive(p))
        \/ SaveMessage("rx") \/ SearchUser("rx") \/ StoreUser("rx") \/ CountUser("rx")
        \/ SelectLast("rx") \/ GetMessages("rx") \/ EndsEarly("rx"))
  <2>1. SUFFICES ASSUME \/ ReceiveEnd \/ (\E p \in Peers : Receive(p))
                        \/ SaveMessage("rx") \/ SearchUser("rx") \/ StoreUser("rx")
                        \/ CountUser("rx") \/ SelectLast("rx") \/ GetMessages("rx")
                        \/ EndsEarly("rx")
                 PROVE  FALSE
    OBVIOUS
  <2>2. todo'["rx"] \in {RxKey, RxSearch, RxStore, RxCount, RxLast, RxShow, <<>>, <<"exited">>}
    BY <2>1, <1>c, RxActions, Places
  <2>3. \A l \in {RxKey, RxSearch, RxStore, RxCount, RxLast, RxShow} : l \in Receiving
    BY Places
  <2> QED BY <2>2, <2>3, <1>b
<1>2. Decrypt => \/ todo'["rx"] = RxKeep
                 \/ /\ todo["rx"] = RxDecrypt /\ key["rx"] # Key("recv", who["rx"])
                    /\ todo'["rx"] = <<"unlock">>
  BY <1>c, RxActions, Places
<1>3. RxKeep \notin {RxSave, RxDecrypt, <<"unlock">>}
  BY <1>b, Places
<1>4. SaveKey("rx") => todo["rx"] = RxSave /\ todo'["rx"] = RxDecrypt
  BY <1>c, RxActions, Places
<1>5. GetKey("rx") =>
        /\ todo["rx"] = RxKey /\ todo'["rx"] \in {RxSave, RxDecrypt}
        /\ \E k : /\ key' = [key EXCEPT !["rx"] = k]
                  /\ \/ k = Derived("recv", Name("rx"))
                     \/ k = Stored("recv", Name("rx")) /\ k # NoKey
  BY <1>c, RxActions, Places
<1> QED BY <1>1, <1>2, <1>3, <1>4, <1>5, RxHeads

\* What is found for a peer is that peer's, and of that direction.
LEMMA StoredRight ==
  ASSUME ListTypes, RowKeys, NEW name \in Peers
  PROVE  /\ Stored("recv", name) \in {NoKey, Key("recv", name)}
         /\ Stored("send", name) \in {NoKey} \cup Mine("send", name)
<1>1. CASE RowsOf(name) = {}
  BY <1>1 DEF Stored
<1>2. CASE RowsOf(name) # {}
  <2>1. PICK i \in RowsOf(name) : i = CHOOSE n \in RowsOf(name) : TRUE
    BY <1>2
  <2>2. i \in 1..Len(rows) /\ rows[i].name = name
    BY DEF RowsOf
  <2>3. /\ Stored("recv", name) = rows[i].rk
        /\ Stored("send", name) = rows[i].sk
    BY <1>2, <2>1 DEF Stored, Column
  <2> QED BY <2>2, <2>3 DEF RowKeys
<1> QED BY <1>1, <1>2

\* The name that a recipient points to changes to garbage, or from it: where a user is
\* being added there is none yet.
LEMMA NameStep ==
  ASSUME Base, Unused, TypedOrNot, Next, ~Stops, todo["ui"] \in Typing, todo'["ui"] \in Typing
  PROVE  Name("ui")' = Name("ui") \/ (ptr'.at = -1 /\ Name("ui")' = Garbage) \/ Name("ui") = Garbage
<1>a. ListTypes /\ StateTypes /\ length \in Nat /\ ptr.at \in {-1} \cup Slots
  <2>1. ListTypes /\ StateTypes
    BY DEF Base
  <2> QED BY <2>1 DEF ListTypes, StateTypes
<1>b. who["ui"] = Garbage /\ who'["ui"] = Garbage /\ (ptr' = ptr \/ ptr'.at = -1)
  BY TypingKeeps DEF TypedOrNot
<1>1. CASE ptr'.at = -1
  BY <1>b, <1>1 DEF Name
<1>2. CASE ptr' = ptr
  <2>0. todo["ui"] \notin Beginning \cup Chatting
    BY UiKinds
  <2>1. ~GetUsers /\ ~StoreUser("ui")
    BY <1>a, <2>0, UiActions, UiKindOf DEF Goto
  <2>2. CASE items' = items
    BY <1>b, <1>2, <2>2 DEF Name
  <2>3. CASE StoreUser("rx") /\ items' = [items EXCEPT ![length] = who["rx"]]
    <3>1. todo["rx"] # RxCount /\ todo["ui"] # ChatCount
      <4>1. todo["rx"] = RxStore /\ RxStore # RxCount
        BY <1>a, <2>3, CountsAt DEF RxStore, RxCount
      <4> QED BY <4>1, <2>0, UiKindOf
    <3>2. ptr.at \in Slots /\ ptr.at = length => items[ptr.at] = Garbage
      BY <1>a, <3>1 DEF Unused
    <3>3. ptr.at \in Slots /\ ptr.at # length => items'[ptr.at] = items[ptr.at]
      BY <1>a, <2>3 DEF ListTypes
    <3>4. CASE ptr = NoPtr
      BY <1>2, <1>b, <3>4 DEF Name
    <3>5. CASE ptr # NoPtr
      BY <1>2, <1>a, <3>2, <3>3, <3>5 DEF Name, Slots
    <3> QED BY <3>4, <3>5
  <2> QED BY <2>1, <2>2, <2>3, ListStep DEF Threads
<1> QED BY <1>b, <1>1, <1>2

\* And not even so, if the text is for somebody.
LEMMA NameKept ==
  ASSUME Base, TypedOrNot, Meant, Next, ~Stops, todo["ui"] \in Typing, todo'["ui"] \in Typing,
         Garbage \notin input.meant
  PROVE  Name("ui")' \in {Name("ui"), Garbage}
<1>b. who["ui"] = Garbage /\ who'["ui"] = Garbage /\ (ptr' = ptr \/ ptr'.at = -1)
  BY TypingKeeps DEF TypedOrNot
<1>1. CASE ptr'.at = -1
  BY <1>b, <1>1 DEF Name
<1>2. CASE ptr' = ptr /\ ptr.at # -1
  <2>1. Filled(ptr.at)
    BY <1>2 DEF Meant
  <2>2. PICK i : i = ptr.at
    OBVIOUS
  <2>3. items'[i] = items[i]
    BY <2>1, <2>2, FilledStep
  <2> QED BY <1>b, <1>2, <2>2, <2>3 DEF Name
<1> QED BY <1>b, <1>1, <1>2

\* A thread's key is its own, and is looked up, or is gone with what it was for.
LEMMA KeyStep ==
  ASSUME Base, Next, ~Stops
  PROVE  \A t \in Threads : key'[t] = key[t] \/ GetKey(t) \/ Ends(t)
<1>a. key \in [Threads -> KeyType]
  BY DEF Base, TextTypes
<1>1. Quiet => key' = key
  BY QuietLists
<1>2. GetUsers \/ Moved \/ UpdateNickname \/ ClearMessages => key' = key
  BY DEF GetUsers, Moved, UpdateNickname, ClearMessages, localVars
<1>3. \A name, steps : Command(name, steps) => key' = key
  BY DEF Command
<1>4. \A name : Chat(name) \/ Nick(name) \/ Clear \/ Help => key' = key
  BY <1>3, Zenon DEF Chat, Nick, Clear, Help
<1>5. \A p \in Peers : Receive(p) => key' = key
  BY DEF Receive
<1>6. \A t \in Threads : SaveKey(t) \/ SaveMessage(t) \/ OnList(t) => key' = key
  BY DEF SaveKey, SaveMessage, OnList, SearchUser, StoreUser, CountUser, SelectLast, UseList,
         localVars
<1>7. \A t \in Threads : GetKey(t) => \E k : key' = [key EXCEPT ![t] = k]
  BY DEF GetKey, Statement, Runs, KeyExchange
<1>8. \A t \in Threads :
        Closes(t) => key' = key \/ (Ends(t) /\ key' = [key EXCEPT ![t] = NoKey])
  BY DEF Closes, GetMessages, EndsEarly, Ends, localVars
<1> QED BY <1>a, <1>1, <1>2, <1>4, <1>5, <1>6, <1>7, <1>8, Steps DEF Threads

RightRow(row) ==
  row.name \in Peers => /\ row.rk \in {NoKey, Key("recv", row.name)}
                        /\ row.sk \in {NoKey} \cup Mine("send", row.name)

\* What is saved is right, and the rows that are kept are.
LEMMA RowKeysStep ==
  ASSUME MeantInv, RowKeys, KeyAtHand, [Next]_vars
  PROVE  RowKeys'
<1>a. Base /\ ListTypes /\ StateTypes /\ TypedOrNot /\ rows \in Seq(Row)
      /\ key \in [Threads -> KeyType]
  BY DEF MeantInv, ListInv, Base, ListTypes, TextTypes
<1>b. \A i \in 1..Len(rows) : RightRow(rows[i])
  BY DEF RowKeys, RightRow
<1>1. CASE rows' = rows
  BY <1>1 DEF RowKeys
<1>2. Stops \/ UNCHANGED vars => rows' = rows
  BY DEF Stops, vars, dbVars
<1>3. CASE UpdateNickname
  <2>1. \/ rows' = rows
        \/ \E nick \in Nicks :
             rows' = [i \in 1..Len(rows) |-> IF i \in RowsOf(who["ui"])
                        THEN [rows[i] EXCEPT !.nick = nick] ELSE rows[i]]
    BY <1>3 DEF UpdateNickname, Statement, Runs
  <2>2. ASSUME NEW nick \in Nicks,
               rows' = [i \in 1..Len(rows) |-> IF i \in RowsOf(who["ui"])
                          THEN [rows[i] EXCEPT !.nick = nick] ELSE rows[i]]
        PROVE  RowKeys'
    <3>1. Len(rows) \in Nat /\ \A i \in 1..Len(rows) : rows[i] \in Row
      BY <1>a
    <3>2. Len(rows') = Len(rows)
      BY <2>2, <3>1
    <3>3. \A i \in 1..Len(rows) : /\ [rows[i] EXCEPT !.nick = nick].name = rows[i].name
                                  /\ [rows[i] EXCEPT !.nick = nick].rk = rows[i].rk
                                  /\ [rows[i] EXCEPT !.nick = nick].sk = rows[i].sk
      BY <3>1 DEF Row
    <3>4. \A i \in 1..Len(rows) : /\ rows'[i].name = rows[i].name
                                  /\ rows'[i].rk = rows[i].rk /\ rows'[i].sk = rows[i].sk
      BY <2>2, <3>3
    <3>5. \A i \in 1..Len(rows) : RightRow(rows'[i])
      BY <1>b, <3>4 DEF RightRow
    <3> QED BY <3>2, <3>5 DEF RowKeys, RightRow
  <2> QED BY <1>1, <2>1, <2>2
<1>4. ASSUME NEW t \in Threads, SaveKey(t), Next, ~Stops
      PROVE  RowKeys'
  <2>1. PICK row : row = NewRow(Direction(t), Name(t), key[t])
    OBVIOUS
  <2>2. row \in Row
    BY <1>a, <2>1, NameTyped, NewRowTyped DEF Threads
  <2>3. RightRow(row)
    <3>1. CASE t = "rx"
      <4>1. todo["rx"] = RxSave
        BY <1>a, <1>4, <3>1, RxActions DEF Goto
      <4>2. key["rx"] = Key("recv", who["rx"]) /\ Name("rx") = who["rx"]
        BY <4>1 DEF KeyAtHand, Name
      <4>3. row.name = who["rx"] /\ row.rk = Key("recv", who["rx"]) /\ row.sk = NoKey
        BY <2>1, <3>1, <4>2 DEF NewRow, Direction
      <4> QED BY <4>3 DEF RightRow
    <3>2. CASE t = "ui"
      <4>1. todo["ui"] \in {EnterSave, ChatSave}
        BY <1>a, <1>4, <3>2, UiActions DEF Goto
      <4>2. row.name = Name("ui") /\ row.rk = NoKey /\ row.sk = key["ui"]
        BY <2>1, <3>2 DEF NewRow, Direction
      <4>3. Name("ui") \in Peers => key["ui"] \in Mine("send", Name("ui"))
        <5>1. todo["ui"] = EnterSave /\ ptr.at = -1 => Name("ui") = Garbage
          BY <1>a, NameIs, UiKindOf
        <5> QED BY <4>1, <5>1, ZenAssumption DEF KeyAtHand, Mine
      <4> QED BY <4>2, <4>3 DEF RightRow
    <3> QED BY <3>1, <3>2 DEF Threads
  <2>4. rows' = rows \/ rows' = Replaced(row)
    BY <1>4, <2>1 DEF SaveKey, Statement, Runs
  <2>5. \A i \in 1..Len(Replaced(row)) : RightRow(Replaced(row)[i])
    BY <1>a, <1>b, <2>2, <2>3, ReplacedTyped
  <2>6. CASE rows' = Replaced(row)
    <3>1. \A i \in 1..Len(rows') : RightRow(rows'[i])
      BY <2>5, <2>6
    <3> QED BY <3>1 DEF RowKeys, RightRow
  <2> QED BY <1>1, <2>4, <2>6
<1> QED BY <1>1, <1>2, <1>3, <1>4, MessagesStep

\* A key at hand is the key of the name at hand.
LEMMA KeyAtHandStep ==
  ASSUME MeantInv, RowKeys, KeyAtHand, [Next]_vars
  PROVE  KeyAtHand'
<1>a. /\ Base /\ Unused /\ TypedOrNot /\ Meant /\ ListTypes /\ StateTypes /\ TextTypes /\ TodoTypes
      /\ key \in [Threads -> KeyType] /\ who \in [Threads -> Names]
  BY DEF MeantInv, ListInv, Base, ListTypes, TextTypes, StateTypes, TodoTypes
<1>b. /\ <<>> \notin {EnterSave, ChatSave, EnterSend} /\ <<>> \notin {RxSave, RxDecrypt}
      /\ <<>> # <<"unlock">>
  <2>1. <<>> \notin Receiving /\ {RxSave, RxDecrypt} \subseteq Receiving
    BY RxPlaces, Places
  <2> QED BY <2>1, UiKinds, UiKindOf
<1>1. CASE UNCHANGED vars
  BY <1>1 DEF vars, KeyAtHand, Name, localVars, uiVars, listVars
<1>2. CASE Stops
  <2>1. todo'["ui"] = <<>> /\ todo'["rx"] = <<>>
    BY <1>2 DEF Stops, Each, Threads
  <2> QED BY <1>b, <2>1 DEF KeyAtHand
<1>3. CASE Next /\ ~Stops
  <2>1. ASSUME todo'["rx"] \in {RxSave, RxDecrypt}
        PROVE  key'["rx"] = Key("recv", who'["rx"])
    <3>0. ~Ends("rx")
      BY <1>a, <1>b, <2>1 DEF Ends, TodoTypes, Threads
    <3>1. ~ \E p \in Peers : Receive(p)
      <4>1. \A p \in Peers : Receive(p) => todo'["rx"] = RxKey
        BY <1>a, RxActions, GotoRx, Places
      <4> QED BY <2>1, <4>1, KeyPlaces
    <3>2. who'["rx"] = who["rx"]
      BY <1>3, <1>a, <3>0, <3>1, WhoStep DEF Threads
    <3>3. CASE todo'["rx"] = todo["rx"] \/ (SaveKey("rx") /\ todo["rx"] = RxSave)
      <4>1. ~GetKey("rx")
        <5>1. GetKey("rx") => todo["rx"] = RxKey /\ todo'["rx"] # todo["rx"]
          BY <1>a, RxActions, GotoRx, Places, KeyPlaces DEF Goto
        <5> QED BY <3>3, <5>1, KeyPlaces
      <4>2. key'["rx"] = key["rx"]
        BY <1>3, <1>a, <3>0, <4>1, KeyStep DEF Threads
      <4>3. key["rx"] = Key("recv", who["rx"])
        BY <2>1, <3>3 DEF KeyAtHand
      <4> QED BY <3>2, <4>2, <4>3
    <3>4. CASE /\ GetKey("rx") /\ todo["rx"] = RxKey
               /\ \E k : /\ key' = [key EXCEPT !["rx"] = k]
                         /\ \/ k = Derived("recv", Name("rx"))
                            \/ k = Stored("recv", Name("rx")) /\ k # NoKey
      <4>1. who["rx"] \in Peers /\ Name("rx") = who["rx"]
        BY <1>a, <3>4, Places DEF TextTypes, Name
      <4>2. /\ Derived("recv", Name("rx")) = Key("recv", who["rx"])
            /\ Stored("recv", Name("rx")) \in {NoKey, Key("recv", who["rx"])}
        BY <1>a, <4>1, StoredRight DEF Derived
      <4> QED BY <1>a, <3>2, <3>4, <4>2 DEF Threads
    <3> QED BY <1>3, <1>a, <2>1, <3>3, <3>4, RxKeyArrivals
  <2>2. todo'["rx"] # <<"unlock">>
    BY <1>3, <1>a, RxKeyArrivals DEF KeyAtHand
  <2>3. ASSUME todo'["ui"] \in {EnterSave, ChatSave}
        PROVE  \/ key'["ui"] = Key("send", Garbage)
               \/ todo'["ui"] = EnterSave /\ ptr'.at = -1
               \/ Name("ui")' \in Peers /\ key'["ui"] = Key("send", Name("ui")')
    <3>1. CASE GetKey("ui") /\ key' = [key EXCEPT !["ui"] = Derived("send", Name("ui"))]
      <4>1. key'["ui"] = Derived("send", Name("ui"))
        BY <1>a, <3>1 DEF Threads
      <4>2. Name("ui")' = Name("ui")
        BY <3>1 DEF GetKey, Statement, Name, listVars
      <4> QED BY <4>1, <4>2 DEF Derived
    <3>2. CASE todo'["ui"] = todo["ui"]
      <4>1. key'["ui"] = key["ui"] /\ who'["ui"] = who["ui"]
        <5>1. ~Ends("ui")
          BY <1>a, <1>b, <2>3 DEF Ends, TodoTypes, Threads
        <5>2. ~GetKey("ui")
          <6>1. GetKey("ui") => todo["ui"] \in {EnterText, ChatKey}
            BY <1>a, UiActions DEF Goto
          <6> QED BY <2>3, <3>2, <6>1, KeyPlaces, UiKinds, UiKindOf
        <5>3. ~Commanded
          <6>1. Commanded => todo["ui"] = <<>>
            BY DEF Commanded, Clear, Help, Chat, Nick, Command, Begins
          <6> QED BY <1>b, <2>3, <3>2, <6>1
        <5> QED BY <1>3, <1>a, <5>1, <5>2, <5>3, KeyStep, WhoStep DEF Threads
      <4>2. CASE todo["ui"] = EnterSave
        <5>1. /\ \/ key["ui"] = Key("send", Garbage)
                 \/ ptr.at = -1
                 \/ Name("ui") \in Peers /\ key["ui"] = Key("send", Name("ui"))
          BY <4>2 DEF KeyAtHand
        <5>2. \/ Name("ui")' = Name("ui") \/ ptr'.at = -1 \/ Name("ui") = Garbage
          BY <1>3, <1>a, <3>2, <4>2, NameStep, UiKindOf
        <5>3. ptr.at = -1 => ptr'.at = -1
          BY <1>3, <1>a, <3>2, <4>2, TypingKeeps, UiKindOf
        <5> QED BY <3>2, <4>1, <4>2, <5>1, <5>2, <5>3, ZenAssumption
      <4>3. CASE todo["ui"] = ChatSave
        <5>1. todo["ui"] # EnterSave /\ ~InEntry
          BY <4>3, UiKinds, UiKindOf DEF InEntry
        <5>2. ptr = NoPtr
          BY <1>a, <5>1 DEF TypedOrNot
        <5>3. ptr' = NoPtr
          <6>1. ~Enter /\ ~Overwritten
            BY <1>b, <4>3, <5>2 DEF Enter, Overwritten, Begins
          <6> QED BY <1>3, <5>2, <6>1, ModeOf
        <5>4. Name("ui")' = Name("ui")
          BY <4>1, <5>2, <5>3 DEF Name
        <5>5. \/ key["ui"] = Key("send", Garbage)
              \/ Name("ui") \in Peers /\ key["ui"] = Key("send", Name("ui"))
          BY <4>3, <5>1 DEF KeyAtHand
        <5> QED BY <4>1, <5>4, <5>5
      <4> QED BY <2>3, <3>2, <4>2, <4>3
    <3> QED BY <1>3, <1>a, <2>3, <3>1, <3>2, UiKeyArrivals
  <2>4. ASSUME todo'["ui"] = EnterSend, Garbage \notin input'.meant, Name("ui")' \in Peers
        PROVE  key'["ui"] \in Mine("send", Name("ui")')
    <3>0. todo["ui"] \in Typing
      <4>1. ~Enter
        <5>1. Enter => todo'["ui"] = EnterText
          BY <1>a, UiActions, GotoUi, Places
        <5> QED BY <2>4, <5>1, KeyPlaces
      <4> QED BY <1>3, <1>a, <2>4, <4>1, TypingStep, UiKindOf
    <3>1. input' = input
      BY <1>3, <1>a, <2>4, <3>0, TypingKeeps, UiKindOf
    <3>2. Name("ui") = Name("ui")'
      <4>1. Name("ui")' \in {Name("ui"), Garbage}
        BY <1>3, <1>a, <2>4, <3>0, <3>1, NameKept, UiKindOf
      <4> QED BY <2>4, <4>1, ZenAssumption
    <3>3. ~Ends("ui")
      BY <1>a, <1>b, <2>4 DEF Ends, TodoTypes, Threads
    <3>4. CASE todo["ui"] = EnterSend \/ (SaveKey("ui") /\ todo["ui"] = EnterSave)
      <4>1. ~GetKey("ui")
        <5>1. GetKey("ui") => todo["ui"] \in {EnterText, ChatKey}
          BY <1>a, UiActions DEF Goto
        <5> QED BY <3>4, <5>1, KeyPlaces, UiKinds, UiKindOf
      <4>2. key'["ui"] = key["ui"]
        BY <1>3, <1>a, <3>3, <4>1, KeyStep DEF Threads
      <4>3. todo["ui"] = EnterSave /\ ptr.at = -1 => Name("ui") = Garbage
        BY <1>a, NameIs, UiKindOf
      <4>4. key["ui"] \in Mine("send", Name("ui"))
        BY <2>4, <3>1, <3>2, <3>4, <4>3, ZenAssumption DEF KeyAtHand, Mine
      <4> QED BY <3>2, <4>2, <4>4
    <3>5. CASE /\ GetKey("ui") /\ Stored("send", Name("ui")) # NoKey
               /\ key' = [key EXCEPT !["ui"] = Stored("send", Name("ui"))]
      <4>1. Stored("send", Name("ui")) \in Mine("send", Name("ui"))
        BY <1>a, <2>4, <3>2, <3>5, StoredRight
      <4> QED BY <1>a, <3>2, <3>5, <4>1 DEF Threads
    <3> QED BY <1>3, <1>a, <2>4, <3>4, <3>5, UiKeyArrivals
  <2> QED BY <2>1, <2>2, <2>3, <2>4 DEF KeyAtHand
<1> QED BY <1>1, <1>2, <1>3

\* Every key that is stored or used to send is the peer's and of its direction, or was
\* made of a name that is no key (save_sendkey, save_receivekey, client_kx): what each
\* thread has at hand says so between its call that finds a key and the one that needs it.
KeysInv == MeantInv /\ RowKeys /\ KeyAtHand

\* So they are throughout.
LEMMA KeysHold == Spec => []KeysInv
<1>1. Init => RowKeys /\ KeyAtHand
  <2>1. ASSUME Init PROVE RowKeys /\ KeyAtHand
    <3>1. todo["ui"] = <<>> /\ todo["rx"] = <<>> /\ rows = <<>>
      BY <2>1 DEF Init, Each, Threads
    <3>2. /\ <<>> \notin {EnterSave, ChatSave, EnterSend} /\ <<>> \notin {RxSave, RxDecrypt}
          /\ <<>> # <<"unlock">>
      BY DEF EnterSave, ChatSave, EnterSend, RxSave, RxDecrypt
    <3> QED BY <3>1, <3>2 DEF RowKeys, KeyAtHand
  <2> QED BY <2>1
<1>2. MeantInv /\ RowKeys /\ KeyAtHand /\ [Next]_vars => RowKeys' /\ KeyAtHand'
  BY RowKeysStep, KeyAtHandStep
<1> QED BY <1>1, <1>2, MeantHolds, PTL DEF Spec, KeysInv

\* The database holds for each peer that peer's keys, each in the column of its direction,
\* and what is sent to a peer is sent with a key of that peer's, or with one made of a name
\* that was no key (get_panel_content, receive_worker, save_sendkey, save_receivekey).
THEOREM KeysCorrect == Spec => []RightKeys
<1> DEFINE SentKeys == \A s \in packets : s.to \in Peers /\ Garbage \notin s.meant =>
                                         s.key \in Mine("send", s.to)
<1>1. Init => SentKeys
  BY DEF Init
<1>2. ASSUME KeysInv, SentKeys, [Next]_vars
      PROVE  SentKeys'
  <2>1. CASE packets' = packets
    BY <1>2, <2>1
  <2>2. CASE Next /\ ~Stops /\ Send /\ \E ok \in BOOLEAN : packets' = packets \cup {Packet(ok)}
    <3>1. todo["ui"] = EnterSend
      BY <1>2, <2>2, SendAt DEF KeysInv, MeantInv, ListInv, Base
    <3>2. Name("ui") \in Peers /\ Garbage \notin input.meant =>
            key["ui"] \in Mine("send", Name("ui"))
      BY <1>2, <3>1 DEF KeysInv, KeyAtHand
    <3> QED BY <1>2, <2>2, <3>2 DEF Packet
  <2>3. Stops \/ UNCHANGED vars => packets' = packets
    BY DEF Stops, vars, historyVars
  <2> QED BY <1>2, <2>1, <2>2, <2>3, PacketsStep
<1>3. KeysInv /\ SentKeys => RightKeys
  BY DEF KeysInv, RowKeys, RightKeys
<1> HIDE DEF SentKeys
<1> QED BY <1>1, <1>2, <1>3, KeysHold, PTL DEF Spec

\* What is about to be saved went into a packet.
LEMMA PacketMadeStep ==
  ASSUME MeantInv, PacketMade, [Next]_vars
  PROVE  PacketMade'
<1>a. Base /\ Unused /\ TypedOrNot /\ StateTypes /\ TodoTypes
  BY DEF MeantInv, ListInv, Base, StateTypes, TodoTypes
<1>1. CASE UNCHANGED vars
  BY <1>1 DEF vars, PacketMade, Name, localVars, uiVars, listVars, historyVars
<1>2. CASE Stops
  <2>1. todo'["ui"] = <<>> /\ <<>> # EnterStore
    BY <1>2 DEF Stops, Each, Threads, EnterStore
  <2> QED BY <2>1 DEF PacketMade
<1>3. CASE Next /\ ~Stops /\ todo'["ui"] = EnterStore
  <2>1. packets \subseteq packets'
    BY <1>3, PacketsStep
  <2>2. CASE todo["ui"] = EnterStore
    <3>1. /\ text'["ui"] = text["ui"] /\ (ptr.at = -1 => ptr'.at = -1)
          /\ Name("ui")' = Name("ui") \/ ptr'.at = -1 \/ Name("ui") = Garbage
      BY <1>3, <1>a, <2>2, TypingKeeps, NameStep, UiKindOf
    <3>2. PICK s \in packets : s.text = text["ui"] /\ (s.to \in {Garbage, Name("ui")} \/ ptr.at = -1)
      BY <2>2 DEF PacketMade
    <3> QED BY <2>1, <3>1, <3>2 DEF PacketMade
  <2>3. CASE Send
    <3>1. /\ \E ok \in BOOLEAN : Packet(ok) \in packets'
          /\ UNCHANGED <<items, ptr, who, text>>
      BY <1>3, <2>3 DEF Send, localVars, listVars, uiVars
    <3>2. \A ok : Packet(ok).text = text["ui"] /\ Packet(ok).to = Name("ui")
      BY DEF Packet
    <3>3. text'["ui"] = text["ui"] /\ Name("ui")' = Name("ui")
      BY <3>1 DEF Name
    <3> QED BY <3>1, <3>2, <3>3 DEF PacketMade
  <2> QED BY <1>3, <1>a, <2>2, <2>3, UiKeyArrivals
<1> QED BY <1>1, <1>2, <1>3 DEF PacketMade

\* A text that is in the database for a user went into a packet for that same user, sent or
\* not, unless the array moved between the two (get_panel_content, save_message).
THEOREM SavedCorrect == Spec => []SavedAsAddressed
<1>1. Init => PacketMade /\ SavedAsAddressed
  <2>1. Init => todo["ui"] # EnterStore /\ msgs = {}
    BY DEF Init, Each, Threads, EnterStore
  <2> QED BY <2>1 DEF PacketMade, SavedAsAddressed
<1>2. ASSUME MeantInv, PacketMade, SavedAsAddressed, [Next]_vars
      PROVE  SavedAsAddressed'
  <2>a. Base /\ StateTypes /\ TextTypes /\ TypedOrNot
    BY <1>2 DEF MeantInv, ListInv, Base
  <2>1. packets \subseteq packets'
    <3>1. Stops \/ UNCHANGED vars => packets' = packets
      BY DEF Stops, vars, historyVars
    <3> QED BY <1>2, <3>1, PacketsStep
  <2>2. CASE msgs' \subseteq msgs
    BY <1>2, <2>1, <2>2 DEF SavedAsAddressed
  <2>3. CASE SaveMessage("rx") /\ msgs' = msgs \cup {Saving("rx")}
    <3>1. Saving("rx").author # Me
      <4>1. who["rx"] \in Peers
        BY <2>a, <2>3, RxActions, Places DEF TextTypes, Goto
      <4> QED BY <4>1, ZenAssumption DEF Saving, Message, Names
    <3> QED BY <1>2, <2>1, <2>3, <3>1 DEF SavedAsAddressed
  <2>4. CASE SaveMessage("ui") /\ msgs' = msgs \cup {Saving("ui")}
    <3>1. todo["ui"] = EnterStore
      BY <2>a, <2>4, UiActions DEF Goto
    <3>2. PICK s \in packets : s.text = text["ui"] /\ (s.to \in {Garbage, Name("ui")} \/ ptr.at = -1)
      BY <1>2, <3>1 DEF PacketMade
    <3>3. ptr.at = -1 => Name("ui") = Garbage
      BY <2>a, <3>1, NameIs, UiKindOf
    <3>4. Saving("ui").to = Name("ui") /\ Saving("ui").text = text["ui"]
      BY DEF Saving, Message, Recipient
    <3> QED BY <1>2, <2>1, <2>4, <3>2, <3>3, <3>4 DEF SavedAsAddressed
  <2>5. Stops \/ UNCHANGED vars => msgs' = msgs
    BY DEF Stops, vars, dbVars
  <2> QED BY <1>2, <2>2, <2>3, <2>4, <2>5, MessagesStep DEF Threads
<1>3. MeantInv /\ PacketMade /\ [Next]_vars => PacketMade'
  BY PacketMadeStep
<1> QED BY <1>1, <1>2, <1>3, MeantHolds, PTL DEF Spec

----------------------------------------------------------------------------
(* What is received.                                                        *)

\* What is in the database, or need not be, remains so.
LEMMA StoreStep ==
  ASSUME Next, ~Stops, NEW n, InStore(n)
  PROVE  InStore(n)'
<1>1. CASE UNCHANGED <<msgs, gone>>
  BY <1>1 DEF InStore
<1>2. CASE ClearMessages
  BY <1>2 DEF ClearMessages, Statement, Runs, InStore
<1>3. CASE \E t \in Threads : SaveMessage(t)
  BY <1>3 DEF SaveMessage, Statement, Runs, InStore
<1>4. Quiet => UNCHANGED <<msgs, gone>>
  BY QuietLists DEF dbVars
<1>5. GetUsers \/ Moved \/ UpdateNickname => UNCHANGED <<msgs, gone>>
  BY DEF GetUsers, Moved, UpdateNickname, dbVars, historyVars
<1>6. \A name, steps : Command(name, steps) => UNCHANGED <<msgs, gone>>
  BY DEF Command, dbVars, historyVars
<1>7. \A name : Chat(name) \/ Nick(name) \/ Clear \/ Help => UNCHANGED <<msgs, gone>>
  BY <1>6, Zenon DEF Chat, Nick, Clear, Help
<1>8. \A p \in Peers : Receive(p) => UNCHANGED <<msgs, gone>>
  BY DEF Receive, dbVars, historyVars
<1>9. \A t \in Threads : GetKey(t) \/ SaveKey(t) \/ OnList(t) \/ Closes(t) =>
        UNCHANGED <<msgs, gone>>
  BY DEF GetKey, SaveKey, OnList, SearchUser, StoreUser, CountUser, SelectLast, UseList, Closes,
         GetMessages, EndsEarly, dbVars, historyVars
<1> QED BY <1>1, <1>2, <1>3, <1>4, <1>5, <1>7, <1>8, <1>9, Steps

\* A message is at hand until it is in the database.
LEMMA KeptStep ==
  ASSUME KeysInv, Kept, [Next]_vars
  PROVE  Kept'
<1> DEFINE After == {<<>>, RxSearch, RxStore, RxCount, RxLast, RxShow}
           Before == {RxKey, RxSave, RxDecrypt, RxKeep, <<"unlock">>, <<"exited">>}
<1>a. /\ Base /\ StateTypes /\ TodoTypes /\ KeyAtHand /\ got \in Nat
      /\ text \in [Threads -> Text]
  BY DEF KeysInv, MeantInv, ListInv, Base, StateTypes, TodoTypes, TextTypes
<1>b. Before \cap After = {}
  <2>1. \A l \in {<<"unlock">>, <<"exited">>} : l \notin Receiving /\ l # <<>>
    BY RxPlaces
  <2>2. \A l \in {RxKey, RxSave, RxDecrypt, RxKeep} : l # <<>>
    BY RxPlaces, Places
  <2>3. \A l \in {RxKey, RxSave, RxDecrypt, RxKeep} :
          l \notin {RxSearch, RxStore, RxCount, RxLast, RxShow}
    BY DEF RxKey, RxSave, RxDecrypt, RxKeep, RxSearch, RxStore, RxCount, RxLast, RxShow
  <2>4. \A l \in {RxSearch, RxStore, RxCount, RxLast, RxShow} : l \in Receiving
    BY Places
  <2> QED BY <2>1, <2>2, <2>3, <2>4
<1>1. CASE UNCHANGED vars
  BY <1>1 DEF vars, Kept, InStore, dbVars, localVars, historyVars, worldVars
<1>2. CASE Stops
  <2>1. got' = got /\ msgs' = msgs /\ gone' = gone \cup ({text["rx"]} \ {NoText})
    BY <1>2 DEF Stops, worldVars, dbVars
  <2>2. \A n \in 1..got : n # NoText
    BY <1>a, ZenAssumption
  <2>3. \A n \in 1..got' : InStore(n)'
    BY <2>1, <2>2 DEF Kept, InStore
  <2> QED BY <2>3 DEF Kept
<1>3. CASE Next /\ ~Stops
  <2>0. \A n : InStore(n) => InStore(n)'
    BY <1>3, StoreStep
  <2>1. CASE \E p \in Peers : Receive(p)
    <3>1. /\ got' = got + 1 /\ text' = [text EXCEPT !["rx"] = got + 1]
          /\ todo["rx"] = <<>> /\ todo'["rx"] = RxKey
      BY <1>a, <2>1, RxActions, GotoRx, Places DEF Receive, Goto
    <3>2. \A n \in 1..got : InStore(n)'
      BY <2>0, <3>1 DEF Kept
    <3>3. text'["rx"] = got + 1
      BY <1>a, <3>1 DEF Threads
    <3>4. todo'["rx"] \notin After
      BY <1>b, <3>1
    <3>5. \A n \in 1..got' : n \in 1..got \/ n = got + 1
      BY <1>a, <3>1
    <3>6. \A n \in 1..got' : InStore(n)' \/ text'["rx"] = n
      BY <3>2, <3>3, <3>5
    <3> QED BY <3>4, <3>6 DEF Kept
  <2>2. ASSUME \A n \in 1..got : InStore(n)', got' = got
        PROVE  Kept'
    BY <2>2 DEF Kept
  <2>3. CASE Closes("rx") \/ SaveMessage("rx")
    <3>1. got' = got
      BY <2>3 DEF Closes, GetMessages, EndsEarly, SaveMessage, Statement, Runs, worldVars
    <3>2. CASE Closes("rx")
      <4>1. todo["rx"] = RxShow
        BY <1>a, <3>2, RxActions DEF Closes, Goto, KeyAtHand
      <4> QED BY <2>0, <2>2, <3>1, <4>1 DEF Kept
    <3>3. CASE SaveMessage("rx")
      <4>1. \/ gone' = gone \cup {text["rx"]}
            \/ msgs' = msgs \cup {Message(who["rx"], Me, text["rx"])}
        BY <3>3 DEF SaveMessage, Statement, Runs, Saving
      <4>2. PICK m : m = text["rx"]
        OBVIOUS
      <4>3. InStore(m)'
        <5>1. CASE gone' = gone \cup {text["rx"]}
          BY <4>2, <5>1 DEF InStore
        <5>2. CASE msgs' = msgs \cup {Message(who["rx"], Me, text["rx"])}
          <6>1. PICK x : x = Message(who["rx"], Me, text["rx"])
            OBVIOUS
          <6>2. x.to = Me /\ x.text = m
            BY <4>2, <6>1 DEF Message
          <6>3. x \in msgs'
            BY <5>2, <6>1
          <6> QED BY <6>2, <6>3 DEF InStore
        <5> QED BY <4>1, <5>1, <5>2
      <4>4. \A n \in 1..got : InStore(n) \/ n = m
        BY <4>2 DEF Kept
      <4> QED BY <2>0, <2>2, <3>1, <4>3, <4>4
    <3> QED BY <2>3, <3>2, <3>3
  <2>4. CASE ~(\E p \in Peers : Receive(p)) /\ ~Closes("rx") /\ ~SaveMessage("rx")
    <3>1. got' = got /\ text'["rx"] = text["rx"]
      BY <1>3, <1>a, <2>4, TextStep DEF Threads
    <3>2. todo'["rx"] \in After => todo["rx"] \in After
      <4>1. ASSUME todo'["rx"] # todo["rx"]
            PROVE  todo'["rx"] \in Before \/ todo["rx"] \in After
        <5>1. ASSUME NEW from, NEW to \in RxTodo, Goto("rx", from, to)
              PROVE  todo["rx"] = from /\ todo'["rx"] = to
          BY <1>a, <5>1, GotoRx DEF Goto
        <5>2. Decrypt \/ GetKey("rx") \/ SaveKey("rx") \/ ReceiveEnd => todo'["rx"] \in Before
          BY <1>3, <1>a, <5>1, RxActions, Places
        <5>3. SearchUser("rx") \/ StoreUser("rx") \/ CountUser("rx") \/ SelectLast("rx") =>
                todo["rx"] \in After
          BY <1>a, <5>1, RxActions, Places
        <5> QED BY <1>3, <1>a, <2>4, <4>1, <5>2, <5>3, RxHeads DEF Closes
      <4> QED BY <1>b, <4>1
    <3>3. \A n \in 1..got : InStore(n)' \/ text'["rx"] = n
      BY <2>0, <3>1 DEF Kept
    <3>4. todo'["rx"] \in After => \A n \in 1..got : InStore(n)'
      BY <2>0, <3>2 DEF Kept
    <3> QED BY <3>1, <3>3, <3>4 DEF Kept
  <2> QED BY <2>1, <2>3, <2>4
<1> QED BY <1>1, <1>2, <1>3

\* A message received is in the database, or at hand, or lost to a failed statement, to
\* /clear or to the end of the process: whatever became of the keys that the database
\* had, the receive thread's own decrypts it (receive_worker).
THEOREM KeptCorrect == Spec => []NothingDropped
<1>1. Init => Kept
  <2>1. Init => got = 0
    BY DEF Init
  <2>2. \A n \in 1..0 : FALSE
    OBVIOUS
  <2> QED BY <2>1, <2>2 DEF Kept
<1>2. KeysInv /\ Kept /\ [Next]_vars => Kept'
  BY KeptStep
<1>3. Kept => NothingDropped
  BY DEF Kept, NothingDropped, InStore
<1> QED BY <1>1, <1>2, <1>3, KeysHold, PTL DEF Spec
=============================================================================
