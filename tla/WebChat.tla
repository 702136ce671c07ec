------------------------------ MODULE WebChat ------------------------------
(***************************************************************************)
(* The page of the web client, script.js: what it keeps in localStorage    *)
(* across reloads, what it has in the DOM and in its variables, and its    *)
(* event handlers, each of which runs to completion.  What happens on one  *)
(* socket is the subject of WebSession; here a socket is where it stands.  *)
(***************************************************************************)
EXTENDS Integers, Sequences, FiniteSets, Lists

CONSTANTS
  Names,        \* public keys
  Accounts,     \* those whose private key the person at the page has
  Peers,        \* those that write to the page or are added to its list
  NoName,       \* null
  Undef,        \* undefined, and "undefined", which a data attribute makes of it
  NoText,       \* an empty input field
  MaxTyped, MaxGot,        \* bounds: texts typed, messages received
  MaxButtons, MaxSockets   \* bounds: users listed and logins, per page load

ASSUME ChatAssumption ==
  /\ Accounts \subseteq Names /\ Peers \subseteq Names
  /\ NoName \notin Names /\ Undef \notin Names /\ NoName # Undef
  /\ MaxTyped \in Nat /\ MaxGot \in Nat /\ NoText \notin Nat
  /\ MaxButtons \in Nat /\ MaxSockets \in Nat

VARIABLES
  login,     \* localStorage "login": a remembered account
  users,     \* localStorage "users": in the order of its keys
  messages,  \* localStorage "messages"
  keypair,   \* the account in use
  form,      \* what is displayed: "none", "login", "signup" or "panels"
  fields,    \* the keys in the two forms
  sockets,   \* one per call of authenticate(), with its listeners
  buttons,   \* the div's of the list of users
  selectedUser,
  shown,     \* the messages div
  input,     \* the message field
  typed, got \* how many texts were typed, and messages received

storage == <<login, users, messages>>
loginVars == <<keypair, form, fields, sockets>>
chatVars == <<buttons, selectedUser, shown, input>>
counts == <<typed, got>>
vars == <<storage, loginVars, chatVars, counts>>

User    == [name : Names, shape : {"object", "string"}, renamed : BOOLEAN]
Button  == [user : Names \cup {Undef}, selected : BOOLEAN, unread : BOOLEAN]
Message == [from : Names, to : Names, text : Nat, out : BOOLEAN]
Socket  == [st : {"connecting", "open", "answered", "authenticated", "closed"},
            key : Names \cup {NoName}]

TypeOK ==
  /\ login \in Accounts \cup {NoName}
  /\ users \in Seq(User)
  /\ \A i, j \in 1..Len(users) : users[i].name = users[j].name => i = j
  /\ messages \in Seq(Message) /\ shown \in Seq(Message)
  /\ keypair \in Accounts \cup {NoName}
  /\ form \in {"none", "login", "signup", "panels"}
  /\ fields \in [{"login", "signup"} -> Accounts \cup {NoName}]
  /\ sockets \in Seq(Socket)
  /\ buttons \in Seq(Button)
  /\ selectedUser \in Names \cup {NoName, Undef}
  /\ input \in Nat \cup {NoText} /\ typed \in Nat /\ got \in Nat

----------------------------------------------------------------------------
(* Reading what is stored.                                                  *)

Stored(name) == {i \in 1..Len(users) : users[i].name = name}

\* showMessages: the stored messages between the account in use and a user.
Between(m, me, user) == (m.from = user /\ m.to = me) \/ (m.from = me /\ m.to = user)
Conversation(all, me, user) ==
  Picked(all, {i \in 1..Len(all) : Between(all[i], me, user)})

\* createUserDiv: the name of a user that is stored as a string is undefined.
Named(user) == IF user.shape = "object" THEN user.name ELSE Undef
NewButton(name) == [user |-> name, selected |-> FALSE, unread |-> FALSE]

----------------------------------------------------------------------------
(* Loading: sodium.onload on a fresh page.                                  *)

\* authenticate() adds a socket, and a listener to the button and the field.
Connecting == [st |-> "connecting", key |-> NoName]

LoadPage(remembered) ==
  /\ keypair' = remembered
  /\ form' = IF remembered = NoName THEN "login" ELSE "none"
  /\ fields' = [f \in {"login", "signup"} |-> NoName]
  /\ sockets' = IF remembered = NoName THEN <<>> ELSE <<Connecting>>
  /\ buttons' = [i \in 1..Len(users) |->
                   [NewButton(Named(users[i])) EXCEPT !.selected = (i = 1)]]
  /\ selectedUser' = IF users = <<>> THEN NoName ELSE Named(users[1])
  /\ shown' = IF users = <<>> THEN <<>>
              ELSE Conversation(messages, remembered, Named(users[1]))
  /\ input' = NoText
  /\ login' = remembered
  /\ UNCHANGED <<users, messages, counts>>

Reload  == LoadPage(login)
SignOut == form = "panels" /\ LoadPage(NoName)

\* The first load, with nothing stored.
Init ==
  /\ login = NoName /\ users = <<>> /\ messages = <<>>
  /\ keypair = NoName /\ form = "login"
  /\ fields = [f \in {"login", "signup"} |-> NoName]
  /\ sockets = <<>> /\ buttons = <<>> /\ selectedUser = NoName /\ shown = <<>>
  /\ input = NoText /\ typed = 0 /\ got = 0

----------------------------------------------------------------------------
(* The forms.                                                               *)

ShowSignup ==
  /\ form = "login" /\ form' = "signup"
  /\ UNCHANGED <<storage, keypair, fields, sockets, chatVars, counts>>

Cleared == [fields EXCEPT !["signup"] = NoName]
ShowLogin ==
  /\ form = "signup" /\ form' = "login"
  /\ fields' = Cleared
  /\ UNCHANGED <<storage, keypair, sockets, chatVars, counts>>

\* A new pair of keys goes into both forms.
Generate ==
  /\ form = "signup"
  /\ \E key \in Accounts : fields' = [f \in {"login", "signup"} |-> key]
  /\ UNCHANGED <<storage, keypair, form, sockets, chatVars, counts>>

\* Submit with keys that are typed or already there.  The form stays until a
\* socket is authenticated.
Login ==
  /\ form = "login" /\ Len(sockets) < MaxSockets
  /\ \E key \in Accounts, remember \in BOOLEAN :
       /\ fields' = [fields EXCEPT !["login"] = key]
       /\ login' = IF remember THEN key ELSE login
       /\ keypair' = key
       /\ sockets' = Append(sockets, Connecting)
  /\ UNCHANGED <<users, messages, form, chatVars, counts>>

----------------------------------------------------------------------------
(* The sockets, which the relay answers in any order or not at all.         *)

SocketStep(s, from, to) ==
  /\ sockets[s].st \in from
  /\ sockets' = [sockets EXCEPT ![s].st = to, ![s].key =
                   IF to = "answered" THEN keypair ELSE @]
  /\ UNCHANGED <<storage, keypair, fields, chatVars, counts>>

Open(s) == SocketStep(s, {"connecting"}, "open") /\ UNCHANGED form
Answer(s) == SocketStep(s, {"open"}, "answered") /\ UNCHANGED form
Authorised(s) == SocketStep(s, {"answered"}, "authenticated") /\ form' = "panels"
SocketCloses(s) ==
  SocketStep(s, {"connecting", "open", "answered", "authenticated"}, "closed")
  /\ UNCHANGED form

----------------------------------------------------------------------------
(* Sending.                                                                 *)

Type ==
  /\ form = "panels" /\ input = NoText /\ typed < MaxTyped
  /\ input' = typed + 1 /\ typed' = typed + 1
  /\ UNCHANGED <<storage, loginVars, buttons, selectedUser, shown, got>>

\* send() throws on a socket that is connecting, and the listeners after it go
\* on with the field as it is.  The first that does not throw empties it.
Listeners == {s \in 1..Len(sockets) : sockets[s].st # "connecting"}
TakersAll == Listeners                                 \* mutant: field not emptied
Takers == {s \in Listeners : \A r \in Listeners : s <= r}

\* What create_message_packet packs, and what is saved and shown of it.
Outgoing(text) == [from |-> keypair, to |-> selectedUser, text |-> text, out |-> TRUE]
saveMessage(some) == messages' = messages \o some
messageDiv(some) == shown' = shown \o some

\* A click on the send button, or the Enter key, which clicks it once for every
\* listener: the message is sent, shown and saved.  On a closed socket send()
\* does nothing.
ClickSend ==
  /\ form = "panels" /\ input # NoText
  /\ selectedUser \in Names /\ Takers # {}
  /\ LET copies == [s \in 1..Cardinality(Takers) |-> Outgoing(input)]
     IN  saveMessage(copies) /\ messageDiv(copies)
  /\ input' = NoText
  /\ UNCHANGED <<login, users, loginVars, buttons, selectedUser, typed, got>>

----------------------------------------------------------------------------
(* Receiving: the third branch of onmessage.  What is addressed to another  *)
(* account than the one in use does not decrypt.                            *)

\* document.querySelector: the first button of that name, and an exception, at
\* the end of the handler, if there is none.
Mark(list, name) ==
  [i \in 1..Len(list) |->
     IF list[i].user = name /\ \A j \in 1..(i - 1) : list[j].user # name
     THEN [list[i] EXCEPT !.unread = TRUE] ELSE list[i]]

NewUserNot(from) == <<>>                               \* mutant: not added
NewUser(from) ==
  IF Stored(from) # {} THEN <<>>
  ELSE <<[name |-> from, shape |-> "string", renamed |-> FALSE]>>

\* What parse_packet returns.
Incoming(from, text) == [from |-> from, to |-> keypair, text |-> text, out |-> FALSE]

Receive(s, from) ==
  /\ sockets[s].st = "authenticated" /\ sockets[s].key = keypair
  /\ got < MaxGot /\ got' = got + 1
  /\ Len(buttons) + Len(NewUser(from)) <= MaxButtons
  /\ LET m == Incoming(from, got + 1)
         listed == IF NewUser(from) = <<>> THEN buttons
                   ELSE Append(buttons, [NewButton(from) EXCEPT !.unread = TRUE])
     IN /\ saveMessage(<<m>>)
        /\ users' = users \o NewUser(from)
        /\ IF selectedUser = from
           THEN messageDiv(<<m>>) /\ buttons' = listed
           ELSE UNCHANGED shown /\ buttons' = Mark(listed, from)
  /\ UNCHANGED <<login, loginVars, selectedUser, input, typed>>

----------------------------------------------------------------------------
(* The list of users.                                                       *)

\* The click handler of a button: no other one stays selected, and the messages
\* of its user are shown.
KeptNot(list) == list                                  \* mutant: no loop
Kept(list) == [i \in 1..Len(list) |-> [list[i] EXCEPT !.selected = FALSE]]
SelectUserUnder(name, all) ==                          \* mutant: not emptied
  /\ selectedUser' = name
  /\ shown' = shown \o Conversation(all, keypair, name)
  /\ UNCHANGED input
SelectUser(name, all) ==
  /\ selectedUser' = name
  /\ shown' = Conversation(all, keypair, name)
  /\ UNCHANGED input

ClickUser(b) ==
  /\ form = "panels"
  /\ buttons' = [Kept(buttons) EXCEPT ![b].selected = TRUE, ![b].unread = FALSE]
  /\ SelectUser(buttons[b].user, messages)
  /\ UNCHANGED <<storage, loginVars, counts>>

\* The messages left: those of the *selected* user are taken out.
Left(all) ==
  Picked(all, {i \in 1..Len(all) : selectedUser \notin {all[i].from, all[i].to}})

Without(list, b) ==
  [i \in 1..(Len(list) - 1) |-> IF i < b THEN list[i] ELSE list[i + 1]]
StoredWithoutNot(name) == users                        \* mutant: not written back
StoredWithout(name) == Picked(users, (1..Len(users)) \ Stored(name))

\* The delete icon of a button: its handler, and then, as the click bubbles,
\* the handler of the button, which is no longer in the list.
DeleteChat(b) ==
  /\ form = "panels"
  /\ messages' = Left(messages)
  /\ users' = StoredWithout(buttons[b].user)
  /\ buttons' = Kept(Without(buttons, b))
  /\ SelectUser(buttons[b].user, Left(messages))
  /\ UNCHANGED <<login, loginVars, counts>>

\* The rename icon: a property of a string cannot be assigned, and a user that
\* is not stored makes the handler throw; then the click bubbles.
Renamed(name) ==
  [i \in 1..Len(users) |->
     IF users[i].name = name /\ users[i].shape = "object"
     THEN [users[i] EXCEPT !.renamed = TRUE] ELSE users[i]]
Rename(b) ==
  /\ form = "panels"
  /\ users' = Renamed(buttons[b].user)
  /\ buttons' = [Kept(buttons) EXCEPT ![b].selected = TRUE, ![b].unread = FALSE]
  /\ SelectUser(buttons[b].user, messages)
  /\ UNCHANGED <<login, messages, loginVars, counts>>

PutLast(entry) == Append(users, entry)                 \* mutant: no dictionary
Put(entry) ==
  IF Stored(entry.name) = {} THEN Append(users, entry)
  ELSE [i \in 1..Len(users) |-> IF users[i].name = entry.name THEN entry ELSE users[i]]

\* The add icon: a button in any case, and the user's entry written anew.
AddUser(name) ==
  /\ form = "panels" /\ Len(buttons) < MaxButtons
  /\ buttons' = Append(buttons, NewButton(name))
  /\ users' = Put([name |-> name, shape |-> "object", renamed |-> FALSE])
  /\ UNCHANGED <<login, messages, loginVars, selectedUser, shown, input, counts>>

----------------------------------------------------------------------------
Next ==
  \/ Reload \/ SignOut \/ ShowSignup \/ ShowLogin \/ Generate \/ Login
  \/ \E s \in 1..Len(sockets) :
       \/ Open(s) \/ Answer(s) \/ Authorised(s) \/ SocketCloses(s)
       \/ \E from \in Peers : Receive(s, from)
  \/ Type \/ ClickSend
  \/ \E b \in 1..Len(buttons) : ClickUser(b) \/ DeleteChat(b) \/ Rename(b)
  \/ \E name \in Peers : AddUser(name)

Spec == Init /\ [][Next]_vars

----------------------------------------------------------------------------
(* Properties.                                                              *)

\* What is shown is the end of the stored conversation with the selected user,
\* in order, whatever was received, sent, deleted, renamed or reloaded in
\* between (script.js 195-199, 236-244, 266-267, 343-345).
ShownIsConversation ==
  form = "panels" =>
    LET all == Conversation(messages, keypair, selectedUser)
        n == Len(all) - Len(shown)
    IN  n >= 0 /\ shown = SubSeq(all, n + 1, Len(all))

\* At most one user is highlighted, and it is the one who gets what is typed,
\* even with several buttons for one user (script.js 184-195, 511-513).
HighlightTruthful ==
  \A i \in 1..Len(buttons) : buttons[i].selected =>
    /\ buttons[i].user = selectedUser
    /\ \A j \in 1..Len(buttons) : buttons[j].selected => i = j

\* However many logins have added their listeners, and with the Enter key as
\* well as the button, a text is sent and saved at most once (261-278).
TypedOnce ==
  \A i, j \in 1..Len(messages) :
    messages[i].out /\ messages[j].out /\ messages[i].text = messages[j].text => i = j

\* The author of a message that is received becomes a stored user, and of one
\* that is stored stays one, also across reloads, until it is deleted (331-342).
KnownAuthors ==
  [][\A i \in 1..Len(messages') :
       LET m == messages'[i]
       IN  \/ m.out
           \/ \E u \in 1..Len(users') : users'[u].name = m.from
           \/ Stored(m.from) = {} /\ \E j \in 1..Len(messages) : messages[j] = m
           \/ \E b \in 1..Len(buttons) : buttons[b].user = m.from /\ DeleteChat(b)]_vars

\* 347: "If not viewing message from the user, notify user of unread message".
\* It is so for every user but one stored as a string (340), whom the next load of
\* the page lists as undefined: whatever was added, deleted and reloaded before.
Notified(from) ==
  \E b \in 1..Len(buttons') : buttons'[b].user = from /\ buttons'[b].unread
UnreadNotified ==
  [][LET from == messages'[Len(messages')].from IN
     got' # got /\ from # selectedUser
       /\ (\A i \in Stored(from) : users[i].shape = "object")
       => Notified(from)]_vars

\* The comment at 347 of every user, which the code does not keep: a user who has
\* written first is not notified of after the page was loaded again.
AlwaysNotified ==
  [][LET from == messages'[Len(messages')].from IN
     got' # got /\ from # selectedUser => Notified(from)]_vars
=============================================================================
