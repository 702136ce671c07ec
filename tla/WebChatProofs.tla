---------------------------- MODULE WebChatProofs ----------------------------
(***************************************************************************)
(* Theorems about the page of the web client, for every set of accounts    *)
(* and peers and every number of messages, users, logins and reloads.      *)
(***************************************************************************)
EXTENDS WebChat, InductionProofs, FiniteSetTheorems, SequenceTheorems

----------------------------------------------------------------------------
(* Conversations.                                                           *)

\* What is picked of the members of a set is a list of them.
LEMMA ConversationTyped ==
  ASSUME NEW all \in Seq(Message), NEW me, NEW user
  PROVE  Conversation(all, me, user) \in Seq(Message)
BY PickedIs, Zenon DEF Conversation

\* A message more in the store is one more in its conversation and in no other.
LEMMA ConversationAppend ==
  ASSUME NEW all \in Seq(Message), NEW m \in Message, NEW me, NEW user
  PROVE  Conversation(Append(all, m), me, user) =
           IF Between(m, me, user) THEN Append(Conversation(all, me, user), m)
           ELSE Conversation(all, me, user)
<1> DEFINE longer == Append(all, m)
           places == {i \in 1..Len(all) : Between(all[i], me, user)}
           wider == {i \in 1..Len(longer) : Between(longer[i], me, user)}
<1>1. /\ Len(all) \in Nat /\ Len(longer) = Len(all) + 1
      /\ longer[Len(all) + 1] = m
      /\ \A n \in 1..Len(all) : longer[n] = all[n]
  OBVIOUS
<1> HIDE DEF longer
<1>2. \A n \in 1..Len(all) : n \in wider <=> n \in places
  <2>1. \A n \in 1..Len(all) : n \in 1..Len(longer)
    BY <1>1
  <2> QED BY <1>1, <2>1, Zenon
<1>3. Len(all) + 1 \in wider <=> Between(m, me, user)
  <2>1. Len(all) + 1 \in 1..Len(longer)
    BY <1>1
  <2> QED BY <1>1, <2>1, Zenon
<1> HIDE DEF places, wider
<1>4. Picked(Append(all, m), wider) =
        IF Len(all) + 1 \in wider THEN Append(Picked(all, places), m)
        ELSE Picked(all, places)
  BY <1>2, PickedAppend
<1>5. Conversation(all, me, user) = Picked(all, places)
  BY Zenon DEF Conversation, places
<1>6. Conversation(Append(all, m), me, user) = Picked(Append(all, m), wider)
  BY Zenon DEF Conversation, wider, longer
<1> QED BY <1>3, <1>4, <1>5, <1>6

\* Nobody has a conversation before an account is in use.
LEMMA NoConversation ==
  ASSUME NEW all \in Seq(Message), NEW user
  PROVE  Conversation(all, NoName, user) = <<>>
<1> DEFINE places == {i \in 1..Len(all) : Between(all[i], NoName, user)}
<1>1. \A i \in 1..Len(all) : all[i].from \in Names /\ all[i].to \in Names
  <2>1. \A i \in 1..Len(all) : all[i] \in Message
    OBVIOUS
  <2> QED BY <2>1 DEF Message
<1>2. \A i \in 1..Len(all) : i \notin places
  BY <1>1, ChatAssumption DEF Between
<1> HIDE DEF places
<1>3. Picked(all, places) = <<>>
  BY <1>2, PickedNone
<1> QED BY <1>3 DEF Conversation, places

----------------------------------------------------------------------------
(* Types.                                                                   *)

\* Sockets and the panels: an account in use for each socket, a socket for the
\* panels, and no socket authenticated without them.
PanelsOpen ==
  /\ sockets # <<>> => keypair # NoName
  /\ form = "panels" => sockets # <<>>
  /\ \A s \in 1..Len(sockets) : sockets[s].st = "authenticated" => form = "panels"

ChatTypes == TypeOK /\ PanelsOpen

\* The users left when some are taken out, and those with one more, are typed
\* and have a name each.
Users(list) ==
  /\ list \in Seq(User)
  /\ \A i, j \in 1..Len(list) : list[i].name = list[j].name => i = j

LEMMA UsersAppend ==
  ASSUME NEW list, Users(list), NEW entry \in User,
         \A i \in 1..Len(list) : list[i].name # entry.name
  PROVE  Users(Append(list, entry))
<1> DEFINE longer == Append(list, entry)
<1>1. /\ longer \in Seq(User) /\ Len(list) \in Nat /\ Len(longer) = Len(list) + 1
      /\ longer[Len(list) + 1] = entry
      /\ \A n \in 1..Len(list) : longer[n] = list[n]
  BY DEF Users
<1> HIDE DEF longer
<1>2. \A n \in 1..Len(longer) : n \in 1..Len(list) \/ n = Len(list) + 1
  BY <1>1
<1>3. ASSUME NEW i \in 1..Len(longer), NEW j \in 1..Len(longer),
             longer[i].name = longer[j].name
      PROVE  i = j
  <2>1. CASE i \in 1..Len(list) /\ j \in 1..Len(list)
    BY <1>1, <1>3, <2>1 DEF Users
  <2>2. CASE i = Len(list) + 1 /\ j \in 1..Len(list)
    BY <1>1, <1>3, <2>2, Zenon
  <2>3. CASE j = Len(list) + 1 /\ i \in 1..Len(list)
    BY <1>1, <1>3, <2>3, Zenon
  <2> QED BY <1>2, <2>1, <2>2, <2>3
<1> QED BY <1>1, <1>3 DEF Users, longer

LEMMA UsersPicked ==
  ASSUME NEW list, Users(list), NEW places
  PROVE  Users(Picked(list, places))
<1>0. list \in Seq(User)
  BY DEF Users
<1>1. PICK F : F = Picked(list, places)
  OBVIOUS
<1>2. F \in Seq(User) /\ \E g : Picks(F, list, places, g)
  BY <1>0, <1>1, PickedIs, Zenon
<1>3. PICK g : Picks(F, list, places, g)
  BY <1>2
<1>4. ASSUME NEW i \in 1..Len(F), NEW j \in 1..Len(F), F[i].name = F[j].name
      PROVE  i = j
  <2>1. g[i] \in 1..Len(list) /\ g[j] \in 1..Len(list) /\ F[i] = list[g[i]] /\ F[j] = list[g[j]]
    BY <1>3 DEF Picks
  <2>2. g[i] = g[j]
    BY <1>4, <2>1, Zenon DEF Users
  <2>3. ~(i < j) /\ ~(j < i)
    <3>1. i < j => g[i] < g[j]
      BY <1>3 DEF Picks
    <3>2. j < i => g[j] < g[i]
      BY <1>3 DEF Picks
    <3>3. ~(g[i] < g[i])
      BY <2>1
    <3> QED BY <2>2, <3>1, <3>2, <3>3
  <2> QED BY <2>3
<1> QED BY <1>1, <1>2, <1>4 DEF Users

\* Only one listener takes a text: the first one whose socket is not connecting.
LEMMA OneTaker ==
  ASSUME sockets \in Seq(Socket), Takers # {}
  PROVE  Cardinality(Takers) = 1
<1>1. PICK s : s \in Takers
  OBVIOUS
<1>2. Takers \subseteq 1..Len(sockets) /\ Len(sockets) \in Nat
  BY DEF Takers, Listeners
<1>3. \A r \in Takers : r <= s /\ s <= r
  BY <1>1 DEF Takers
<1>4. Takers = {s}
  <2>1. \A r \in Takers : r = s
    BY <1>1, <1>2, <1>3
  <2> QED BY <1>1, <2>1
<1> QED BY <1>4, FS_Singleton

\* The list of buttons after each of the operations on it.
SameButtons(new, list) ==
  /\ new \in Seq(Button) /\ Len(new) = Len(list)
  /\ \A i \in 1..Len(list) : new[i].user = list[i].user

\* The flags of a button are changed without touching its user.
LEMMA ButtonIs ==
  ASSUME NEW e \in Button, NEW v \in BOOLEAN
  PROVE  /\ [e EXCEPT !.selected = v] \in Button
         /\ [e EXCEPT !.selected = v].user = e.user /\ [e EXCEPT !.selected = v].selected = v
         /\ [e EXCEPT !.unread = v] \in Button
         /\ [e EXCEPT !.unread = v].user = e.user /\ [e EXCEPT !.unread = v].unread = v
         /\ [e EXCEPT !.unread = v].selected = e.selected
         /\ \A w \in BOOLEAN : /\ [e EXCEPT !.selected = v, !.unread = w] \in Button
                              /\ [e EXCEPT !.selected = v, !.unread = w].user = e.user
BY DEF Button

LEMMA KeptIs ==
  ASSUME NEW list \in Seq(Button)
  PROVE  /\ SameButtons(Kept(list), list)
         /\ \A i \in 1..Len(list) : Kept(list)[i].selected = FALSE
<1>1. \A i \in 1..Len(list) :
        LET b == [list[i] EXCEPT !.selected = FALSE]
        IN  b \in Button /\ b.user = list[i].user /\ b.selected = FALSE
  <2> TAKE i \in 1..Len(list)
  <2>1. list[i] \in Button
    OBVIOUS
  <2> QED BY <2>1, ButtonIs
<1>2. Len(list) \in Nat
  OBVIOUS
<1>3. Kept(list) \in Seq(Button) /\ Len(Kept(list)) = Len(list)
  <2>1. Kept(list) \in [1..Len(list) -> Button]
    BY <1>1 DEF Kept
  <2> QED BY ONLY <1>2, <2>1
<1>4. \A i \in 1..Len(list) : Kept(list)[i] = [list[i] EXCEPT !.selected = FALSE]
  BY Zenon DEF Kept
<1> QED BY <1>1, <1>3, <1>4, Zenon DEF SameButtons

\* After a click on a button it is the one that is selected.
LEMMA ClickedIs ==
  ASSUME NEW list \in Seq(Button), NEW b \in 1..Len(list),
         NEW new, new = [Kept(list) EXCEPT ![b].selected = TRUE, ![b].unread = FALSE]
  PROVE  /\ SameButtons(new, list)
         /\ \A i \in 1..Len(list) : new[i].selected => i = b
<1>1. PICK k : k = Kept(list)
  OBVIOUS
<1>2. /\ k \in Seq(Button) /\ Len(k) = Len(list)
      /\ \A i \in 1..Len(list) : k[i].user = list[i].user /\ k[i].selected = FALSE
  BY <1>1, KeptIs DEF SameButtons
<1>3. new = [k EXCEPT ![b] = [k[b] EXCEPT !.selected = TRUE, !.unread = FALSE]]
  <2>1. new = [k EXCEPT ![b].selected = TRUE, ![b].unread = FALSE]
    BY <1>1
  <2> QED BY <1>2, <2>1
<1>4. /\ [k[b] EXCEPT !.selected = TRUE, !.unread = FALSE] \in Button
      /\ [k[b] EXCEPT !.selected = TRUE, !.unread = FALSE].user = k[b].user
  <2>1. k[b] \in Button
    BY <1>2
  <2> QED BY <2>1, ButtonIs
<1>5. PICK clicked : clicked = [k[b] EXCEPT !.selected = TRUE, !.unread = FALSE]
  OBVIOUS
<1>6. /\ new \in Seq(Button) /\ Len(new) = Len(list)
      /\ \A i \in 1..Len(list) : new[i] = IF i = b THEN clicked ELSE k[i]
  <2>1. k \in Seq(Button) /\ Len(k) = Len(list) /\ clicked \in Button
    BY <1>2, <1>4, <1>5
  <2>2. new = [k EXCEPT ![b] = clicked]
    BY <1>3, <1>5
  <2> QED BY ONLY <2>1, <2>2, b \in 1..Len(list)
<1> QED BY <1>2, <1>4, <1>5, <1>6 DEF SameButtons

\* A message from a user marks a button of that user, if there is one.
LEMMA MarkIs ==
  ASSUME NEW list \in Seq(Button), NEW name
  PROVE  /\ SameButtons(Mark(list, name), list)
         /\ \A i \in 1..Len(list) : Mark(list, name)[i].selected = list[i].selected
         /\ (\E i \in 1..Len(list) : list[i].user = name)
            => \E i \in 1..Len(list) : list[i].user = name /\ Mark(list, name)[i].unread
<1> DEFINE First(i) == list[i].user = name /\ \A j \in 1..(i - 1) : list[j].user # name
           marked(i) == IF First(i) THEN [list[i] EXCEPT !.unread = TRUE] ELSE list[i]
<1>1. \A i \in 1..Len(list) :
        /\ marked(i) \in Button /\ marked(i).user = list[i].user
        /\ marked(i).selected = list[i].selected
        /\ First(i) => marked(i).unread = TRUE
  <2> TAKE i \in 1..Len(list)
  <2>1. list[i] \in Button
    OBVIOUS
  <2> HIDE DEF First
  <2> QED BY <2>1, ButtonIs
<1>2. Mark(list, name) = [i \in 1..Len(list) |-> marked(i)]
  BY Zenon DEF Mark
<1> HIDE DEF marked
<1>3. Len(list) \in Nat
  OBVIOUS
<1>4. /\ Mark(list, name) \in Seq(Button) /\ Len(Mark(list, name)) = Len(list)
      /\ \A i \in 1..Len(list) : Mark(list, name)[i] = marked(i)
  <2>1. Mark(list, name) \in [1..Len(list) -> Button]
    BY <1>1, <1>2
  <2>2. Mark(list, name) \in Seq(Button) /\ Len(Mark(list, name)) = Len(list)
    BY ONLY <1>3, <2>1
  <2> QED BY <1>2, <2>2, Zenon
<1>5. ASSUME \E i \in 1..Len(list) : list[i].user = name
      PROVE  \E i \in 1..Len(list) : First(i)
  <2> DEFINE S == {i \in 1..Len(list) : list[i].user = name}
  <2>1. S \in SUBSET Nat /\ S # {}
    BY <1>3, <1>5
  <2>2. PICK i \in S : \A y \in S : i <= y
    <3> HIDE DEF S
    <3> QED BY <2>1, LeastNatural
  <2>3. i \in 1..Len(list) /\ list[i].user = name
    OBVIOUS
  <2>4. ASSUME NEW j \in 1..(i - 1) PROVE list[j].user # name
    <3>1. j \in 1..Len(list) /\ ~(i <= j)
      BY <1>3, <2>3
    <3> QED BY <2>2, <3>1
  <2> QED BY <2>3, <2>4
<1> QED BY <1>1, <1>4, <1>5, Zenon DEF SameButtons, First

\* All buttons but one.
LEMMA WithoutIs ==
  ASSUME NEW list \in Seq(Button), NEW b \in 1..Len(list)
  PROVE  /\ Without(list, b) \in Seq(Button)
         /\ \A j \in 1..Len(list) : j # b =>
              \E i \in 1..Len(Without(list, b)) : Without(list, b)[i] = list[j]
<1>1. Len(list) \in Nat /\ Len(list) - 1 \in Nat /\ b \in Nat
  OBVIOUS
<1>2. Without(list, b) \in [1..(Len(list) - 1) -> Button]
  <2>1. \A i \in 1..(Len(list) - 1) : list[i] \in Button /\ list[i + 1] \in Button
    <3>1. \A i \in 1..(Len(list) - 1) : i \in 1..Len(list) /\ i + 1 \in 1..Len(list)
      BY <1>1
    <3> QED BY <3>1
  <2> QED BY <2>1 DEF Without
<1>3. Without(list, b) \in Seq(Button) /\ Len(Without(list, b)) = Len(list) - 1
  BY ONLY <1>1, <1>2
<1>4. ASSUME NEW j \in 1..Len(list), j # b
      PROVE  \E i \in 1..Len(Without(list, b)) : Without(list, b)[i] = list[j]
  <2>1. CASE j < b
    <3>1. j \in 1..(Len(list) - 1)
      BY <1>1, <2>1
    <3>2. Without(list, b)[j] = list[j]
      BY <2>1, <3>1 DEF Without
    <3> QED BY <1>3, <3>1, <3>2
  <2>2. CASE j > b
    <3>1. j - 1 \in 1..(Len(list) - 1) /\ ~(j - 1 < b) /\ (j - 1) + 1 = j
      BY <1>1, <2>2
    <3>2. Without(list, b)[j - 1] = list[(j - 1) + 1]
      BY <3>1, Zenon DEF Without
    <3> QED BY <1>3, <3>1, <3>2
  <2> QED BY <1>1, <1>4, <2>1, <2>2
<1> QED BY <1>3, <1>4

\* The buttons of a page that is loaded: one for each stored user.
LEMMA LoadedIs ==
  ASSUME TypeOK, NEW list,
         list = [i \in 1..Len(users) |->
                   [NewButton(Named(users[i])) EXCEPT !.selected = (i = 1)]]
  PROVE  /\ list \in Seq(Button) /\ Len(list) = Len(users)
         /\ \A i \in 1..Len(users) :
              list[i].user = Named(users[i]) /\ (list[i].selected => i = 1)
<1>1. ASSUME NEW i \in 1..Len(users), NEW v \in BOOLEAN
      PROVE  LET b == [NewButton(Named(users[i])) EXCEPT !.selected = v]
             IN  b \in Button /\ b.user = Named(users[i]) /\ b.selected = v
  <2>1. Named(users[i]) \in Names \cup {Undef}
    <3>1. users[i] \in User
      BY DEF TypeOK
    <3> QED BY <3>1 DEF Named, User
  <2>2. NewButton(Named(users[i])) \in Button
    BY <2>1 DEF NewButton, Button
  <2>3. NewButton(Named(users[i])).user = Named(users[i])
    BY DEF NewButton
  <2>4. PICK b : b = NewButton(Named(users[i]))
    OBVIOUS
  <2>5. b \in Button
    BY <2>2, <2>4
  <2>6. /\ [b EXCEPT !.selected = v] \in Button
        /\ [b EXCEPT !.selected = v].user = b.user /\ [b EXCEPT !.selected = v].selected = v
    BY ONLY <2>5, v \in BOOLEAN DEF Button
  <2> QED BY <2>3, <2>4, <2>6
<1>2. \A i \in 1..Len(users) : (i = 1) \in BOOLEAN
  OBVIOUS
<1>3. list \in [1..Len(users) -> Button]
  BY <1>1, <1>2
<1>4. Len(users) \in Nat
  BY DEF TypeOK
<1>5. list \in Seq(Button) /\ Len(list) = Len(users)
  BY ONLY <1>3, <1>4
<1>6. \A i \in 1..Len(users) :
        list[i] = [NewButton(Named(users[i])) EXCEPT !.selected = (i = 1)]
  BY Zenon
<1> QED BY <1>1, <1>2, <1>5, <1>6

\* The users after one is renamed, and after one is added: the same names, or
\* one more.
LEMMA RenamedIs ==
  ASSUME TypeOK, NEW name
  PROVE  /\ Users(Renamed(name)) /\ Len(Renamed(name)) = Len(users)
         /\ \A i \in 1..Len(users) : /\ Renamed(name)[i].name = users[i].name
                                     /\ Renamed(name)[i].shape = users[i].shape
<1> DEFINE one(i) == IF users[i].name = name /\ users[i].shape = "object"
                     THEN [users[i] EXCEPT !.renamed = TRUE] ELSE users[i]
<1>1. \A i \in 1..Len(users) :
        one(i) \in User /\ one(i).name = users[i].name /\ one(i).shape = users[i].shape
  <2> TAKE i \in 1..Len(users)
  <2>1. PICK e : e = users[i]
    OBVIOUS
  <2>2. e \in User
    BY <2>1 DEF TypeOK
  <2>3. /\ [e EXCEPT !.renamed = TRUE] \in User
        /\ [e EXCEPT !.renamed = TRUE].name = e.name
        /\ [e EXCEPT !.renamed = TRUE].shape = e.shape
    BY <2>2 DEF User
  <2> QED BY <2>1, <2>2, <2>3
<1>2. Renamed(name) = [i \in 1..Len(users) |-> one(i)]
  BY Zenon DEF Renamed
<1> HIDE DEF one
<1>3. Len(users) \in Nat
  BY DEF TypeOK
<1>4. Renamed(name) \in [1..Len(users) -> User]
  BY <1>1, <1>2
<1>5. Renamed(name) \in Seq(User) /\ Len(Renamed(name)) = Len(users)
  BY ONLY <1>3, <1>4
<1>6. \A i \in 1..Len(users) : Renamed(name)[i] = one(i)
  BY <1>2
<1>7. \A i, j \in 1..Len(users) : users[i].name = users[j].name => i = j
  BY DEF TypeOK
<1> QED BY <1>1, <1>5, <1>6, <1>7, Zenon DEF Users

LEMMA PutIs ==
  ASSUME TypeOK, NEW entry \in User
  PROVE  /\ Users(Put(entry))
         /\ \A i \in 1..Len(Put(entry)) :
              Put(entry)[i] = entry \/ (i \in 1..Len(users) /\ Put(entry)[i] = users[i])
         /\ \A i \in 1..Len(users) : \E j \in 1..Len(Put(entry)) :
              Put(entry)[j].name = users[i].name
<1>0. Users(users) /\ Len(users) \in Nat
  BY DEF TypeOK, Users
<1>1. CASE Stored(entry.name) = {}
  <2>1. Put(entry) = Append(users, entry)
    BY <1>1 DEF Put
  <2>2. \A i \in 1..Len(users) : users[i].name # entry.name
    BY <1>1 DEF Stored
  <2>3. /\ Len(Append(users, entry)) = Len(users) + 1
        /\ Append(users, entry)[Len(users) + 1] = entry
        /\ \A i \in 1..Len(users) : Append(users, entry)[i] = users[i]
    BY <1>0 DEF Users
  <2>4. /\ \A i \in 1..Len(users) + 1 : i \in 1..Len(users) \/ i = Len(users) + 1
        /\ \A i \in 1..Len(users) : i \in 1..Len(users) + 1
    BY <1>0
  <2>5. Users(Append(users, entry))
    BY <1>0, <2>2, UsersAppend
  <2> HIDE DEF Users
  <2> QED BY <2>1, <2>3, <2>4, <2>5, Zenon
<1>2. CASE Stored(entry.name) # {}
  <2> DEFINE one(i) == IF users[i].name = entry.name THEN entry ELSE users[i]
  <2>1. Put(entry) = [i \in 1..Len(users) |-> one(i)]
    BY <1>2, Zenon DEF Put
  <2>2. \A i \in 1..Len(users) : one(i) \in User /\ one(i).name = users[i].name
    BY DEF TypeOK
  <2>3. \A i \in 1..Len(users) : one(i) = entry \/ one(i) = users[i]
    BY Zenon
  <2> HIDE DEF one
  <2>4. Put(entry) \in [1..Len(users) -> User]
    BY <2>1, <2>2
  <2>5. Put(entry) \in Seq(User) /\ Len(Put(entry)) = Len(users)
    BY ONLY <1>0, <2>4
  <2>6. \A i \in 1..Len(users) : Put(entry)[i] = one(i)
    BY <2>1
  <2> QED BY <1>0, <2>2, <2>3, <2>5, <2>6, Zenon DEF Users
<1> QED BY <1>1, <1>2

\* Appending what happens to be empty or one user.
LEMMA NewUserIs ==
  ASSUME TypeOK, NEW from \in Names
  PROVE  /\ Users(users \o NewUser(from))
         /\ NewUser(from) = <<>> => users \o NewUser(from) = users
         /\ NewUser(from) # <<>> =>
              users \o NewUser(from) =
                Append(users, [name |-> from, shape |-> "string", renamed |-> FALSE])
         /\ NewUser(from) = <<>> <=> Stored(from) # {}
<1> DEFINE entry == [name |-> from, shape |-> "string", renamed |-> FALSE]
<1>0. entry \in User /\ entry.name = from
  BY DEF User
<1> HIDE DEF entry
<1>1. users \in Seq(User) /\ users \o <<>> = users
  BY DEF TypeOK
<1>2. users \o <<entry>> = Append(users, entry)
  BY <1>0, <1>1
<1>3. <<entry>> # <<>>
  OBVIOUS
<1>4. NewUser(from) = IF Stored(from) # {} THEN <<>> ELSE <<entry>>
  BY Zenon DEF NewUser, entry
<1>5. CASE Stored(from) # {}
  BY <1>1, <1>4, <1>5 DEF Users, TypeOK
<1>6. CASE Stored(from) = {}
  <2>1. Users(users)
    BY DEF Users, TypeOK
  <2>2. \A i \in 1..Len(users) : users[i].name # entry.name
    BY <1>0, <1>6 DEF Stored
  <2>3. Users(Append(users, entry))
    BY <1>0, <2>1, <2>2, UsersAppend
  <2> QED BY <1>2, <1>3, <1>4, <1>6, <2>3, Zenon DEF entry
<1> QED BY <1>5, <1>6

\* One message more for a text that is sent.
LEMMA SendIs ==
  ASSUME ChatTypes, ClickSend
  PROVE  /\ Outgoing(input) \in Message /\ input \in Nat
         /\ messages' = Append(messages, Outgoing(input))
         /\ shown' = Append(shown, Outgoing(input))
<1>1. Cardinality(Takers) = 1
  BY OneTaker DEF ClickSend, ChatTypes, TypeOK
<1>2. keypair \in Names
  BY ChatAssumption DEF ClickSend, ChatTypes, TypeOK, PanelsOpen
<1>3. Outgoing(input) \in Message /\ input \in Nat
  BY <1>2 DEF ClickSend, ChatTypes, TypeOK, Outgoing, Message
<1>4. PICK m : m = Outgoing(input)
  OBVIOUS
<1>5. messages' = messages \o [s \in 1..1 |-> m] /\ shown' = shown \o [s \in 1..1 |-> m]
  BY <1>1, <1>4, Zenon DEF ClickSend, saveMessage, messageDiv
<1>6. [s \in 1..1 |-> m] = <<m>>
  OBVIOUS
<1>7. \A list \in Seq(Message) : list \o <<m>> = Append(list, m)
  BY <1>3, <1>4
<1>8. messages \in Seq(Message) /\ shown \in Seq(Message)
  BY DEF ChatTypes, TypeOK
<1> QED BY <1>3, <1>4, <1>5, <1>6, <1>7, <1>8, Zenon

\* What a received message adds: itself, at most one user, at most one button.
ButtonsWith(from) ==
  IF NewUser(from) = <<>> THEN buttons
  ELSE Append(buttons, [NewButton(from) EXCEPT !.unread = TRUE])

LEMMA ReceiveIs ==
  ASSUME ChatTypes, NEW s \in 1..Len(sockets), NEW from \in Peers, Receive(s, from),
         NEW m, m = Incoming(from, got + 1)
  PROVE  /\ from \in Names /\ m \in Message /\ form = "panels" /\ keypair \in Names
         /\ messages' = Append(messages, m)
         /\ users' = users \o NewUser(from)
         /\ ButtonsWith(from) \in Seq(Button)
         /\ IF selectedUser = from
            THEN shown' = Append(shown, m) /\ buttons' = ButtonsWith(from)
            ELSE shown' = shown /\ buttons' = Mark(ButtonsWith(from), from)
<1>1. from \in Names /\ form = "panels"
  BY ChatAssumption DEF Receive, ChatTypes, PanelsOpen
<1>2. keypair \in Names
  BY <1>1, ChatAssumption DEF ChatTypes, TypeOK, PanelsOpen
<1>3. m \in Message
  BY <1>1, <1>2 DEF Incoming, ChatTypes, TypeOK, Message
<1>4. \A list \in Seq(Message) : list \o <<m>> = Append(list, m)
  BY <1>3
<1>5. messages \in Seq(Message) /\ shown \in Seq(Message) /\ buttons \in Seq(Button)
  BY DEF ChatTypes, TypeOK
<1>6. [NewButton(from) EXCEPT !.unread = TRUE] \in Button
  BY <1>1 DEF NewButton, Button
<1>7. ButtonsWith(from) \in Seq(Button)
  BY <1>5, <1>6 DEF ButtonsWith
<1>8. /\ messages' = messages \o <<m>>
      /\ users' = users \o NewUser(from)
      /\ IF selectedUser = from
         THEN shown' = shown \o <<m>> /\ buttons' = ButtonsWith(from)
         ELSE shown' = shown /\ buttons' = Mark(ButtonsWith(from), from)
  BY Zenon DEF Receive, ButtonsWith, saveMessage, messageDiv
<1> QED BY <1>1, <1>2, <1>3, <1>4, <1>5, <1>7, <1>8, Zenon

\* Typing and the panels hold in every reachable state (script.js throughout).
LEMMA TypesStep ==
  ASSUME ChatTypes, [Next]_vars
  PROVE  ChatTypes'
<1> USE DEF ChatTypes
<1>0. keypair \in Accounts \cup {NoName} /\ login \in Accounts \cup {NoName} /\ Accounts \subseteq Names
  BY ChatAssumption DEF TypeOK
<1>1. ASSUME NEW remembered \in Accounts \cup {NoName}, LoadPage(remembered)
      PROVE  ChatTypes'
  <2>1. /\ buttons' \in Seq(Button) /\ Len(buttons') = Len(users)
        /\ \A i \in 1..Len(users) : buttons'[i].user = Named(users[i])
    BY <1>1, LoadedIs DEF LoadPage
  <2>2. shown' \in Seq(Message)
    <3>1. <<>> \in Seq(Message) /\ messages \in Seq(Message)
      BY DEF TypeOK
    <3>2. \A me, user : Conversation(messages, me, user) \in Seq(Message)
      BY <3>1, ConversationTyped
    <3> QED BY <1>1, <3>1, <3>2, Zenon DEF LoadPage
  <2>3. selectedUser' \in Names \cup {NoName, Undef}
    <3>1. CASE users = <<>>
      BY <1>1, <3>1 DEF LoadPage
    <3>2. CASE users # <<>>
      <4>1. users[1] \in User
        BY <3>2 DEF TypeOK
      <4>2. Named(users[1]) \in Names \cup {Undef}
        BY <4>1 DEF Named, User
      <4> QED BY <1>1, <3>2, <4>2 DEF LoadPage
    <3> QED BY <3>1, <3>2
  <2>4. /\ sockets' \in Seq(Socket) /\ (sockets' # <<>> => remembered # NoName)
        /\ \A s \in 1..Len(sockets') : sockets'[s].st = "connecting"
    <3>1. <<Connecting>> \in Seq(Socket) /\ Connecting.st = "connecting"
      BY DEF Connecting, Socket
    <3>2. CASE remembered = NoName
      <4>1. sockets' = <<>>
        BY <1>1, <3>2 DEF LoadPage
      <4> QED BY <4>1
    <3>3. CASE remembered # NoName
      <4>1. sockets' = <<Connecting>>
        BY <1>1, <3>3 DEF LoadPage
      <4> QED BY <3>1, <3>3, <4>1
    <3> QED BY <3>2, <3>3
  <2>5. /\ form' \in {"login", "none"} /\ keypair' = remembered /\ login' = remembered
        /\ fields' \in [{"login", "signup"} -> Accounts \cup {NoName}]
        /\ input' = NoText /\ UNCHANGED <<users, messages, typed, got>>
    BY <1>1 DEF LoadPage, counts
  <2>6. PanelsOpen'
    BY <2>4, <2>5 DEF PanelsOpen
  <2>7. TypeOK'
    BY <1>1, <2>1, <2>2, <2>3, <2>4, <2>5 DEF TypeOK
  <2> QED BY <2>6, <2>7
<1>2. CASE ShowSignup \/ ShowLogin \/ Generate
  <2>1. /\ form \in {"login", "signup"} /\ form' \in {"login", "signup"}
        /\ fields' \in [{"login", "signup"} -> Accounts \cup {NoName}]
        /\ UNCHANGED <<storage, keypair, sockets, chatVars, counts>>
    BY <1>2 DEF ShowSignup, ShowLogin, Generate, Cleared, TypeOK
  <2> QED BY <2>1 DEF TypeOK, PanelsOpen, storage, chatVars, counts
<1>3. CASE Login
  <2>1. PICK key \in Accounts : /\ keypair' = key /\ login' \in {key, login}
                                /\ fields' = [fields EXCEPT !["login"] = key]
                                /\ sockets' = Append(sockets, Connecting)
    BY <1>3 DEF Login
  <2>2. form = "login" /\ UNCHANGED <<users, messages, form, chatVars, counts>>
    BY <1>3 DEF Login
  <2>3. fields' \in [{"login", "signup"} -> Accounts \cup {NoName}]
    BY <2>1 DEF TypeOK
  <2>4. /\ sockets' \in Seq(Socket) /\ Len(sockets) \in Nat
        /\ Len(sockets') = Len(sockets) + 1 /\ sockets'[Len(sockets) + 1] = Connecting
        /\ \A s \in 1..Len(sockets) : sockets'[s] = sockets[s]
    BY <2>1 DEF TypeOK, Connecting, Socket
  <2>5. \A s \in 1..Len(sockets') : s \in 1..Len(sockets) \/ s = Len(sockets) + 1
    BY <2>4
  <2>6. PanelsOpen'
    BY <1>0, <2>1, <2>2, <2>4, <2>5, ChatAssumption DEF PanelsOpen, Connecting
  <2> QED BY <2>1, <2>2, <2>3, <2>4, <2>6 DEF TypeOK, chatVars, counts
<1>4. ASSUME NEW s \in 1..Len(sockets), Open(s) \/ Answer(s) \/ Authorised(s) \/ SocketCloses(s)
      PROVE  ChatTypes'
  <2>1. PICK to \in {"open", "answered", "authenticated", "closed"} :
          /\ sockets' = [sockets EXCEPT ![s].st = to, ![s].key =
                           IF to = "answered" THEN keypair ELSE @]
          /\ form' = IF to = "authenticated" THEN "panels" ELSE form
          /\ UNCHANGED <<storage, keypair, fields, chatVars, counts>>
    BY <1>4 DEF Open, Answer, Authorised, SocketCloses, SocketStep
  <2>2. sockets \in Seq(Socket)
    BY DEF TypeOK
  <2>3. /\ sockets' \in Seq(Socket) /\ Len(sockets') = Len(sockets)
        /\ sockets'[s].st = to
        /\ \A r \in 1..Len(sockets) : r # s => sockets'[r] = sockets[r]
    <3>1. PICK e, new : /\ e = sockets[s]
                        /\ new = [e EXCEPT !.st = to,
                                           !.key = IF to = "answered" THEN keypair ELSE @]
      OBVIOUS
    <3>2. e \in Socket
      BY <2>2, <3>1
    <3>3. new \in Socket /\ new.st = to
      <4>1. (IF to = "answered" THEN keypair ELSE e.key) \in Names \cup {NoName}
        BY <1>0, <3>2 DEF Socket
      <4> QED BY <3>1, <3>2, <4>1 DEF Socket
    <3>4. sockets' = [sockets EXCEPT ![s] = new]
      BY <2>1, <2>2, <3>1
    <3> QED BY <2>2, <3>3, <3>4
  <2>4. Len(sockets) \in Nat /\ sockets # <<>> /\ sockets' # <<>>
    BY <2>2, <2>3
  <2>5. PanelsOpen'
    BY <2>1, <2>3, <2>4 DEF PanelsOpen
  <2> QED BY <2>1, <2>3, <2>5 DEF TypeOK, storage, chatVars, counts
<1>5. ASSUME NEW s \in 1..Len(sockets), NEW from \in Peers, Receive(s, from)
      PROVE  ChatTypes'
  <2>1. PICK m : m = Incoming(from, got + 1)
    OBVIOUS
  <2>2. /\ from \in Names /\ m \in Message
        /\ messages' = Append(messages, m)
        /\ users' = users \o NewUser(from)
        /\ ButtonsWith(from) \in Seq(Button)
        /\ IF selectedUser = from
           THEN shown' = Append(shown, m) /\ buttons' = ButtonsWith(from)
           ELSE shown' = shown /\ buttons' = Mark(ButtonsWith(from), from)
    BY <1>5, <2>1, ReceiveIs
  <2>3. Users(users')
    BY <2>2, NewUserIs
  <2>4. buttons' \in Seq(Button)
    BY <2>2, MarkIs DEF SameButtons
  <2>5. messages' \in Seq(Message) /\ shown' \in Seq(Message)
    <3>1. messages \in Seq(Message) /\ shown \in Seq(Message)
      BY DEF TypeOK
    <3>2. \A list \in Seq(Message) : Append(list, m) \in Seq(Message)
      BY <2>2
    <3> QED BY <2>2, <3>1, <3>2, Zenon
  <2>6. got' = got + 1 /\ UNCHANGED <<login, loginVars, selectedUser, input, typed>>
    BY <1>5 DEF Receive
  <2>7. got' \in Nat
    BY <2>6 DEF TypeOK
  <2>8. TypeOK'
    BY <2>3, <2>4, <2>5, <2>6, <2>7 DEF TypeOK, Users, loginVars
  <2> QED BY <2>6, <2>8 DEF PanelsOpen, loginVars
<1>6. CASE Type
  BY <1>6 DEF Type, TypeOK, PanelsOpen, storage, loginVars
<1>7. CASE ClickSend
  <2>1. /\ messages' = Append(messages, Outgoing(input))
        /\ shown' = Append(shown, Outgoing(input))
        /\ Outgoing(input) \in Message
    BY <1>7, SendIs
  <2>2. messages' \in Seq(Message) /\ shown' \in Seq(Message)
    BY <2>1 DEF TypeOK
  <2>3. input' = NoText /\ UNCHANGED <<login, users, loginVars, buttons, selectedUser, typed, got>>
    BY <1>7 DEF ClickSend
  <2> QED BY <2>2, <2>3 DEF TypeOK, PanelsOpen, loginVars
<1>8. ASSUME NEW b \in 1..Len(buttons), ClickUser(b) \/ DeleteChat(b) \/ Rename(b)
      PROVE  ChatTypes'
  <2>1. messages \in Seq(Message) /\ buttons \in Seq(Button) /\ Users(users)
    BY DEF TypeOK, Users
  <2>2. buttons[b].user \in Names \cup {Undef}
    <3>1. buttons[b] \in Button
      BY <2>1
    <3> QED BY <3>1 DEF Button
  <2>3. Left(messages) \in Seq(Message)
    BY <2>1, PickedIs, Zenon DEF Left
  <2>4. messages' \in Seq(Message) /\ messages' \in {messages, Left(messages)}
    BY <1>8, <2>1, <2>3 DEF ClickUser, DeleteChat, Rename, storage
  <2>5. Users(users')
    <3>1. Users(StoredWithout(buttons[b].user))
      BY <2>1, UsersPicked DEF StoredWithout
    <3>2. Users(Renamed(buttons[b].user))
      BY RenamedIs
    <3>3. users' \in {users, StoredWithout(buttons[b].user), Renamed(buttons[b].user)}
      BY <1>8 DEF ClickUser, DeleteChat, Rename, storage
    <3> QED BY <2>1, <3>1, <3>2, <3>3
  <2>6. buttons' \in Seq(Button)
    <3>1. CASE ClickUser(b) \/ Rename(b)
      <4>1. buttons' = [Kept(buttons) EXCEPT ![b].selected = TRUE, ![b].unread = FALSE]
        BY <3>1 DEF ClickUser, Rename
      <4> QED BY <2>1, <4>1, ClickedIs DEF SameButtons
    <3>2. CASE DeleteChat(b)
      <4>1. buttons' = Kept(Without(buttons, b))
        BY <3>2 DEF DeleteChat
      <4>2. Without(buttons, b) \in Seq(Button)
        BY <2>1, WithoutIs
      <4> QED BY <4>1, <4>2, KeptIs DEF SameButtons
    <3> QED BY <1>8, <3>1, <3>2
  <2>7. /\ selectedUser' = buttons[b].user
        /\ \E all \in {messages, Left(messages)} :
             shown' = Conversation(all, keypair, buttons[b].user)
        /\ UNCHANGED <<login, loginVars, input, counts>>
    BY <1>8 DEF ClickUser, DeleteChat, Rename, SelectUser, storage
  <2>8. shown' \in Seq(Message)
    BY <2>1, <2>3, <2>7, ConversationTyped
  <2>9. TypeOK'
    BY <2>2, <2>4, <2>5, <2>6, <2>7, <2>8 DEF TypeOK, Users, loginVars, counts
  <2> QED BY <2>7, <2>9 DEF PanelsOpen, loginVars
<1>9. ASSUME NEW name \in Peers, AddUser(name)
      PROVE  ChatTypes'
  <2>1. name \in Names
    BY ChatAssumption
  <2>2. PICK entry : entry = [name |-> name, shape |-> "object", renamed |-> FALSE]
    OBVIOUS
  <2>3. entry \in User
    BY <2>1, <2>2 DEF User
  <2>4. Users(users')
    BY <1>9, <2>2, <2>3, PutIs DEF AddUser
  <2>5. buttons' \in Seq(Button)
    <3>1. NewButton(name) \in Button
      BY <2>1 DEF NewButton, Button
    <3>2. buttons' = Append(buttons, NewButton(name)) /\ buttons \in Seq(Button)
      BY <1>9 DEF AddUser, TypeOK
    <3> QED BY <3>1, <3>2
  <2>6. UNCHANGED <<login, messages, loginVars, selectedUser, shown, input, counts>>
    BY <1>9 DEF AddUser
  <2> QED BY <2>4, <2>5, <2>6 DEF TypeOK, PanelsOpen, Users, loginVars, counts
<1>10. CASE UNCHANGED vars
  BY <1>10 DEF vars, storage, loginVars, chatVars, counts, TypeOK, PanelsOpen
<1>11. CASE Next
  <2>1. CASE Reload \/ SignOut
    BY <1>0, <1>1, <2>1 DEF Reload, SignOut
  <2>2. CASE \E s \in 1..Len(sockets) :
               \/ Open(s) \/ Answer(s) \/ Authorised(s) \/ SocketCloses(s)
               \/ \E from \in Peers : Receive(s, from)
    BY <1>4, <1>5, <2>2
  <2>3. CASE \E b \in 1..Len(buttons) : ClickUser(b) \/ DeleteChat(b) \/ Rename(b)
    BY <1>8, <2>3
  <2>4. CASE \E name \in Peers : AddUser(name)
    BY <1>9, <2>4
  <2> QED BY <1>2, <1>3, <1>6, <1>7, <1>11, <2>1, <2>2, <2>3, <2>4 DEF Next
<1> QED BY <1>10, <1>11

LEMMA TypesInit ==
  ASSUME Init
  PROVE  ChatTypes
BY ChatAssumption DEF Init, ChatTypes, TypeOK, PanelsOpen

----------------------------------------------------------------------------
(* What is shown.                                                           *)

\* A list is the end of another one.
Suffix(s, all) ==
  /\ Len(s) <= Len(all)
  /\ \A i \in 1..Len(s) : s[i] = all[(Len(all) - Len(s)) + i]

\* What is shown is the end of the conversation also while a form or nothing is
\* displayed, and nothing is shown under a form, where the account may change.
ShownInv ==
  /\ ChatTypes
  /\ Suffix(shown, Conversation(messages, keypair, selectedUser))
  /\ form \in {"login", "signup"} => shown = <<>>

LEMMA SuffixSame ==
  ASSUME NEW all \in Seq(Message)
  PROVE  Suffix(all, all) /\ Suffix(<<>>, all)
<1>1. /\ Len(all) \in Nat
      /\ \A i \in 1..Len(all) : (Len(all) - Len(all)) + i = i
  OBVIOUS
<1> QED BY <1>1 DEF Suffix

LEMMA SuffixAppend ==
  ASSUME NEW s \in Seq(Message), NEW all \in Seq(Message), NEW m \in Message, Suffix(s, all)
  PROVE  Suffix(Append(s, m), Append(all, m))
<1> DEFINE t == Append(s, m)
           more == Append(all, m)
<1>1. /\ Len(s) \in Nat /\ Len(all) \in Nat
      /\ Len(t) = Len(s) + 1 /\ Len(more) = Len(all) + 1
      /\ t[Len(s) + 1] = m /\ more[Len(all) + 1] = m
      /\ \A i \in 1..Len(s) : t[i] = s[i]
      /\ \A i \in 1..Len(all) : more[i] = all[i]
  OBVIOUS
<1> HIDE DEF t, more
<1>2. Len(t) <= Len(more) /\ Len(more) - Len(t) = Len(all) - Len(s)
  BY <1>1 DEF Suffix
<1>3. ASSUME NEW i \in 1..Len(t)
      PROVE  t[i] = more[(Len(all) - Len(s)) + i]
  <2>1. CASE i = Len(s) + 1
    <3>1. (Len(all) - Len(s)) + i = Len(all) + 1
      BY <1>1, <2>1
    <3> QED BY <1>1, <2>1, <3>1
  <2>2. CASE i \in 1..Len(s)
    <3>1. (Len(all) - Len(s)) + i \in 1..Len(all)
      BY <1>1, <2>2 DEF Suffix
    <3>2. s[i] = all[(Len(all) - Len(s)) + i]
      BY <2>2 DEF Suffix
    <3> QED BY <1>1, <2>2, <3>1, <3>2
  <2> QED BY <1>1, <2>1, <2>2
<1> QED BY <1>2, <1>3 DEF Suffix, t, more

LEMMA SuffixIs ==
  ASSUME NEW s \in Seq(Message), NEW all \in Seq(Message), Suffix(s, all)
  PROVE  LET n == Len(all) - Len(s)
         IN  n >= 0 /\ s = SubSeq(all, n + 1, Len(all))
<1>1. PICK n : n = Len(all) - Len(s)
  OBVIOUS
<1>2. Len(s) \in Nat /\ Len(all) \in Nat /\ n \in Nat /\ Len(all) = n + Len(s)
  BY <1>1 DEF Suffix
<1>3. PICK e : e = SubSeq(all, n + 1, Len(all))
  OBVIOUS
<1>4. e \in Seq(Message) /\ Len(e) = Len(s) /\ \A i \in 1..Len(s) : e[i] = all[n + i]
  <2>1. n + 1 \in 1..Len(all) + 1
    BY <1>2
  <2>2. e \in Seq(Message)
    BY <1>2, <1>3
  <2>3. Len(e) = Len(s)
    BY <1>2, <1>3
  <2>4. \A i \in 1..Len(s) : e[i] = all[n + i]
    BY <1>2, <1>3
  <2> QED BY <2>2, <2>3, <2>4
<1>5. \A i \in 1..Len(s) : s[i] = all[n + i]
  BY <1>1 DEF Suffix
<1>6. s = e
  <2>1. \A i \in 1..Len(s) : s[i] = e[i]
    BY <1>4, <1>5
  <2> QED BY ONLY <1>4, <2>1, SeqEqual, s \in Seq(Message)
<1>7. n >= 0 /\ s = SubSeq(all, n + 1, Len(all))
  BY <1>2, <1>3, <1>6
<1> QED BY ONLY <1>1, <1>7, Zenon

LEMMA ShownStep ==
  ASSUME ShownInv, [Next]_vars
  PROVE  ShownInv'
<1>1. ChatTypes /\ ChatTypes' /\ messages \in Seq(Message) /\ shown \in Seq(Message)
  BY TypesStep DEF ShownInv, ChatTypes, TypeOK
<1> DEFINE conversation == Conversation(messages, keypair, selectedUser)
<1>2. \A all \in Seq(Message) : \A me, user : Conversation(all, me, user) \in Seq(Message)
  BY ConversationTyped
<1>3. ASSUME NEW remembered, LoadPage(remembered)
      PROVE  ShownInv'
  <2>1. /\ keypair' = remembered /\ messages' = messages
        /\ form' = IF remembered = NoName THEN "login" ELSE "none"
        /\ users # <<>> => selectedUser' = Named(users[1])
        /\ shown' = IF users = <<>> THEN <<>>
                    ELSE Conversation(messages, remembered, Named(users[1]))
    BY <1>3 DEF LoadPage
  <2>2. shown' = <<>> \/ shown' = Conversation(messages, keypair', selectedUser')
    BY <2>1
  <2>3. Suffix(shown', Conversation(messages', keypair', selectedUser'))
    <3>1. PICK all : all = Conversation(messages, keypair', selectedUser')
      OBVIOUS
    <3>2. Suffix(all, all) /\ Suffix(<<>>, all)
      BY <1>1, <1>2, <3>1, SuffixSame
    <3> QED BY <2>1, <2>2, <3>1, <3>2
  <2>4. form' \in {"login", "signup"} => shown' = <<>>
    BY <1>1, <2>1, NoConversation
  <2> QED BY <1>1, <2>3, <2>4 DEF ShownInv
<1>4. ASSUME UNCHANGED <<messages, selectedUser, shown>>,
             \/ UNCHANGED keypair
             \/ form = "login",
             form' \in {"login", "signup"} => form \in {"login", "signup"}
      PROVE  ShownInv'
  <2>1. CASE shown = <<>>
    <3>1. PICK all : all = Conversation(messages, keypair', selectedUser)
      OBVIOUS
    <3>2. Suffix(<<>>, all)
      BY <1>1, <1>2, <3>1, SuffixSame
    <3> QED BY <1>1, <1>4, <2>1, <3>1, <3>2 DEF ShownInv
  <2>2. CASE shown # <<>>
    BY <1>1, <1>4, <2>2 DEF ShownInv
  <2> QED BY <2>1, <2>2
<1>5. ASSUME NEW m \in Message,
             messages' = Append(messages, m),
             UNCHANGED <<selectedUser, keypair, form>>, form = "panels",
             \/ Between(m, keypair, selectedUser) /\ shown' = Append(shown, m)
             \/ ~Between(m, keypair, selectedUser) /\ shown' = shown
      PROVE  ShownInv'
  <2>1. Conversation(messages', keypair', selectedUser') =
          IF Between(m, keypair, selectedUser) THEN Append(conversation, m) ELSE conversation
    BY <1>1, <1>5, ConversationAppend
  <2>2. conversation \in Seq(Message) /\ Suffix(shown, conversation)
    BY <1>1, <1>2 DEF ShownInv
  <2> HIDE DEF conversation
  <2>3. Suffix(Append(shown, m), Append(conversation, m))
    BY <1>1, <2>2, SuffixAppend
  <2>4. Suffix(shown', Conversation(messages', keypair', selectedUser'))
    BY <1>5, <2>1, <2>2, <2>3
  <2> QED BY <1>1, <1>5, <2>4 DEF ShownInv
<1>6. ASSUME NEW s \in 1..Len(sockets), NEW from \in Peers, Receive(s, from)
      PROVE  ShownInv'
  <2>1. PICK m : m = Incoming(from, got + 1)
    OBVIOUS
  <2>2. /\ from \in Names /\ m \in Message /\ form = "panels" /\ keypair \in Names
        /\ messages' = Append(messages, m)
        /\ selectedUser = from => shown' = Append(shown, m)
        /\ selectedUser # from => shown' = shown
    BY <1>1, <1>6, <2>1, ReceiveIs
  <2>3. Between(m, keypair, selectedUser) <=> selectedUser = from
    BY <2>1 DEF Between, Incoming
  <2>4. UNCHANGED <<selectedUser, keypair, form>>
    BY <1>6 DEF Receive, loginVars
  <2> QED BY <1>5, <2>2, <2>3, <2>4
<1>7. CASE ClickSend
  <2>1. PICK m : m = Outgoing(input)
    OBVIOUS
  <2>2. /\ m \in Message
        /\ messages' = Append(messages, m) /\ shown' = Append(shown, m)
    BY <1>1, <1>7, <2>1, SendIs
  <2>3. Between(m, keypair, selectedUser)
    BY <2>1 DEF Between, Outgoing
  <2>4. form = "panels" /\ UNCHANGED <<selectedUser, keypair, form>>
    BY <1>7 DEF ClickSend, loginVars
  <2> QED BY <1>5, <2>2, <2>3, <2>4
<1>8. ASSUME NEW all \in Seq(Message), NEW name, messages' = all, SelectUser(name, all),
             form = "panels", UNCHANGED loginVars
      PROVE  ShownInv'
  <2>1. PICK now : now = Conversation(all, keypair, name)
    OBVIOUS
  <2>2. Suffix(now, now)
    BY <1>2, <2>1, SuffixSame
  <2>3. Suffix(shown', Conversation(messages', keypair', selectedUser'))
    BY <1>8, <2>1, <2>2 DEF SelectUser, loginVars
  <2> QED BY <1>1, <1>8, <2>3 DEF ShownInv, loginVars
<1>9. ASSUME NEW b \in 1..Len(buttons), ClickUser(b) \/ DeleteChat(b) \/ Rename(b)
      PROVE  ShownInv'
  <2>1. Left(messages) \in Seq(Message)
    BY <1>1, PickedIs, Zenon DEF Left
  <2>2. form = "panels" /\ UNCHANGED loginVars
    BY <1>9 DEF ClickUser, DeleteChat, Rename
  <2>3. \E all \in {messages, Left(messages)} :
          messages' = all /\ SelectUser(buttons[b].user, all)
    BY <1>9 DEF ClickUser, DeleteChat, Rename, storage
  <2> QED BY <1>1, <1>8, <2>1, <2>2, <2>3
<1>10. CASE UNCHANGED vars
  BY <1>4, <1>10 DEF vars, storage, loginVars, chatVars
<1>11. CASE Next
  <2>1. CASE Reload \/ SignOut
    BY <1>3, <2>1 DEF Reload, SignOut
  <2>2. CASE ShowSignup \/ ShowLogin \/ Generate \/ Login
    <3>1. /\ UNCHANGED <<messages, selectedUser, shown>>
          /\ UNCHANGED keypair \/ form = "login"
          /\ form \in {"login", "signup"}
      BY <2>2 DEF ShowSignup, ShowLogin, Generate, Login, storage, chatVars
    <3> QED BY <1>4, <3>1
  <2>3. ASSUME NEW s \in 1..Len(sockets), Open(s) \/ Answer(s) \/ Authorised(s) \/ SocketCloses(s)
        PROVE  ShownInv'
    <3>1. /\ UNCHANGED <<messages, selectedUser, shown, keypair>>
          /\ form' \in {form, "panels"}
      BY <2>3 DEF Open, Answer, Authorised, SocketCloses, SocketStep, storage, chatVars
    <3> QED BY <1>4, <3>1
  <2>4. CASE Type
    BY <1>4, <2>4 DEF Type, storage, loginVars
  <2>5. CASE \E b \in 1..Len(buttons) : ClickUser(b) \/ DeleteChat(b) \/ Rename(b)
    BY <1>9, <2>5
  <2>6. CASE \E name \in Peers : AddUser(name)
    BY <1>4, <2>6 DEF AddUser, loginVars
  <2> QED BY <1>6, <1>7, <1>11, <2>1, <2>2, <2>3, <2>4, <2>5, <2>6 DEF Next
<1> QED BY <1>10, <1>11

LEMMA ShownInit ==
  ASSUME Init
  PROVE  ShownInv
<1>1. ChatTypes /\ shown = <<>> /\ messages \in Seq(Message)
  BY TypesInit DEF Init, ChatTypes, TypeOK
<1>2. PICK all : all = Conversation(messages, keypair, selectedUser)
  OBVIOUS
<1>3. Suffix(<<>>, all)
  BY <1>1, <1>2, ConversationTyped, SuffixSame
<1> QED BY <1>1, <1>2, <1>3 DEF ShownInv

\* The state of the page is of the types it is declared with, and the panels
\* are open only with an account in use and a socket of its own.
THEOREM ChatTypeCorrect == Spec => []TypeOK
<1>1. Init => ChatTypes
  BY TypesInit
<1>2. ChatTypes /\ [Next]_vars => ChatTypes'
  BY TypesStep
<1>3. ChatTypes => TypeOK
  BY DEF ChatTypes
<1> QED BY <1>1, <1>2, <1>3, PTL DEF Spec

\* Whatever is received, sent, deleted, renamed or reloaded, what is shown is
\* the end of the stored conversation with the selected user (script.js
\* 195-199, 236-244, 266-267, 343-345).
THEOREM ShownCorrect == Spec => []ShownIsConversation
<1>1. Init => ShownInv
  BY ShownInit
<1>2. ShownInv /\ [Next]_vars => ShownInv'
  BY ShownStep
<1>3. ShownInv => ShownIsConversation
  <2> SUFFICES ASSUME ShownInv PROVE ShownIsConversation
    OBVIOUS
  <2>1. PICK all : all = Conversation(messages, keypair, selectedUser)
    OBVIOUS
  <2>2. all \in Seq(Message) /\ shown \in Seq(Message) /\ Suffix(shown, all)
    BY <2>1, ConversationTyped DEF ShownInv, ChatTypes, TypeOK
  <2>3. LET n == Len(all) - Len(shown)
        IN  n >= 0 /\ shown = SubSeq(all, n + 1, Len(all))
    BY <2>2, SuffixIs
  <2> QED BY <2>1, <2>3, Zenon DEF ShownIsConversation
<1> QED BY <1>1, <1>2, <1>3, PTL DEF Spec

----------------------------------------------------------------------------
(* The highlighted button.                                                  *)

HighlightInv == ChatTypes /\ HighlightTruthful

\* A button more, which is not selected.
LEMMA HighlightAppend ==
  ASSUME NEW list \in Seq(Button), NEW e \in Button, ~e.selected,
         NEW user,
         \A i \in 1..Len(list) : list[i].selected =>
           /\ list[i].user = user
           /\ \A j \in 1..Len(list) : list[j].selected => i = j,
         NEW longer, longer = Append(list, e)
  PROVE  \A i \in 1..Len(longer) : longer[i].selected =>
           /\ longer[i].user = user
           /\ \A j \in 1..Len(longer) : longer[j].selected => i = j
<1>1. /\ Len(list) \in Nat /\ Len(longer) = Len(list) + 1 /\ longer[Len(list) + 1] = e
      /\ \A i \in 1..Len(list) : longer[i] = list[i]
  OBVIOUS
<1>2. \A i \in 1..Len(longer) : i \in 1..Len(list) \/ i = Len(list) + 1
  BY <1>1
<1>3. \A i \in 1..Len(longer) : longer[i].selected => i \in 1..Len(list) /\ longer[i] = list[i]
  BY <1>1, <1>2, Zenon
<1> QED BY <1>3, Zenon

LEMMA HighlightStep ==
  ASSUME HighlightInv, [Next]_vars
  PROVE  HighlightInv'
<1>1. ChatTypes /\ ChatTypes' /\ TypeOK /\ buttons \in Seq(Button)
  BY TypesStep DEF HighlightInv, ChatTypes, TypeOK
<1> SUFFICES HighlightTruthful'
  BY <1>1 DEF HighlightInv
<1>2. ASSUME NEW remembered, LoadPage(remembered)
      PROVE  HighlightTruthful'
  <2>1. /\ buttons' \in Seq(Button) /\ Len(buttons') = Len(users)
        /\ \A i \in 1..Len(users) :
             buttons'[i].user = Named(users[i]) /\ (buttons'[i].selected => i = 1)
    BY <1>1, <1>2, LoadedIs DEF LoadPage
  <2>2. users # <<>> => selectedUser' = Named(users[1])
    BY <1>2 DEF LoadPage
  <2>3. \A i \in 1..Len(users) : users # <<>>
    BY <1>1 DEF TypeOK
  <2> QED BY <2>1, <2>2, <2>3 DEF HighlightTruthful
<1>3. ASSUME UNCHANGED <<buttons, selectedUser>>
      PROVE  HighlightTruthful'
  BY <1>3 DEF HighlightInv, HighlightTruthful
<1>4. ASSUME NEW s \in 1..Len(sockets), NEW from \in Peers, Receive(s, from)
      PROVE  HighlightTruthful'
  <2>1. /\ from \in Names
        /\ ButtonsWith(from) \in Seq(Button)
        /\ selectedUser = from => buttons' = ButtonsWith(from)
        /\ selectedUser # from => buttons' = Mark(ButtonsWith(from), from)
    BY <1>1, <1>4, ReceiveIs
  <2>2. UNCHANGED selectedUser
    BY <1>4 DEF Receive
  <2>3. PICK list : list = ButtonsWith(from)
    OBVIOUS
  <2>4. \A i \in 1..Len(list) : list[i].selected =>
          /\ list[i].user = selectedUser
          /\ \A j \in 1..Len(list) : list[j].selected => i = j
    <3>1. CASE NewUser(from) = <<>>
      BY <2>3, <3>1 DEF ButtonsWith, HighlightInv, HighlightTruthful
    <3>2. CASE NewUser(from) # <<>>
      <4>1. PICK e : e = [NewButton(from) EXCEPT !.unread = TRUE]
        OBVIOUS
      <4>2. e \in Button /\ ~e.selected
        BY <2>1, <4>1 DEF NewButton, Button
      <4>3. list = Append(buttons, e)
        BY <2>3, <3>2, <4>1 DEF ButtonsWith
      <4>4. \A i \in 1..Len(buttons) : buttons[i].selected =>
              /\ buttons[i].user = selectedUser
              /\ \A j \in 1..Len(buttons) : buttons[j].selected => i = j
        BY DEF HighlightInv, HighlightTruthful
      <4> QED BY ONLY <1>1, <4>2, <4>3, <4>4, HighlightAppend
    <3> QED BY <3>1, <3>2
  <2>5. CASE selectedUser = from
    BY <2>1, <2>2, <2>3, <2>4, <2>5 DEF HighlightTruthful
  <2>6. CASE selectedUser # from
    <3>1. PICK marked : marked = Mark(list, from)
      OBVIOUS
    <3>2. /\ Len(marked) = Len(list)
          /\ \A i \in 1..Len(list) : marked[i].user = list[i].user
                                     /\ marked[i].selected = list[i].selected
      BY <2>1, <2>3, <3>1, MarkIs DEF SameButtons
    <3>3. buttons' = marked
      BY <2>1, <2>3, <2>6, <3>1
    <3> QED BY <2>2, <2>4, <3>2, <3>3 DEF HighlightTruthful
  <2> QED BY <2>5, <2>6
<1>5. ASSUME NEW b \in 1..Len(buttons), ClickUser(b) \/ Rename(b)
      PROVE  HighlightTruthful'
  <2>1. /\ buttons' = [Kept(buttons) EXCEPT ![b].selected = TRUE, ![b].unread = FALSE]
        /\ selectedUser' = buttons[b].user
    BY <1>5 DEF ClickUser, Rename, SelectUser
  <2>2. /\ SameButtons(buttons', buttons)
        /\ \A i \in 1..Len(buttons) : buttons'[i].selected => i = b
    BY <1>1, <2>1, ClickedIs
  <2> QED BY <2>1, <2>2 DEF SameButtons, HighlightTruthful
<1>6. ASSUME NEW b \in 1..Len(buttons), DeleteChat(b)
      PROVE  HighlightTruthful'
  <2>1. buttons' = Kept(Without(buttons, b))
    BY <1>6 DEF DeleteChat
  <2>2. PICK list : list = Without(buttons, b)
    OBVIOUS
  <2>3. list \in Seq(Button)
    BY <1>1, <2>2, WithoutIs
  <2>4. /\ Len(buttons') = Len(list)
        /\ \A i \in 1..Len(list) : buttons'[i].selected = FALSE
    BY <2>1, <2>2, <2>3, KeptIs DEF SameButtons
  <2> QED BY <2>4 DEF HighlightTruthful
<1>7. ASSUME NEW name \in Peers, AddUser(name)
      PROVE  HighlightTruthful'
  <2>1. name \in Names
    BY ChatAssumption
  <2>2. PICK e : e = NewButton(name)
    OBVIOUS
  <2>3. e \in Button /\ ~e.selected
    BY <2>1, <2>2 DEF NewButton, Button
  <2>4. buttons' = Append(buttons, e) /\ UNCHANGED selectedUser
    BY <1>7, <2>2 DEF AddUser
  <2>5. \A i \in 1..Len(buttons) : buttons[i].selected =>
          /\ buttons[i].user = selectedUser
          /\ \A j \in 1..Len(buttons) : buttons[j].selected => i = j
    BY DEF HighlightInv, HighlightTruthful
  <2>6. \A i \in 1..Len(buttons') : buttons'[i].selected =>
          /\ buttons'[i].user = selectedUser
          /\ \A j \in 1..Len(buttons') : buttons'[j].selected => i = j
    BY ONLY <1>1, <2>3, <2>4, <2>5, HighlightAppend
  <2> QED BY <2>4, <2>6 DEF HighlightTruthful
<1>8. CASE UNCHANGED vars
  BY <1>3, <1>8 DEF vars, chatVars
<1>9. CASE Next
  <2>1. CASE Reload \/ SignOut
    BY <1>2, <2>1 DEF Reload, SignOut
  <2>2. CASE ShowSignup \/ ShowLogin \/ Generate \/ Login \/ Type \/ ClickSend
    BY <1>3, <2>2 DEF ShowSignup, ShowLogin, Generate, Login, Type, ClickSend, chatVars
  <2>3. ASSUME NEW s \in 1..Len(sockets), Open(s) \/ Answer(s) \/ Authorised(s) \/ SocketCloses(s)
        PROVE  HighlightTruthful'
    BY <1>3, <2>3 DEF Open, Answer, Authorised, SocketCloses, SocketStep, chatVars
  <2> QED BY <1>4, <1>5, <1>6, <1>7, <1>9, <2>1, <2>2, <2>3 DEF Next
<1> QED BY <1>8, <1>9

\* At most one user is highlighted, and it is the one who gets what is typed,
\* however many buttons a user has (script.js 184-195, 511-513).
THEOREM HighlightCorrect == Spec => []HighlightTruthful
<1>1. Init => HighlightInv
  BY TypesInit DEF Init, HighlightInv, HighlightTruthful
<1>2. HighlightInv /\ [Next]_vars => HighlightInv'
  BY HighlightStep
<1>3. HighlightInv => HighlightTruthful
  BY DEF HighlightInv
<1> QED BY <1>1, <1>2, <1>3, PTL DEF Spec

----------------------------------------------------------------------------
(* What is typed.                                                           *)

\* Texts are typed in the order of their numbers; the one in the field is not
\* stored yet.
TypedInv ==
  /\ ChatTypes
  /\ input \in Nat => input <= typed
  /\ \A i \in 1..Len(messages) :
       messages[i].out => messages[i].text <= typed /\ messages[i].text # input
  /\ TypedOnce

LEMMA TypedStep ==
  ASSUME TypedInv, [Next]_vars
  PROVE  TypedInv'
<1>1. /\ ChatTypes /\ ChatTypes' /\ messages \in Seq(Message)
      /\ typed \in Nat /\ input \in Nat \cup {NoText} /\ NoText \notin Nat
      /\ \A i \in 1..Len(messages) : messages[i].text \in Nat
  <2>1. ChatTypes /\ ChatTypes' /\ messages \in Seq(Message)
        /\ typed \in Nat /\ input \in Nat \cup {NoText}
    BY TypesStep DEF TypedInv, ChatTypes, TypeOK
  <2>2. \A i \in 1..Len(messages) : messages[i] \in Message
    BY <2>1
  <2> QED BY <2>1, <2>2, ChatAssumption DEF Message
<1>2. ASSUME UNCHANGED <<messages, typed>>, input' \in {input, NoText}
      PROVE  TypedInv'
  <2>1. \A i \in 1..Len(messages) : messages[i].text # NoText
    BY <1>1
  <2> QED BY <1>1, <1>2, <2>1 DEF TypedInv, TypedOnce
<1>3. ASSUME NEW m \in Message, messages' = Append(messages, m), UNCHANGED typed,
             \/ ~m.out /\ UNCHANGED input
             \/ m.text = input /\ input \in Nat /\ input' = NoText
      PROVE  TypedInv'
  <2>1. /\ Len(messages) \in Nat /\ Len(messages') = Len(messages) + 1
        /\ messages'[Len(messages) + 1] = m
        /\ \A i \in 1..Len(messages) : messages'[i] = messages[i]
    BY <1>1, <1>3
  <2>2. \A i \in 1..Len(messages') : i \in 1..Len(messages) \/ i = Len(messages) + 1
    BY <2>1
  <2>3. \A i \in 1..Len(messages) :
          messages[i].out => messages[i].text <= typed /\ messages[i].text # input
    BY DEF TypedInv
  <2>4. m.out => m.text = input /\ input \in Nat /\ input <= typed
    BY <1>3 DEF TypedInv
  <2>5. input' \in {input, NoText} /\ (m.out => input' = NoText)
    BY <1>3
  <2>6. \A i \in 1..Len(messages') :
          messages'[i].out => messages'[i].text <= typed /\ messages'[i].text # input'
    <3>1. m.out => m.text <= typed /\ m.text # input'
      BY <1>1, <2>4, <2>5
    <3>2. \A i \in 1..Len(messages) :
            messages[i].out => messages[i].text <= typed /\ messages[i].text # input'
      BY <1>1, <2>3, <2>5
    <3> QED BY <2>1, <2>2, <3>1, <3>2, Zenon
  <2>7. ASSUME NEW i \in 1..Len(messages'), NEW j \in 1..Len(messages'),
               messages'[i].out, messages'[j].out, messages'[i].text = messages'[j].text
        PROVE  i = j
    <3>1. CASE i \in 1..Len(messages) /\ j \in 1..Len(messages)
      BY <2>1, <2>7, <3>1 DEF TypedInv, TypedOnce
    <3>2. CASE i \in 1..Len(messages) /\ j = Len(messages) + 1
      BY <2>1, <2>3, <2>4, <2>7, <3>2, Zenon
    <3>3. CASE j \in 1..Len(messages) /\ i = Len(messages) + 1
      BY <2>1, <2>3, <2>4, <2>7, <3>3, Zenon
    <3> QED BY <2>2, <3>1, <3>2, <3>3
  <2>8. input' \in Nat => input' <= typed'
    BY <1>1, <1>3, <2>5 DEF TypedInv
  <2>9. TypedOnce'
    BY <2>7 DEF TypedOnce
  <2> QED BY <1>1, <1>3, <2>6, <2>8, <2>9 DEF TypedInv
<1>4. ASSUME NEW places, messages' = Picked(messages, places), UNCHANGED <<input, typed>>
      PROVE  TypedInv'
  <2>1. PICK F : F = messages'
    OBVIOUS
  <2>2. F \in Seq(Message) /\ \E g : Picks(F, messages, places, g)
    BY <1>1, <1>4, <2>1, PickedIs
  <2>3. PICK g : Picks(F, messages, places, g)
    BY <2>2
  <2>4. \A i \in 1..Len(F) : g[i] \in 1..Len(messages) /\ F[i] = messages[g[i]]
    BY <2>3 DEF Picks
  <2>5. \A i \in 1..Len(F) : F[i].out => F[i].text <= typed /\ F[i].text # input
    BY <2>4, Zenon DEF TypedInv
  <2>6. ASSUME NEW i \in 1..Len(F), NEW j \in 1..Len(F),
               F[i].out, F[j].out, F[i].text = F[j].text
        PROVE  i = j
    <3>1. g[i] = g[j]
      <4>1. PICK k, l : k = g[i] /\ l = g[j]
        OBVIOUS
      <4>2. k \in 1..Len(messages) /\ l \in 1..Len(messages)
            /\ F[i] = messages[k] /\ F[j] = messages[l]
        BY <2>4, <4>1
      <4>3. messages[k].out /\ messages[l].out /\ messages[k].text = messages[l].text
        BY <2>6, <4>2
      <4> QED BY <4>1, <4>2, <4>3 DEF TypedInv, TypedOnce
    <3>2. i < j => g[i] < g[j]
      BY <2>3 DEF Picks
    <3>3. j < i => g[j] < g[i]
      BY <2>3 DEF Picks
    <3>4. ~(g[i] < g[i]) /\ i \in Int /\ j \in Int
      BY <2>2, <2>4
    <3>5. ~(i < j) /\ ~(j < i)
      BY <3>1, <3>2, <3>3, <3>4, Zenon
    <3> QED BY <3>4, <3>5
  <2> QED BY <1>1, <1>4, <2>1, <2>5, <2>6 DEF TypedInv, TypedOnce
<1>5. ASSUME NEW s \in 1..Len(sockets), NEW from \in Peers, Receive(s, from)
      PROVE  TypedInv'
  <2>1. PICK m : m = Incoming(from, got + 1)
    OBVIOUS
  <2>2. m \in Message /\ messages' = Append(messages, m)
    BY <1>1, <1>5, <2>1, ReceiveIs
  <2>3. ~m.out
    BY <2>1 DEF Incoming
  <2>4. UNCHANGED <<input, typed>>
    BY <1>5 DEF Receive
  <2> QED BY <1>3, <2>2, <2>3, <2>4
<1>6. CASE ClickSend
  <2>1. PICK m : m = Outgoing(input)
    OBVIOUS
  <2>2. m \in Message /\ input \in Nat /\ messages' = Append(messages, m)
    BY <1>1, <1>6, <2>1, SendIs
  <2>3. m.text = input
    BY <2>1 DEF Outgoing
  <2>4. input' = NoText /\ UNCHANGED typed
    BY <1>6 DEF ClickSend
  <2> QED BY <1>3, <2>2, <2>3, <2>4
<1>7. CASE Type
  <2>1. /\ UNCHANGED messages /\ input' = typed + 1 /\ typed' = typed + 1
    BY <1>7 DEF Type, storage
  <2>2. \A i \in 1..Len(messages) :
          messages[i].out => messages[i].text <= typed' /\ messages[i].text # input'
    BY <1>1, <2>1 DEF TypedInv
  <2> QED BY <1>1, <2>1, <2>2 DEF TypedInv, TypedOnce
<1>8. ASSUME NEW b \in 1..Len(buttons), ClickUser(b) \/ DeleteChat(b) \/ Rename(b)
      PROVE  TypedInv'
  <2>1. UNCHANGED <<input, typed>>
        /\ messages' \in {messages, Left(messages)}
    BY <1>8 DEF ClickUser, DeleteChat, Rename, SelectUser, storage, counts
  <2>2. CASE messages' = messages
    BY <1>2, <2>1, <2>2
  <2>3. CASE messages' = Left(messages)
    BY <1>4, <2>1, <2>3 DEF Left
  <2> QED BY <2>1, <2>2, <2>3
<1>9. CASE UNCHANGED vars
  BY <1>2, <1>9 DEF vars, storage, chatVars, counts
<1>10. CASE Next
  <2>1. CASE Reload \/ SignOut
    BY <1>2, <2>1 DEF Reload, SignOut, LoadPage, counts
  <2>2. CASE ShowSignup \/ ShowLogin \/ Generate \/ Login
    BY <1>2, <2>2 DEF ShowSignup, ShowLogin, Generate, Login, storage, chatVars, counts
  <2>3. ASSUME NEW s \in 1..Len(sockets), Open(s) \/ Answer(s) \/ Authorised(s) \/ SocketCloses(s)
        PROVE  TypedInv'
    BY <1>2, <2>3 DEF Open, Answer, Authorised, SocketCloses, SocketStep, storage, chatVars, counts
  <2>4. CASE \E name \in Peers : AddUser(name)
    BY <1>2, <2>4 DEF AddUser, counts
  <2> QED BY <1>5, <1>6, <1>7, <1>8, <1>10, <2>1, <2>2, <2>3, <2>4 DEF Next
<1> QED BY <1>9, <1>10

\* However many logins have added their listeners, a text is sent and saved at
\* most once (script.js 261-278).
THEOREM TypedCorrect == Spec => []TypedOnce
<1>1. Init => TypedInv
  <2> SUFFICES ASSUME Init PROVE TypedInv
    OBVIOUS
  <2> QED BY TypesInit, ChatAssumption DEF Init, TypedInv, TypedOnce
<1>2. TypedInv /\ [Next]_vars => TypedInv'
  BY TypedStep
<1>3. TypedInv => TypedOnce
  BY DEF TypedInv
<1> QED BY <1>1, <1>2, <1>3, PTL DEF Spec

----------------------------------------------------------------------------
(* The authors of the messages, and what they cause.                        *)

LEMMA AuthorsStep ==
  ASSUME ChatTypes, ChatTypes', [Next]_vars
  PROVE  [\A i \in 1..Len(messages') :
            LET m == messages'[i]
            IN  \/ m.out
                \/ \E u \in 1..Len(users') : users'[u].name = m.from
                \/ Stored(m.from) = {} /\ \E j \in 1..Len(messages) : messages[j] = m
                \/ \E b \in 1..Len(buttons) : buttons[b].user = m.from /\ DeleteChat(b)]_vars
<1> DEFINE Known(m) ==
             \/ m.out
             \/ \E u \in 1..Len(users') : users'[u].name = m.from
             \/ Stored(m.from) = {} /\ \E j \in 1..Len(messages) : messages[j] = m
             \/ \E b \in 1..Len(buttons) : buttons[b].user = m.from /\ DeleteChat(b)
<1> SUFFICES ASSUME Next PROVE \A i \in 1..Len(messages') : Known(messages'[i])
  BY Zenon
<1>1. messages \in Seq(Message) /\ TypeOK /\ Users(users)
  BY DEF ChatTypes, TypeOK, Users
<1>2. ASSUME NEW j \in 1..Len(messages),
             \A u \in 1..Len(users) : \E v \in 1..Len(users') : users'[v].name = users[u].name
      PROVE  Known(messages[j])
  <2>1. PICK m : m = messages[j]
    OBVIOUS
  <2>2. CASE Stored(m.from) = {}
    BY <2>1, <2>2, Zenon
  <2>3. CASE Stored(m.from) # {}
    <3>1. PICK u \in 1..Len(users) : users[u].name = m.from
      BY <2>3 DEF Stored
    <3>2. \E v \in 1..Len(users') : users'[v].name = m.from
      BY <1>2, <3>1
    <3> QED BY <2>1, <3>2, Zenon
  <2> QED BY <2>2, <2>3
<1>3. ASSUME UNCHANGED <<messages, users>>
      PROVE  \A i \in 1..Len(messages') : Known(messages'[i])
  BY <1>2, <1>3, Zenon
<1>4. ASSUME NEW m \in Message, messages' = Append(messages, m), Known(m),
             \A u \in 1..Len(users) : \E v \in 1..Len(users') : users'[v].name = users[u].name
      PROVE  \A i \in 1..Len(messages') : Known(messages'[i])
  <2>1. \A i \in 1..Len(messages') :
          \/ i \in 1..Len(messages) /\ messages'[i] = messages[i]
          \/ messages'[i] = m
    BY <1>1, <1>4
  <2> HIDE DEF Known
  <2> QED BY <1>2, <1>4, <2>1, Zenon
<1>5. ASSUME NEW s \in 1..Len(sockets), NEW from \in Peers, Receive(s, from)
      PROVE  \A i \in 1..Len(messages') : Known(messages'[i])
  <2>1. PICK m : m = Incoming(from, got + 1)
    OBVIOUS
  <2>2. /\ from \in Names /\ m \in Message /\ messages' = Append(messages, m)
        /\ users' = users \o NewUser(from)
    BY <1>5, <2>1, ReceiveIs
  <2>3. m.from = from
    BY <2>1 DEF Incoming
  <2>4. PICK entry : entry = [name |-> from, shape |-> "string", renamed |-> FALSE]
    OBVIOUS
  <2>5. /\ entry \in User /\ entry.name = from
        /\ NewUser(from) = <<>> => users' = users
        /\ NewUser(from) # <<>> => users' = Append(users, entry)
        /\ NewUser(from) = <<>> <=> Stored(from) # {}
    BY <1>1, <2>2, <2>4, NewUserIs DEF User
  <2>6. CASE NewUser(from) = <<>>
    <3>1. PICK u \in 1..Len(users) : users[u].name = from
      BY <2>5, <2>6 DEF Stored
    <3>2. Known(m)
      BY <2>3, <2>5, <2>6, <3>1, Zenon
    <3>3. \A u1 \in 1..Len(users) : \E v \in 1..Len(users') : users'[v].name = users[u1].name
      BY <2>5, <2>6
    <3> HIDE DEF Known
    <3> QED BY <1>4, <2>2, <3>2, <3>3
  <2>7. CASE NewUser(from) # <<>>
    <3>1. /\ Len(users) \in Nat /\ Len(users') = Len(users) + 1
          /\ users'[Len(users) + 1] = entry
          /\ \A i \in 1..Len(users) : users'[i] = users[i]
      <4>1. users \in Seq(User)
        BY <1>1 DEF Users
      <4>2. users' = Append(users, entry)
        BY <2>5, <2>7
      <4> QED BY ONLY <4>1, <4>2, <2>5
    <3>2. /\ Len(users) + 1 \in 1..Len(users')
          /\ \A i \in 1..Len(users) : i \in 1..Len(users')
      BY <3>1
    <3>3. Known(m)
      BY <2>3, <2>5, <3>1, <3>2, Zenon
    <3>4. \A u1 \in 1..Len(users) : \E v \in 1..Len(users') : users'[v].name = users[u1].name
      BY <3>1, <3>2
    <3> HIDE DEF Known
    <3> QED BY <1>4, <2>2, <3>3, <3>4
  <2> QED BY <2>6, <2>7
<1>6. CASE ClickSend
  <2>1. PICK m : m = Outgoing(input)
    OBVIOUS
  <2>2. m \in Message /\ messages' = Append(messages, m) /\ m.out
    BY <1>6, <2>1, SendIs DEF Outgoing
  <2>3. UNCHANGED users
    BY <1>6 DEF ClickSend
  <2> QED BY <1>4, <2>2, <2>3, Zenon
<1>7. ASSUME NEW b \in 1..Len(buttons), DeleteChat(b)
      PROVE  \A i \in 1..Len(messages') : Known(messages'[i])
  <2>1. messages' = Left(messages) /\ users' = StoredWithout(buttons[b].user)
    BY <1>7 DEF DeleteChat
  <2>2. PICK F, G : F = messages' /\ G = users'
    OBVIOUS
  <2>3. PICK some, rest : /\ F = Picked(messages, some)
                          /\ rest = (1..Len(users)) \ Stored(buttons[b].user)
                          /\ G = Picked(users, rest)
    BY <2>1, <2>2, Zenon DEF Left, StoredWithout
  <2>4. PICK g : Picks(F, messages, some, g)
    BY <1>1, <2>3, PickedIs
  <2>5. users \in Seq(User)
    BY <1>1 DEF Users
  <2>6. PICK h : Picks(G, users, rest, h)
    BY <2>3, <2>5, PickedIs
  <2>7. ASSUME NEW i \in 1..Len(F)
        PROVE  Known(F[i])
    <3>1. PICK j \in 1..Len(messages) : F[i] = messages[j]
      BY <2>4 DEF Picks
    <3>2. PICK m : m = F[i]
      OBVIOUS
    <3>3. CASE Stored(m.from) = {}
      BY <3>1, <3>2, <3>3, Zenon
    <3>4. CASE buttons[b].user = m.from
      BY <1>7, <3>2, <3>4, Zenon
    <3>5. CASE Stored(m.from) # {} /\ buttons[b].user # m.from
      <4>1. PICK u \in 1..Len(users) : users[u].name = m.from
        BY <3>5 DEF Stored
      <4>2. u \in rest
        BY <2>3, <3>5, <4>1 DEF Stored
      <4>3. PICK v \in 1..Len(G) : h[v] = u
        BY <2>6, <4>2 DEF Picks
      <4>4. G[v].name = m.from
        BY <2>6, <4>1, <4>3 DEF Picks
      <4> QED BY <2>2, <3>2, <4>3, <4>4, Zenon
    <3> QED BY <3>3, <3>4, <3>5
  <2> HIDE DEF Known
  <2> QED BY <2>2, <2>7, Zenon
<1>8. ASSUME NEW b \in 1..Len(buttons), Rename(b)
      PROVE  \A i \in 1..Len(messages') : Known(messages'[i])
  <2>1. users' = Renamed(buttons[b].user) /\ messages' = messages
    BY <1>8 DEF Rename
  <2>2. \A u \in 1..Len(users) : \E v \in 1..Len(users') : users'[v].name = users[u].name
    BY <1>1, <2>1, RenamedIs
  <2> HIDE DEF Known
  <2> QED BY <1>2, <2>1, <2>2, Zenon
<1>9. ASSUME NEW name \in Peers, AddUser(name)
      PROVE  \A i \in 1..Len(messages') : Known(messages'[i])
  <2>1. PICK entry : entry = [name |-> name, shape |-> "object", renamed |-> FALSE]
    OBVIOUS
  <2>2. entry \in User
    BY <2>1, ChatAssumption DEF User
  <2>3. users' = Put(entry) /\ messages' = messages
    BY <1>9, <2>1 DEF AddUser
  <2>4. \A u \in 1..Len(users) : \E v \in 1..Len(users') : users'[v].name = users[u].name
    BY <1>1, <2>2, <2>3, PutIs
  <2> HIDE DEF Known
  <2> QED BY <1>2, <2>3, <2>4, Zenon
<1>10. CASE \/ Reload \/ SignOut \/ ShowSignup \/ ShowLogin \/ Generate \/ Login \/ Type
            \/ \E s \in 1..Len(sockets) : Open(s) \/ Answer(s) \/ Authorised(s) \/ SocketCloses(s)
            \/ \E b \in 1..Len(buttons) : ClickUser(b)
  <2>1. UNCHANGED <<messages, users>>
    BY <1>10 DEF Reload, SignOut, LoadPage, ShowSignup, ShowLogin, Generate, Login, Type,
                 Open, Answer, Authorised, SocketCloses, SocketStep, ClickUser, storage
  <2> HIDE DEF Known
  <2> QED BY <1>3, <2>1
<1> HIDE DEF Known
<1> QED BY <1>5, <1>6, <1>7, <1>8, <1>9, <1>10 DEF Next

\* The author of a message that is received becomes a stored user, and of one
\* that is stored stays one, also across reloads, until it is deleted
\* (script.js 331-342).
THEOREM AuthorsCorrect == Spec => KnownAuthors
<1>1. Init => ChatTypes
  BY TypesInit
<1>2. ChatTypes /\ [Next]_vars => ChatTypes'
  BY TypesStep
<1>3. ChatTypes /\ ChatTypes' /\ [Next]_vars =>
        [\A i \in 1..Len(messages') :
           LET m == messages'[i]
           IN  \/ m.out
               \/ \E u \in 1..Len(users') : users'[u].name = m.from
               \/ Stored(m.from) = {} /\ \E j \in 1..Len(messages) : messages[j] = m
               \/ \E b \in 1..Len(buttons) : buttons[b].user = m.from /\ DeleteChat(b)]_vars
  BY AuthorsStep
<1> QED BY <1>1, <1>2, <1>3, PTL DEF Spec, KnownAuthors

\* A user stored as an object has a button, also after reloads, renames and the
\* deletion of others.
ListedInv ==
  /\ ChatTypes
  /\ \A i \in 1..Len(users) : users[i].shape = "object" =>
       \E b \in 1..Len(buttons) : buttons[b].user = users[i].name

LEMMA ListedStep ==
  ASSUME ListedInv, [Next]_vars
  PROVE  ListedInv'
<1>1. /\ ChatTypes /\ ChatTypes' /\ TypeOK /\ buttons \in Seq(Button) /\ Users(users)
      /\ users \in Seq(User) /\ Len(users) \in Nat
  BY TypesStep DEF ListedInv, ChatTypes, TypeOK, Users
<1> DEFINE Listed(list, name) == \E b \in 1..Len(list) : list[b].user = name
<1>2. \A i \in 1..Len(users) : users[i].shape = "object" => Listed(buttons, users[i].name)
  BY DEF ListedInv
<1> SUFFICES ASSUME NEW i \in 1..Len(users'), users'[i].shape = "object"
             PROVE  Listed(buttons', users'[i].name)
  BY <1>1, Zenon DEF ListedInv
<1>3. ASSUME NEW list \in Seq(Button), NEW e, NEW name, Listed(list, name)
      PROVE  Listed(Append(list, e), name)
  <2>1. PICK b \in 1..Len(list) : list[b].user = name
    BY <1>3
  <2>2. b \in 1..Len(Append(list, e)) /\ Append(list, e)[b] = list[b]
    OBVIOUS
  <2> QED BY <2>1, <2>2, Zenon
<1>4. ASSUME NEW list \in Seq(Button), NEW new, SameButtons(new, list),
             NEW name, Listed(list, name)
      PROVE  Listed(new, name)
  BY <1>4 DEF SameButtons
<1>5. ASSUME UNCHANGED <<users, buttons>>
      PROVE  Listed(buttons', users'[i].name)
  BY <1>2, <1>5
<1>6. ASSUME NEW remembered, LoadPage(remembered)
      PROVE  Listed(buttons', users'[i].name)
  <2>1. users' = users
    BY <1>6 DEF LoadPage
  <2>2. /\ Len(buttons') = Len(users)
        /\ \A j \in 1..Len(users) : buttons'[j].user = Named(users[j])
    BY <1>1, <1>6, LoadedIs DEF LoadPage
  <2>3. i \in 1..Len(users) /\ Named(users[i]) = users[i].name
    BY <2>1 DEF Named
  <2> QED BY <2>1, <2>2, <2>3
<1>7. ASSUME NEW s \in 1..Len(sockets), NEW from \in Peers, Receive(s, from)
      PROVE  Listed(buttons', users'[i].name)
  <2>1. /\ from \in Names /\ users' = users \o NewUser(from)
        /\ ButtonsWith(from) \in Seq(Button)
        /\ selectedUser = from => buttons' = ButtonsWith(from)
        /\ selectedUser # from => buttons' = Mark(ButtonsWith(from), from)
    BY <1>1, <1>7, ReceiveIs
  <2>2. PICK name : name = users'[i].name
    OBVIOUS
  <2>3. Listed(buttons, name)
    <3>1. PICK entry : entry = [name |-> from, shape |-> "string", renamed |-> FALSE]
      OBVIOUS
    <3>2. users' = users \/ users' = Append(users, entry)
      BY <1>1, <2>1, <3>1, NewUserIs
    <3>3. CASE users' = users
      BY <1>2, <2>2, <3>3
    <3>4. CASE users' = Append(users, entry)
      <4>1. entry.shape # "object"
        BY <3>1
      <4>2. \/ i \in 1..Len(users) /\ users'[i] = users[i]
            \/ users'[i] = entry
        <5>1. entry \in User
          BY <2>1, <3>1 DEF User
        <5> QED BY <1>1, <3>4, <5>1
      <4>3. i \in 1..Len(users) /\ users'[i] = users[i]
        BY <4>1, <4>2
      <4> HIDE DEF Listed
      <4> QED BY <1>2, <2>2, <4>3
    <3> QED BY <3>2, <3>3, <3>4
  <2>4. Listed(ButtonsWith(from), name)
    <3> HIDE DEF Listed
    <3> QED BY <1>1, <1>3, <2>3 DEF ButtonsWith
  <2>5. PICK list : list = ButtonsWith(from)
    OBVIOUS
  <2>6. SameButtons(Mark(list, from), list)
    BY <2>1, <2>5, MarkIs
  <2> HIDE DEF Listed
  <2>7. Listed(Mark(list, from), name) /\ Listed(list, name)
    BY <1>4, <2>1, <2>4, <2>5, <2>6
  <2> QED BY <2>1, <2>2, <2>5, <2>7
<1>8. ASSUME NEW b \in 1..Len(buttons), ClickUser(b) \/ Rename(b)
      PROVE  Listed(buttons', users'[i].name)
  <2>1. buttons' = [Kept(buttons) EXCEPT ![b].selected = TRUE, ![b].unread = FALSE]
    BY <1>8 DEF ClickUser, Rename
  <2>2. /\ SameButtons(buttons', buttons)
        /\ \A j \in 1..Len(buttons) : buttons'[j].selected => j = b
    <3> HIDE DEF Listed
    <3> QED BY <1>1, <2>1, ClickedIs
  <2>3. i \in 1..Len(users) /\ users'[i].name = users[i].name /\ users'[i].shape = users[i].shape
    <3>1. CASE users' = users
      BY <3>1
    <3>2. CASE Rename(b)
      <4>1. users' = Renamed(buttons[b].user)
        BY <3>2 DEF Rename
      <4> QED BY <1>1, <4>1, RenamedIs
    <3> QED BY <1>8, <3>1, <3>2 DEF ClickUser, storage
  <2>4. Listed(buttons, users[i].name)
    BY <1>2, <2>3
  <2> HIDE DEF Listed
  <2> QED BY <1>1, <1>4, <2>2, <2>3, <2>4
<1>9. ASSUME NEW b \in 1..Len(buttons), DeleteChat(b)
      PROVE  Listed(buttons', users'[i].name)
  <2>1. /\ users' = StoredWithout(buttons[b].user)
        /\ buttons' = Kept(Without(buttons, b))
    BY <1>9 DEF DeleteChat
  <2>2. PICK G, rest : G = users' /\ rest = (1..Len(users)) \ Stored(buttons[b].user)
    OBVIOUS
  <2>3. G = Picked(users, rest)
    BY <2>1, <2>2, Zenon DEF StoredWithout
  <2>4. PICK h : Picks(G, users, rest, h)
    BY <1>1, <2>3, PickedIs
  <2>5. PICK u \in 1..Len(users) : u \in rest /\ G[i] = users[u]
    BY <2>2, <2>4 DEF Picks
  <2>6. users[u].name # buttons[b].user
    BY <2>2, <2>5 DEF Stored
  <2>7. PICK name : name = users[u].name
    OBVIOUS
  <2>8. Listed(buttons, name)
    BY <1>2, <2>2, <2>5, <2>7
  <2>9. PICK list : list = Without(buttons, b)
    OBVIOUS
  <2>10. Listed(list, name)
    <3>1. PICK j \in 1..Len(buttons) : buttons[j].user = name
      BY <2>8
    <3>2. j # b
      BY <2>6, <2>7, <3>1
    <3> QED BY <1>1, <2>9, <3>1, <3>2, WithoutIs
  <2>11. list \in Seq(Button) /\ SameButtons(Kept(list), list)
    BY <1>1, <2>9, WithoutIs, KeptIs
  <2> HIDE DEF Listed
  <2>12. Listed(buttons', name)
    BY <1>4, <2>1, <2>9, <2>10, <2>11
  <2> QED BY <2>2, <2>5, <2>7, <2>12
<1>10. ASSUME NEW name \in Peers, AddUser(name)
       PROVE  Listed(buttons', users'[i].name)
  <2>1. PICK entry : entry = [name |-> name, shape |-> "object", renamed |-> FALSE]
    OBVIOUS
  <2>2. entry \in User /\ entry.name = name
    BY <2>1, ChatAssumption DEF User
  <2>3. users' = Put(entry) /\ buttons' = Append(buttons, NewButton(name))
    BY <1>10, <2>1 DEF AddUser
  <2>4. users'[i] = entry \/ (i \in 1..Len(users) /\ users'[i] = users[i])
    BY <1>1, <2>2, <2>3, PutIs
  <2>5. CASE users'[i] = entry
    <3>1. NewButton(name) \in Button /\ NewButton(name).user = name
      BY ChatAssumption DEF NewButton, Button
    <3>2. /\ Len(buttons) + 1 \in 1..Len(buttons')
          /\ buttons'[Len(buttons) + 1] = NewButton(name)
      BY <1>1, <2>3, <3>1
    <3> QED BY <2>2, <2>5, <3>1, <3>2
  <2>6. CASE i \in 1..Len(users) /\ users'[i] = users[i]
    <3> HIDE DEF Listed
    <3> QED BY <1>1, <1>2, <1>3, <2>3, <2>6
  <2> QED BY <2>4, <2>5, <2>6
<1>11. CASE UNCHANGED vars
  BY <1>5, <1>11 DEF vars, storage, chatVars
<1>12. CASE Next
  <2> HIDE DEF Listed
  <2>1. CASE Reload \/ SignOut
    BY <1>6, <2>1 DEF Reload, SignOut
  <2>2. CASE ShowSignup \/ ShowLogin \/ Generate \/ Login \/ Type \/ ClickSend
    BY <1>5, <2>2
       DEF ShowSignup, ShowLogin, Generate, Login, Type, ClickSend, storage, chatVars
  <2>3. ASSUME NEW s \in 1..Len(sockets), Open(s) \/ Answer(s) \/ Authorised(s) \/ SocketCloses(s)
        PROVE  Listed(buttons', users'[i].name)
    BY <1>5, <2>3 DEF Open, Answer, Authorised, SocketCloses, SocketStep, storage, chatVars
  <2> QED BY <1>7, <1>8, <1>9, <1>10, <1>12, <2>1, <2>2, <2>3 DEF Next
<1> QED BY <1>11, <1>12

LEMMA UnreadStep ==
  ASSUME ListedInv, [Next]_vars
  PROVE  [LET from == messages'[Len(messages')].from IN
          got' # got /\ from # selectedUser
            /\ (\A i \in Stored(from) : users[i].shape = "object")
            => \E b \in 1..Len(buttons') : buttons'[b].user = from /\ buttons'[b].unread]_vars
<1> SUFFICES ASSUME NEW last, last = messages'[Len(messages')].from, Next,
                    got' # got, last # selectedUser,
                    \A i \in Stored(last) : users[i].shape = "object"
             PROVE  \E b \in 1..Len(buttons') : buttons'[b].user = last /\ buttons'[b].unread
  BY Zenon
<1>1. ChatTypes /\ messages \in Seq(Message) /\ buttons \in Seq(Button) /\ TypeOK
  BY DEF ListedInv, ChatTypes, TypeOK
<1>2. PICK s \in 1..Len(sockets), from \in Peers : Receive(s, from)
  BY DEF Next, Reload, SignOut, LoadPage, ShowSignup, ShowLogin, Generate, Login, Open, Answer,
         Authorised, SocketCloses, SocketStep, Type, ClickSend, ClickUser, DeleteChat,
         Rename, AddUser, counts
<1>3. PICK m : m = Incoming(from, got + 1)
  OBVIOUS
<1>4. /\ from \in Names /\ m \in Message /\ messages' = Append(messages, m)
      /\ ButtonsWith(from) \in Seq(Button)
      /\ selectedUser # from => buttons' = Mark(ButtonsWith(from), from)
  BY <1>1, <1>2, <1>3, ReceiveIs
<1>5. messages'[Len(messages')] = m
  BY <1>1, <1>4
<1>6. last = from
  BY <1>3, <1>5 DEF Incoming
<1>7. PICK list : list = ButtonsWith(from)
  OBVIOUS
<1>8. \E b \in 1..Len(list) : list[b].user = from
  <2>1. CASE NewUser(from) = <<>>
    <3>1. PICK i \in 1..Len(users) : users[i].name = from /\ users[i].shape = "object"
      <4>1. Stored(from) # {}
        BY <1>1, <1>4, <2>1, NewUserIs
      <4> QED BY <1>6, <4>1 DEF Stored
    <3>2. \E b \in 1..Len(buttons) : buttons[b].user = from
      BY <3>1 DEF ListedInv
    <3> QED BY <1>7, <2>1, <3>2 DEF ButtonsWith
  <2>2. CASE NewUser(from) # <<>>
    <3>1. PICK e : e = [NewButton(from) EXCEPT !.unread = TRUE]
      OBVIOUS
    <3>2. e \in Button /\ e.user = from
      BY <1>4, <3>1 DEF NewButton, Button
    <3>3. list = Append(buttons, e)
      BY <1>7, <2>2, <3>1 DEF ButtonsWith
    <3>4. Len(buttons) + 1 \in 1..Len(list) /\ list[Len(buttons) + 1] = e
      BY <1>1, <3>2, <3>3
    <3> QED BY <3>2, <3>4
  <2> QED BY <2>1, <2>2
<1>9. PICK marked : marked = Mark(list, from)
  OBVIOUS
<1>10. /\ Len(marked) = Len(list)
       /\ \A i \in 1..Len(list) : marked[i].user = list[i].user
       /\ \E i \in 1..Len(list) : list[i].user = from /\ marked[i].unread
  BY <1>4, <1>7, <1>8, <1>9, MarkIs DEF SameButtons
<1>11. buttons' = marked
  BY <1>4, <1>6, <1>7, <1>9
<1> QED BY <1>6, <1>10, <1>11

\* A user who writes and is not selected is marked, whatever was added, deleted
\* and reloaded before, except when stored as a string (script.js 340, 347).
THEOREM UnreadCorrect == Spec => UnreadNotified
<1>1. Init => ListedInv
  BY TypesInit DEF Init, ListedInv
<1>2. ListedInv /\ [Next]_vars => ListedInv'
  BY ListedStep
<1>3. ListedInv /\ [Next]_vars =>
        [LET from == messages'[Len(messages')].from IN
         got' # got /\ from # selectedUser
           /\ (\A i \in Stored(from) : users[i].shape = "object")
           => \E b \in 1..Len(buttons') : buttons'[b].user = from /\ buttons'[b].unread]_vars
  BY UnreadStep
<1> QED BY <1>1, <1>2, <1>3, PTL DEF Spec, UnreadNotified, Notified

=============================================================================
