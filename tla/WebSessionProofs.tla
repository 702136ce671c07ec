-------------------------- MODULE WebSessionProofs --------------------------
(***************************************************************************)
(* However packets are cut, merged and reordered between the relay and the *)
(* page, a message is saved at most once, and a challenge that comes in    *)
(* one piece is answered once.                                             *)
(***************************************************************************)
EXTENDS WebSession, WsProxyProofs

----------------------------------------------------------------------------
(* The messages whose header or payload is in a sequence of tokens.        *)

Token == [part : {"hdr", "pay"}, p : Kind, n : Nat]

MessagePart(t, part) == t.part = part /\ t.p = "message"
Nums(q, part) == {q[i].n : i \in {j \in 1..Len(q) : MessagePart(q[j], part)}}
NoRepeat(q) ==
  \A i, j \in 1..Len(q) :
    MessagePart(q[i], "hdr") /\ MessagePart(q[j], "hdr") /\ q[i].n = q[j].n => i = j

LEMMA NumsCut ==
  ASSUME NEW q \in Seq(Token), NEW k \in 1..Len(q)
  PROVE  LET a == SubSeq(q, 1, k)
             b == SubSeq(q, k + 1, Len(q))
         IN  /\ a \in Seq(Token) /\ b \in Seq(Token)
             /\ \A part : Nums(a, part) \subseteq Nums(q, part)
                          /\ Nums(b, part) \subseteq Nums(q, part)
             /\ NoRepeat(q) => NoRepeat(b) /\ Nums(a, "hdr") \cap Nums(b, "hdr") = {}
<1> DEFINE a == SubSeq(q, 1, k)
           b == SubSeq(q, k + 1, Len(q))
<1>1. Len(q) \in Nat /\ k \in Nat /\ 1 <= k /\ k <= Len(q) /\ 0 \in Nat
  BY LenProperties
<1>2. /\ a \in Seq(Token) /\ b \in Seq(Token)
      /\ a = Slice(q, 0, k) /\ b = Slice(q, k, Len(q))
  BY PieceIs
<1> HIDE DEF a, b
<1>3. /\ Len(a) = k /\ \A i \in 1..k : a[i] = q[i]
      /\ Len(b) = Len(q) - k /\ \A i \in 1..Len(q) - k : b[i] = q[k + i]
  <2>1. /\ Len(Slice(q, 0, k)) = k - 0
        /\ \A i \in 1..k - 0 : Slice(q, 0, k)[i] = q[0 + i]
    <3>1. 0 <= k
      BY <1>1
    <3>2. q \in Seq(Token) /\ 0 \in Nat /\ k \in Nat /\ 0 <= k /\ k <= Len(q)
      BY <1>1, <3>1
    <3> QED BY ONLY <3>2, SliceIs
  <2>2. /\ Len(Slice(q, k, Len(q))) = Len(q) - k
        /\ \A i \in 1..Len(q) - k : Slice(q, k, Len(q))[i] = q[k + i]
    <3>1. Len(q) <= Len(q)
      BY <1>1
    <3> QED BY <1>1, <3>1, SliceIs, Zenon
  <2>3. k - 0 = k /\ \A i \in 1..k : 0 + i = i
    BY <1>1
  <2> QED BY <1>2, <2>1, <2>2, <2>3
<1>4. \A i \in 1..Len(b) : k + i \in 1..Len(q) /\ i \in Nat
  BY <1>1, <1>3
<1>5. \A part : Nums(a, part) \subseteq Nums(q, part)
  <2> SUFFICES ASSUME NEW part, NEW i \in 1..Len(a), MessagePart(a[i], part)
               PROVE  a[i].n \in Nums(q, part)
    BY DEF Nums
  <2>1. i \in 1..Len(q) /\ a[i] = q[i]
    BY <1>1, <1>3
  <2> QED BY ONLY <2>1, MessagePart(a[i], part) DEF Nums
<1>6. \A part : Nums(b, part) \subseteq Nums(q, part)
  <2> SUFFICES ASSUME NEW part, NEW i \in 1..Len(b), MessagePart(b[i], part)
               PROVE  b[i].n \in Nums(q, part)
    BY DEF Nums
  <2>1. k + i \in 1..Len(q) /\ b[i] = q[k + i]
    BY <1>3, <1>4
  <2> QED BY ONLY <2>1, MessagePart(b[i], part) DEF Nums
<1>7. ASSUME NoRepeat(q)
      PROVE  NoRepeat(b) /\ Nums(a, "hdr") \cap Nums(b, "hdr") = {}
  <2>1. NoRepeat(b)
    <3> SUFFICES ASSUME NEW i \in 1..Len(b), NEW j \in 1..Len(b),
                        MessagePart(b[i], "hdr"), MessagePart(b[j], "hdr"), b[i].n = b[j].n
                 PROVE  i = j
      BY DEF NoRepeat
    <3>1. k + i = k + j
      BY <1>3, <1>4, <1>7 DEF NoRepeat
    <3> QED BY <1>1, <1>4, <3>1
  <2>2. ASSUME NEW i \in 1..Len(a), NEW j \in 1..Len(b),
               MessagePart(a[i], "hdr"), MessagePart(b[j], "hdr"), a[i].n = b[j].n
        PROVE  FALSE
    <3>1. i \in 1..Len(q) /\ i = k + j
      BY <1>1, <1>3, <1>4, <1>7, <2>2 DEF NoRepeat
    <3> QED BY <1>1, <1>3, <3>1
  <2> QED BY <2>1, <2>2 DEF Nums
<1> QED BY <1>2, <1>5, <1>6, <1>7 DEF a, b

LEMMA NumsGrow ==
  ASSUME NEW q \in Seq(Token), NEW t \in Token
  PROVE  /\ q \o <<t>> \in Seq(Token)
         /\ \A part : Nums(q \o <<t>>, part)
                        = Nums(q, part) \cup (IF MessagePart(t, part) THEN {t.n} ELSE {})
         /\ NoRepeat(q) /\ (MessagePart(t, "hdr") => t.n \notin Nums(q, "hdr"))
              => NoRepeat(q \o <<t>>)
<1> DEFINE r == q \o <<t>>
<1>1. /\ Len(q) \in Nat /\ r \in Seq(Token) /\ Len(r) = Len(q) + 1
      /\ \A i \in 1..Len(q) : r[i] = q[i]
      /\ r[Len(q) + 1] = t
  OBVIOUS
<1> HIDE DEF r
<1>2. \A i \in 1..Len(r) : i \in 1..Len(q) \/ i = Len(q) + 1
  BY <1>1
<1>3. \A i \in 1..Len(q) : i \in 1..Len(r)
  BY <1>1
<1>4. Len(q) + 1 \in 1..Len(r)
  BY <1>1
<1>5. ASSUME NEW part
      PROVE  Nums(r, part) = Nums(q, part) \cup (IF MessagePart(t, part) THEN {t.n} ELSE {})
  BY <1>1, <1>2, <1>3, <1>4 DEF Nums
<1>6. ASSUME NoRepeat(q), MessagePart(t, "hdr") => t.n \notin Nums(q, "hdr")
      PROVE  NoRepeat(r)
  <2>1. \A i \in 1..Len(q) :
          MessagePart(r[i], "hdr") /\ MessagePart(t, "hdr") => r[i].n # t.n
    BY <1>1, <1>6 DEF Nums
  <2>2. \A i, j \in 1..Len(q) :
          MessagePart(r[i], "hdr") /\ MessagePart(r[j], "hdr") /\ r[i].n = r[j].n => i = j
    BY <1>1, <1>6 DEF NoRepeat
  <2> QED BY <1>1, <1>2, <2>1, <2>2 DEF NoRepeat
<1> QED BY <1>1, <1>5, <1>6 DEF r

----------------------------------------------------------------------------
(* Where the header of a message can be.                                   *)

\* What the relay has sent is tokens, on the network, in the messages on their
\* way to the page, and in the calls of onmessage.
TokensOK ==
  /\ toProxy \in Seq(Token) /\ down \in Seq(Seq(Token))
  /\ relayed \in Nat /\ calls \in Nat /\ saved \in Seq(Nat)
  /\ \A h \in pending : h.bytes \in Seq(Token) /\ h.n \in Nat /\ h.n <= calls

\* The last message whose header the relay has sent.
Begun == IF srv = "relay2" THEN relayed + 1 ELSE relayed
Relayed(q) ==
  /\ \A n \in Nums(q, "hdr") : n <= Begun
  /\ \A n \in Nums(q, "pay") : n <= relayed
AllRelayed ==
  /\ Relayed(toProxy)
  /\ \A i \in 1..Len(down) : Relayed(down[i])
  /\ \A h \in pending : Relayed(h.bytes)
  /\ \A i \in 1..Len(saved) : saved[i] <= relayed

\* A header is in one place: on the network, in one message, in one call, or,
\* as a number, among what is saved.
Meet(q, r) == Nums(q, "hdr") \cap Nums(r, "hdr") # {}
OnNetwork ==
  /\ NoRepeat(toProxy)
  /\ \A i \in 1..Len(down) : ~Meet(toProxy, down[i])
  /\ \A h \in pending : ~Meet(toProxy, h.bytes)
  /\ \A i \in 1..Len(saved) : saved[i] \notin Nums(toProxy, "hdr")
InMessages ==
  /\ \A i, j \in 1..Len(down) : i # j => ~Meet(down[i], down[j])
  /\ \A i \in 1..Len(down), h \in pending : ~Meet(down[i], h.bytes)
  /\ \A i \in 1..Len(down), j \in 1..Len(saved) : saved[j] \notin Nums(down[i], "hdr")
InCalls ==
  /\ \A h, g \in pending : h # g => ~Meet(h.bytes, g.bytes)
  /\ \A h \in pending, i \in 1..Len(saved) : saved[i] \notin Nums(h.bytes, "hdr")
InStore == \A i, j \in 1..Len(saved) : i # j => saved[i] # saved[j]

SavedInv == TokensOK /\ AllRelayed /\ OnNetwork /\ InMessages /\ InCalls /\ InStore

\* A step that moves no token towards the page, except that it may drop some.
LEMMA SavedQuiet ==
  ASSUME SavedInv, UNCHANGED <<down, saved, relayed, calls>>,
         toProxy' = toProxy \/ toProxy' = <<>>,
         pending' \subseteq pending,
         srv' = "relay2" <=> srv = "relay2"
  PROVE  SavedInv'
<1> USE DEF SavedInv
<1>1. Begun' = Begun
  BY DEF Begun
<1>2. \A q : Relayed(q)' <=> Relayed(q)
  BY <1>1 DEF Relayed
<1>3. toProxy' = <<>> => /\ \A part : Nums(toProxy', part) = {}
                         /\ NoRepeat(toProxy') /\ toProxy' \in Seq(Token)
  BY EmptySeq DEF Nums, NoRepeat
<1>4. TokensOK'
  BY <1>3 DEF TokensOK
<1>5. AllRelayed'
  <2>1. Relayed(toProxy)'
    BY <1>1, <1>3 DEF AllRelayed, Relayed
  <2> QED BY <1>2, <2>1 DEF AllRelayed
<1>6. OnNetwork'
  BY <1>3 DEF OnNetwork, Meet
<1>7. InMessages' /\ InCalls' /\ InStore'
  BY DEF InMessages, InCalls, InStore
<1> QED BY <1>4, <1>5, <1>6, <1>7

\* The relay sends a token: of a message, if any, the next one.
LEMMA SavedSends ==
  ASSUME SavedInv, NEW t \in Token, toProxy' = toProxy \o <<t>>,
         UNCHANGED <<down, pending, saved, calls>>,
         relayed' \in Nat, relayed <= relayed', Begun <= Begun',
         MessagePart(t, "hdr") => Begun < t.n /\ t.n <= Begun',
         MessagePart(t, "pay") => t.n <= relayed'
  PROVE  SavedInv'
<1> USE DEF SavedInv
<1>1. /\ toProxy \in Seq(Token) /\ relayed \in Nat /\ relayed' \in Nat
      /\ Begun \in Nat /\ Begun' \in Nat
  <2>1. toProxy \in Seq(Token) /\ relayed \in Nat /\ relayed' \in Nat
    BY DEF TokensOK
  <2>2. Begun \in Nat
    BY ONLY <2>1 DEF Begun
  <2>3. Begun' \in Nat
    <3>1. Begun' = IF srv' = "relay2" THEN relayed' + 1 ELSE relayed'
      BY DEF Begun
    <3>2. relayed' + 1 \in Nat
      <4>1. \A m \in Nat : m + 1 \in Nat
        OBVIOUS
      <4> QED BY ONLY <2>1, <4>1, Zenon
    <3> QED BY ONLY <2>1, <3>1, <3>2
  <2> QED BY <2>1, <2>2, <2>3
<1>2. \A q, part : q \in Seq(Token) => Nums(q, part) \subseteq Nat
  <2> SUFFICES ASSUME NEW q \in Seq(Token), NEW part, NEW n \in Nums(q, part)
               PROVE  n \in Nat
    OBVIOUS
  <2>1. PICK i \in 1..Len(q) : n = q[i].n
    BY DEF Nums
  <2>2. q[i] \in Token
    BY <2>1, ElementOfSeq
  <2> QED BY <2>1, <2>2 DEF Token
<1>3. /\ Relayed(toProxy)
      /\ \A n \in Nums(toProxy, "hdr") : n \in Nat /\ n <= Begun
      /\ \A n \in Nums(toProxy, "pay") : n \in Nat /\ n <= relayed
  BY <1>1, <1>2 DEF AllRelayed, Relayed
<1>4. t.n \in Nat
  BY DEF Token
<1>5. MessagePart(t, "hdr") => t.n \notin Nums(toProxy, "hdr")
  BY <1>1, <1>3, <1>4
<1>6. /\ toProxy' \in Seq(Token) /\ NoRepeat(toProxy')
      /\ \A part : Nums(toProxy', part)
                     = Nums(toProxy, part) \cup (IF MessagePart(t, part) THEN {t.n} ELSE {})
  BY <1>1, <1>5, NumsGrow DEF OnNetwork
<1>7. \A q : q \in Seq(Token) /\ Relayed(q) => Relayed(q)'
  <2> SUFFICES ASSUME NEW q \in Seq(Token), Relayed(q) PROVE Relayed(q)'
    OBVIOUS
  <2>1. Nums(q, "hdr") \subseteq Nat /\ Nums(q, "pay") \subseteq Nat
    BY <1>2
  <2>2. \A n \in Nums(q, "hdr") : n <= Begun'
    BY <1>1, <2>1 DEF Relayed
  <2>3. \A n \in Nums(q, "pay") : n <= relayed'
    BY <1>1, <2>1 DEF Relayed
  <2> QED BY <2>2, <2>3 DEF Relayed
<1>8. \A q : q \in Seq(Token) /\ Relayed(q) /\ MessagePart(t, "hdr") => t.n \notin Nums(q, "hdr")
  BY <1>1, <1>2, <1>4 DEF Relayed
<1>9. \A i \in 1..Len(down) : down[i] \in Seq(Token) /\ Relayed(down[i])
  BY ElementOfSeq DEF TokensOK, AllRelayed
<1>10. \A h \in pending : h.bytes \in Seq(Token) /\ Relayed(h.bytes)
  BY DEF TokensOK, AllRelayed
<1>11. \A i \in 1..Len(saved) : saved[i] \in Nat /\ saved[i] <= relayed /\ saved[i] <= Begun
  <2>1. \A i \in 1..Len(saved) : saved[i] \in Nat /\ saved[i] <= relayed
    BY ElementOfSeq DEF TokensOK, AllRelayed
  <2> QED BY <1>1, <2>1 DEF Begun
<1>12. TokensOK'
  BY <1>6 DEF TokensOK
<1>13. AllRelayed'
  <2>1. Relayed(toProxy)'
    <3>1. \A n \in Nums(toProxy', "hdr") : n <= Begun'
      BY <1>1, <1>3, <1>6
    <3>2. \A n \in Nums(toProxy', "pay") : n <= relayed'
      BY <1>1, <1>3, <1>6
    <3> QED BY <3>1, <3>2 DEF Relayed
  <2>2. \A i \in 1..Len(saved) : saved[i] <= relayed'
    BY <1>1, <1>11
  <2>3. \A i \in 1..Len(down) : Relayed(down[i])'
    BY <1>7, <1>9
  <2>4. \A h \in pending : Relayed(h.bytes)'
    BY <1>7, <1>10
  <2> QED BY <2>1, <2>2, <2>3, <2>4 DEF AllRelayed
<1>14. OnNetwork'
  <2>1. \A i \in 1..Len(down) : ~Meet(toProxy', down[i])
    BY <1>6, <1>8, <1>9 DEF OnNetwork, Meet
  <2>2. \A h \in pending : ~Meet(toProxy', h.bytes)
    BY <1>6, <1>8, <1>10 DEF OnNetwork, Meet
  <2>3. \A i \in 1..Len(saved) : saved[i] \notin Nums(toProxy', "hdr")
    BY <1>1, <1>4, <1>6, <1>11 DEF OnNetwork
  <2> QED BY <1>6, <2>1, <2>2, <2>3 DEF OnNetwork, Meet
<1>15. InMessages' /\ InCalls' /\ InStore'
  BY DEF InMessages, InCalls, InStore
<1> QED BY <1>12, <1>13, <1>14, <1>15

\* The proxy takes a piece off the network and forwards it, or not.
LEMMA SavedForwards ==
  ASSUME SavedInv, NEW bytes, HandleData(bytes),
         UNCHANGED <<pending, saved, calls, relayed, srv>>
  PROVE  SavedInv'
<1> USE DEF SavedInv
<1>1. PICK n \in 1..Len(toProxy) :
        /\ bytes = SubSeq(toProxy, 1, n)
        /\ toProxy' = SubSeq(toProxy, n + 1, Len(toProxy))
  BY DEF HandleData
<1>2. toProxy \in Seq(Token) /\ down \in Seq(Seq(Token))
  BY DEF TokensOK
<1>3. /\ bytes \in Seq(Token) /\ toProxy' \in Seq(Token)
      /\ NoRepeat(toProxy') /\ Nums(bytes, "hdr") \cap Nums(toProxy', "hdr") = {}
      /\ \A part : Nums(bytes, part) \subseteq Nums(toProxy, part)
                   /\ Nums(toProxy', part) \subseteq Nums(toProxy, part)
  BY <1>1, <1>2, NumsCut DEF OnNetwork
<1>4. \A q : Relayed(q)' <=> Relayed(q)
  BY DEF Relayed, Begun
<1>5. Relayed(bytes) /\ Relayed(toProxy)'
  BY <1>3, <1>4 DEF AllRelayed, Relayed, Begun
<1>6. /\ down' \in Seq(Seq(Token)) /\ Len(down) \in Nat
      /\ \A i \in 1..Len(down') :
           \/ i \in 1..Len(down) /\ down'[i] = down[i]
           \/ i = Len(down) + 1 /\ down'[i] = bytes
  BY <1>2, <1>3 DEF HandleData, Forward
<1>7. TokensOK'
  BY <1>3, <1>6 DEF TokensOK
<1>8. AllRelayed'
  <2>1. \A i \in 1..Len(down') : Relayed(down'[i])
    BY <1>5, <1>6 DEF AllRelayed
  <2>2. \A i \in 1..Len(down') : Relayed(down[i])'
    BY <1>4, <2>1
  <2> QED BY <1>4, <1>5, <2>2 DEF AllRelayed
<1>9. OnNetwork'
  <2>1. \A i \in 1..Len(down') : ~Meet(toProxy', down'[i])
    BY <1>3, <1>6 DEF OnNetwork, Meet
  <2> QED BY <1>3, <2>1 DEF OnNetwork, Meet
<1>10. InMessages'
  <2>1. \A i, j \in 1..Len(down') : i # j => ~Meet(down'[i], down'[j])
    BY <1>3, <1>6 DEF OnNetwork, InMessages, Meet
  <2>2. \A i \in 1..Len(down'), h \in pending : ~Meet(down'[i], h.bytes)
    BY <1>3, <1>6 DEF OnNetwork, InMessages, Meet
  <2>3. \A i \in 1..Len(down'), j \in 1..Len(saved) : saved[j] \notin Nums(down'[i], "hdr")
    BY <1>3, <1>6 DEF OnNetwork, InMessages
  <2> QED BY <2>1, <2>2, <2>3 DEF InMessages, Meet
<1>11. InCalls' /\ InStore'
  BY DEF InCalls, InStore
<1> QED BY <1>7, <1>8, <1>9, <1>10, <1>11

\* The next message comes to a call of onmessage.
LEMMA SavedTakes ==
  ASSUME SavedInv, OnMessage
  PROVE  SavedInv'
<1> USE DEF SavedInv
<1> DEFINE g == [branch |-> state, bytes |-> Head(down), n |-> calls + 1]
<1>1. /\ down # <<>> /\ down' = Tail(down) /\ pending' = pending \cup {g}
      /\ calls' = calls + 1
      /\ UNCHANGED <<toProxy, saved, relayed, srv>>
  BY DEF OnMessage, PageTakes, srvVars
<1>2. g.bytes = Head(down) /\ g.n = calls + 1
  OBVIOUS
<1> HIDE DEF g
<1>3. /\ down \in Seq(Seq(Token)) /\ Len(down) \in Nat /\ 1 \in 1..Len(down)
      /\ g.bytes = down[1] /\ g.bytes \in Seq(Token)
      /\ down' \in Seq(Seq(Token)) /\ Len(down') = Len(down) - 1
      /\ \A i \in 1..Len(down') : i + 1 \in 1..Len(down) /\ down'[i] = down[i + 1]
      /\ \A i \in 1..Len(down') : i \in Nat /\ i + 1 # 1
  BY <1>1, <1>2, HeadTailProperties DEF TokensOK
<1>4. calls \in Nat /\ \A h \in pending : h.n \in Nat /\ h.n <= calls
  BY DEF TokensOK
<1>5. g \notin pending
  BY <1>2, <1>4
<1>6. \A q : Relayed(q)' <=> Relayed(q)
  BY <1>1 DEF Relayed, Begun
<1>7. TokensOK'
  BY <1>1, <1>2, <1>3, <1>4 DEF TokensOK
<1>8. AllRelayed'
  <2>1. \A i \in 1..Len(down') : Relayed(down'[i])
    BY <1>3 DEF AllRelayed
  <2>2. \A h \in pending' : Relayed(h.bytes)
    BY <1>1, <1>3 DEF AllRelayed
  <2>3. Relayed(toProxy) /\ \A i \in 1..Len(saved) : saved[i] <= relayed
    BY DEF AllRelayed
  <2> QED BY <1>1, <1>6, <2>1, <2>2, <2>3 DEF AllRelayed
<1>9. OnNetwork'
  BY <1>1, <1>3 DEF OnNetwork, Meet
<1>10. InMessages'
  <2>1. \A i, j \in 1..Len(down') : i # j => ~Meet(down'[i], down'[j])
    <3> SUFFICES ASSUME NEW i \in 1..Len(down'), NEW j \in 1..Len(down'), i # j
                 PROVE  ~Meet(down'[i], down'[j])
      OBVIOUS
    <3>1. i + 1 # j + 1 /\ i + 1 \in 1..Len(down) /\ j + 1 \in 1..Len(down)
      BY <1>3
    <3>2. ~Meet(down[i + 1], down[j + 1])
      BY <3>1 DEF InMessages
    <3> QED BY <1>3, <3>2
  <2>2. \A i \in 1..Len(down'), h \in pending' : ~Meet(down'[i], h.bytes)
    BY <1>1, <1>3 DEF InMessages
  <2>3. \A i \in 1..Len(down'), j \in 1..Len(saved) : saved[j] \notin Nums(down'[i], "hdr")
    BY <1>3 DEF InMessages
  <2> QED BY <1>1, <2>1, <2>2, <2>3 DEF InMessages, Meet
<1>11. InCalls'
  <2>1. \A h \in pending : ~Meet(h.bytes, g.bytes) /\ ~Meet(g.bytes, h.bytes)
    BY <1>3 DEF InMessages, Meet
  <2>2. \A i \in 1..Len(saved) : saved[i] \notin Nums(g.bytes, "hdr")
    BY <1>3 DEF InMessages
  <2> QED BY <1>1, <1>5, <2>1, <2>2 DEF InCalls, Meet
<1>12. InStore'
  BY <1>1 DEF InStore
<1> QED BY <1>7, <1>8, <1>9, <1>10, <1>11, <1>12

\* What is saved begins with a message, header and payload.
LEMMA ParsedIs ==
  ASSUME NEW bytes \in Seq(Token), Parsed(bytes)
  PROVE  /\ bytes[1].n \in Nat /\ bytes[1].n \in Nums(bytes, "hdr")
         /\ bytes[1].n \in Nums(bytes, "pay")
<1>1. PICK n \in 0..MaxMsgs :
        /\ Len(bytes) >= Len(Packet("message", n))
        /\ SubSeq(bytes, 1, Len(Packet("message", n))) = Packet("message", n)
  BY DEF Parsed, Starts
<1>2. Packet("message", n) = <<Hdr("message", n), Pay("message", n)>>
  BY DEF Packet
<1>3. Len(Packet("message", n)) = 2
  BY <1>2
<1>4. Len(bytes) \in Nat /\ 2 <= Len(bytes) /\ 1 \in 1..Len(bytes) /\ 2 \in 1..Len(bytes)
  BY <1>1, <1>3
<1>5. SubSeq(bytes, 1, 2) = <<Hdr("message", n), Pay("message", n)>>
  BY <1>1, <1>2, <1>3
<1>6. SubSeq(bytes, 1, 2)[1] = bytes[1] /\ SubSeq(bytes, 1, 2)[2] = bytes[2]
  BY <1>4
<1>7. bytes[1] = Hdr("message", n) /\ bytes[2] = Pay("message", n)
  <2>1. /\ <<Hdr("message", n), Pay("message", n)>>[1] = Hdr("message", n)
        /\ <<Hdr("message", n), Pay("message", n)>>[2] = Pay("message", n)
    OBVIOUS
  <2> QED BY ONLY <1>5, <1>6, <2>1, Zenon
<1>8. bytes[1] \in Token
  BY <1>4, ElementOfSeq
<1>9. /\ bytes[1].n = n /\ bytes[2].n = n /\ n \in Nat
      /\ MessagePart(bytes[1], "hdr") /\ MessagePart(bytes[2], "pay")
  BY <1>7, <1>8 DEF MessagePart, Hdr, Pay, Token
<1> QED BY ONLY <1>4, <1>9 DEF Nums

LEMMA SavedSaves ==
  ASSUME SavedInv, NEW h \in pending, Save(h)
  PROVE  SavedInv'
<1> USE DEF SavedInv
<1>1. /\ pending' = pending \ {h} /\ UNCHANGED <<toProxy, down, relayed, calls, srv>>
      /\ saved' = IF Parsed(h.bytes) THEN Append(saved, h.bytes[1].n) ELSE saved
  BY DEF Save, Done, proxyVars, downVars, srvVars
<1>2. CASE ~Parsed(h.bytes)
  BY <1>1, <1>2, SavedQuiet
<1>3. CASE Parsed(h.bytes)
  <2>1. PICK n : n = h.bytes[1].n
    OBVIOUS
  <2>2. h.bytes \in Seq(Token)
    BY DEF TokensOK
  <2>3. n \in Nat /\ n \in Nums(h.bytes, "hdr") /\ n \in Nums(h.bytes, "pay")
    BY <1>3, <2>1, <2>2, ParsedIs
  <2>4. n <= relayed
    BY <2>3 DEF AllRelayed, Relayed
  <2>5. /\ saved \in Seq(Nat) /\ saved' \in Seq(Nat) /\ Len(saved) \in Nat
        /\ \A i \in 1..Len(saved') :
             \/ i \in 1..Len(saved) /\ saved'[i] = saved[i]
             \/ i = Len(saved) + 1 /\ saved'[i] = n
    BY <1>1, <1>3, <2>1, <2>3 DEF TokensOK
  <2>6. \A q : Relayed(q)' <=> Relayed(q)
    BY <1>1 DEF Relayed, Begun
  <2>7. TokensOK'
    BY <1>1, <2>5 DEF TokensOK
  <2>8. AllRelayed'
    BY <1>1, <2>4, <2>5, <2>6 DEF AllRelayed
  <2>9. OnNetwork'
    BY <1>1, <2>3, <2>5 DEF OnNetwork, Meet
  <2>10. InMessages'
    BY <1>1, <2>3, <2>5 DEF InMessages, Meet
  <2>11. InCalls'
    BY <1>1, <2>3, <2>5 DEF InCalls, Meet
  <2>12. InStore'
    BY <2>3, <2>5 DEF InStore, InCalls
  <2> QED BY <2>7, <2>8, <2>9, <2>10, <2>11, <2>12
<1> QED BY <1>2, <1>3

LEMMA SavedRelays ==
  ASSUME SavedInv, Relay
  PROVE  SavedInv'
<1>1. PICK t, at, then : SrvSends(at, t, then) /\
        \/ at = "challenge" /\ t = Hdr("challenge", 0) /\ then = "challenge2" /\ UNCHANGED relayed
        \/ at = "challenge2" /\ t = Pay("challenge", 0) /\ then = "answer" /\ UNCHANGED relayed
        \/ at = "authorise" /\ t = Hdr("authorised", 0) /\ then = "relay" /\ UNCHANGED relayed
        \/ at = "refuse" /\ t = Hdr("unauthorised", 0) /\ then = "close" /\ UNCHANGED relayed
        \/ at = "relay" /\ t = Hdr("message", relayed + 1) /\ then = "relay2" /\ UNCHANGED relayed
        \/ at = "relay2" /\ t = Pay("message", relayed + 1) /\ then = "relay"
             /\ relayed' = relayed + 1
  BY DEF Relay
<1>2. /\ srv = at /\ srv' = then /\ toProxy' = toProxy \o <<t>>
      /\ UNCHANGED <<down, pending, saved, calls>>
  BY <1>1 DEF SrvSends, RelaySends, pageVars
<1>3. relayed \in Nat /\ relayed + 1 \in Nat /\ 0 \in Nat
  BY DEF SavedInv, TokensOK
<1>4. t \in Token
  BY <1>1, <1>3 DEF Token, Hdr, Pay, Kind
<1>5. relayed' \in Nat /\ relayed <= relayed'
  BY <1>1, <1>3
<1>6. Begun <= Begun'
  BY <1>1, <1>2, <1>3 DEF Begun
<1>7. MessagePart(t, "hdr") => Begun < t.n /\ t.n <= Begun'
  BY <1>1, <1>2, <1>3 DEF Begun, MessagePart, Hdr, Pay
<1>8. MessagePart(t, "pay") => t.n <= relayed'
  BY <1>1, <1>2, <1>3 DEF MessagePart, Hdr, Pay
<1> QED BY <1>2, <1>4, <1>5, <1>6, <1>7, <1>8, SavedSends

LEMMA InitSaved == Init => SavedInv
<1>1. <<>> \in Seq(Token) /\ <<>> \in Seq(Seq(Token)) /\ <<>> \in Seq(Nat)
  BY EmptySeq
<1>2. \A part : Nums(<<>>, part) = {}
  BY DEF Nums
<1> QED BY <1>1, <1>2 DEF Init, ProxyInit, SavedInv, TokensOK, AllRelayed, Relayed,
             OnNetwork, NoRepeat, InMessages, InCalls, InStore

LEMMA StepSaved == SavedInv /\ [Next]_vars => SavedInv'
<1> SUFFICES ASSUME SavedInv, [Next]_vars PROVE SavedInv'
  OBVIOUS
<1>1. CASE Relay
  BY <1>1, SavedRelays
<1>2. CASE RelayTakes
  BY <1>2, SavedQuiet DEF RelayTakes, downVars, pageVars
<1>3. CASE RelayEnds
  BY <1>3, SavedQuiet DEF RelayEnds, RelayHangsUp, RelayCloses, downVars, pageVars, srvVars
<1>4. CASE OnMessage
  BY <1>4, SavedTakes
<1>5. ASSUME NEW h \in pending, ResumeOn(h)
      PROVE  SavedInv'
  <2>1. CASE Challenge(h)
    BY <2>1, SavedQuiet DEF Challenge, Done, downVars, srvVars
  <2>2. CASE Verdict(h)
    BY <2>2, SavedQuiet DEF Verdict, Done, downVars, srvVars
  <2>3. CASE Save(h)
    BY <2>3, SavedSaves
  <2> QED BY <1>5, <2>1, <2>2, <2>3 DEF ResumeOn
<1>6. CASE Others /\ UNCHANGED <<pageVars, srvVars, disturbed>>
  <2>1. UNCHANGED <<pending, saved, calls, relayed, srv>>
    BY <1>6 DEF pageVars, srvVars
  <2>2. CASE HandleMessage \/ HandleWsClose \/ HandleConnect \/ HandleTcpClose
    BY <2>1, <2>2, SavedQuiet
      DEF HandleMessage, HandleWsClose, HandleConnect, HandleTcpClose, downVars
  <2>3. ASSUME NEW bytes, HandleData(bytes)
        PROVE  SavedInv'
    BY <2>1, <2>3, SavedForwards
  <2>4. CASE PageVanishes \/ PageSeesClose
    BY <2>1, <2>4, SavedQuiet DEF PageVanishes, PageSeesClose, downVars
  <2> QED BY <1>6, <2>2, <2>3, <2>4 DEF Others, ProxyStep
<1>7. CASE UNCHANGED vars
  BY <1>7, SavedQuiet DEF vars, proxyVars, downVars, pageVars, srvVars
<1> QED BY <1>1, <1>2, <1>3, <1>4, <1>5, <1>6, <1>7 DEF Next, Resume

\* A message is saved at most once, and only if the relay has relayed all of
\* it, however its packets were cut, merged and reordered on their way.
THEOREM SavingCorrect == Spec => []SavedOnce
<1>1. SavedInv => SavedOnce
  BY DEF SavedInv, AllRelayed, InStore, SavedOnce
<1> QED BY <1>1, InitSaved, StepSaved, PTL DEF Spec

----------------------------------------------------------------------------
(* The answer to the challenge.                                            *)

\* Sequences of one and of two, and their pieces.
LEMMA ShortSeq ==
  ASSUME NEW S, NEW s \in Seq(S)
  PROVE  /\ Len(s) = 0 => s = <<>>
         /\ Len(s) = 1 => s = <<s[1]>>
         /\ Len(s) = 2 => s = <<s[1], s[2]>>
<1>1. Len(s) = 0 => s = <<>>
  OBVIOUS
<1>2. Len(s) = 1 => s = <<s[1]>>
  OBVIOUS
<1>3. Len(s) = 2 => s = <<s[1], s[2]>>
  OBVIOUS
<1> QED BY <1>1, <1>2, <1>3

LEMMA ShortPieces ==
  ASSUME NEW S, NEW x \in S, NEW y \in S
  PROVE  /\ <<>> \o <<x>> = <<x>> /\ <<x>> \o <<y>> = <<x, y>>
         /\ Append(<<>>, x) = <<x>> /\ Append(<<x>>, y) = <<x, y>>
         /\ SubSeq(<<x>>, 1, 1) = <<x>> /\ SubSeq(<<x>>, 2, 1) = <<>>
         /\ SubSeq(<<x, y>>, 1, 1) = <<x>> /\ SubSeq(<<x, y>>, 2, 2) = <<y>>
         /\ SubSeq(<<x, y>>, 1, 2) = <<x, y>> /\ SubSeq(<<x, y>>, 3, 2) = <<>>
<1>1. /\ <<x>> \in Seq(S) /\ Len(<<x>>) = 1 /\ <<x>>[1] = x /\ <<y>> \in Seq(S)
      /\ Len(<<y>>) = 1 /\ <<y>>[1] = y
      /\ <<x, y>> \in Seq(S) /\ Len(<<x, y>>) = 2 /\ <<x, y>>[1] = x /\ <<x, y>>[2] = y
  OBVIOUS
<1>2. <<>> \o <<x>> = <<x>> /\ Append(<<>>, x) = <<x>>
  <2>1. <<>> \o <<x>> = <<x>>
    BY <1>1, ConcatEmptySeq
  <2>2. Append(<<>>, x) = <<x>>
    OBVIOUS
  <2> QED BY <2>1, <2>2
<1>3. <<x>> \o <<y>> = <<x, y>> /\ Append(<<x>>, y) = <<x, y>>
  <2> DEFINE r == <<x>> \o <<y>>
             t == Append(<<x>>, y)
  <2>1. r \in Seq(S) /\ Len(r) = 2 /\ r[1] = x /\ r[2] = y
    BY <1>1
  <2>2. t \in Seq(S) /\ Len(t) = 2 /\ t[1] = x /\ t[2] = y
    BY <1>1
  <2> HIDE DEF r, t
  <2>3. r = <<x, y>> /\ t = <<x, y>>
    BY <2>1, <2>2, ShortSeq
  <2> QED BY <2>3 DEF r, t
<1>4. SubSeq(<<x>>, 1, 1) = <<x>> /\ SubSeq(<<x, y>>, 1, 2) = <<x, y>>
  BY <1>1, SubSeqFull
<1>5. SubSeq(<<x>>, 2, 1) = <<>> /\ SubSeq(<<x, y>>, 3, 2) = <<>>
  BY SubSeqEmpty
<1>6. SubSeq(<<x, y>>, 1, 1) = <<x>>
  <2> DEFINE r == SubSeq(<<x, y>>, 1, 1)
  <2>1. r \in Seq(S) /\ Len(r) = 1 /\ r[1] = x
    BY <1>1
  <2> HIDE DEF r
  <2>2. r = <<x>>
    BY <2>1, ShortSeq
  <2> QED BY <2>2 DEF r
<1>7. SubSeq(<<x, y>>, 2, 2) = <<y>>
  <2> DEFINE r == SubSeq(<<x, y>>, 2, 2)
  <2>1. r \in Seq(S) /\ Len(r) = 1 /\ r[1] = y
    BY <1>1
  <2> HIDE DEF r
  <2>2. r = <<y>>
    BY <2>1, ShortSeq
  <2> QED BY <2>2 DEF r
<1> QED BY <1>2, <1>3, <1>4, <1>5, <1>6, <1>7

\* The page is done before the proxy closes its end, and the proxy closes a
\* WebSocket only after the TCP connection, on which nothing is sent any more.
Wires ==
  /\ ws \in {"open", "closing", "closed"}
  /\ ws = "closing" => tcp = "closed"
  /\ tcp = "closed" => relay # "open"
  /\ ws = "closed" => page \notin {"open", "closing"}

\* The page has taken nothing: what the relay has sent of its challenge is on
\* its way, in one piece or in two, or was lost with the connection.
First  == Hdr("challenge", 0)
Second == Pay("challenge", 0)
OnItsWay ==
  \/ /\ down = <<>>
     /\ \/ srv = "challenge" /\ toProxy = <<>>
        \/ srv = "challenge2" /\ toProxy = <<First>>
        \/ srv = "answer" /\ toProxy = <<First, Second>>
        \/ tcp = "closed" /\ toProxy = <<>>
  \/ /\ down = << <<First>> >>
     /\ \/ srv = "challenge2" /\ toProxy = <<>>
        \/ srv = "answer" /\ toProxy = <<Second>>
        \/ tcp = "closed" /\ toProxy = <<>>
  \/ /\ down \in {<< <<First>>, <<Second>> >>, << <<First, Second>> >>}
     /\ srv = "answer" /\ toProxy = <<>>

\* No answer yet: at most one call waits to give it, and then the relay has
\* said all it has to say before it gets one.
Unanswered ==
  /\ answers = 0 /\ state = "unauthenticated"
  /\ srv \in {"challenge", "challenge2", "answer"} /\ up = <<>> /\ toRelay = <<>>
  /\ \A h \in pending : h.branch = "unauthenticated"
  /\ \A h, g \in pending : h = g
  /\ page = "open" => IF pending = {} THEN OnItsWay
                      ELSE down = <<>> /\ toProxy = <<>> /\ srv = "answer"

\* One answer: no call waits to give another, and none will.
AnsweredOne ==
  /\ answers = 1
  /\ \A h \in pending : h.branch # "unauthenticated"
  /\ page = "open" => state # "unauthenticated"

AnswersInv == Wires /\ ("cut" \in disturbed \/ Unanswered \/ AnsweredOne)

LEMMA TwoParts == First \in Token /\ Second \in Token /\ First # Second
  BY DEF First, Second, Hdr, Pay, Token, Kind

LEMMA StepWires == Wires /\ [Next]_vars => Wires'
<1> SUFFICES ASSUME Wires, [Next]_vars PROVE Wires'
  OBVIOUS
<1> USE DEF Wires
<1>1. CASE UNCHANGED ends
  BY <1>1 DEF ends
<1>2. CASE Relay \/ RelayTakes \/ OnMessage
  BY <1>1, <1>2 DEF Relay, SrvSends, RelayTakes, OnMessage
<1>3. CASE RelayEnds
  BY <1>3 DEF RelayEnds, RelayHangsUp, RelayCloses
<1>4. ASSUME NEW h \in pending, ResumeOn(h)
      PROVE  Wires'
  <2>1. CASE Challenge(h)
    <3>1. UNCHANGED <<ws, tcp, relay, page>>
      BY <2>1 DEF Challenge, ends
    <3> QED BY <3>1
  <2>2. CASE Verdict(h)
    BY <2>2 DEF Verdict, PageCloses
  <2>3. CASE Save(h)
    BY <1>1, <2>3 DEF Save, proxyVars
  <2> QED BY <1>4, <2>1, <2>2, <2>3 DEF ResumeOn
<1>5. CASE Others
  <2>1. CASE HandleMessage \/ \E bytes : HandleData(bytes)
    BY <1>1, <2>1 DEF HandleMessage, HandleData
  <2>2. CASE HandleWsClose
    BY <2>2 DEF HandleWsClose, PageEnded
  <2>3. CASE HandleConnect
    BY <2>3 DEF HandleConnect
  <2>4. CASE HandleTcpClose
    BY <2>4 DEF HandleTcpClose, TcpEnds, CloseWs
  <2>5. CASE PageVanishes \/ PageSeesClose
    BY <2>5 DEF PageVanishes, PageSeesClose
  <2> QED BY <1>5, <2>1, <2>2, <2>3, <2>4, <2>5 DEF Others, ProxyStep
<1>6. CASE UNCHANGED vars
  BY <1>1, <1>6 DEF vars, proxyVars
<1> QED BY <1>2, <1>3, <1>4, <1>5, <1>6 DEF Next, Resume

\* Once one answer is given, or with a packet cut in two, nothing can go wrong.
LEMMA OneStays ==
  ASSUME AnsweredOne, [Next]_vars
  PROVE  AnsweredOne'
<1> USE DEF AnsweredOne
<1>1. ASSUME UNCHANGED <<state, answers>>, pending' \subseteq pending,
             page' = "open" => page = "open"
      PROVE  AnsweredOne'
  BY <1>1
<1>2. CASE Relay \/ RelayTakes
  BY <1>1, <1>2 DEF Relay, SrvSends, RelayTakes, ends, pageVars
<1>3. CASE RelayEnds
  BY <1>1, <1>3 DEF RelayEnds, RelayHangsUp, RelayCloses, pageVars
<1>4. CASE OnMessage
  BY <1>4 DEF OnMessage, PageTakes, ends
<1>5. ASSUME NEW h \in pending, ResumeOn(h)
      PROVE  AnsweredOne'
  <2>1. ~Challenge(h)
    BY DEF Challenge
  <2>2. CASE Verdict(h)
    <3>1. UNCHANGED answers /\ pending' \subseteq pending
      BY <2>2 DEF Verdict, Done
    <3>2. state' = "authenticated" \/ page' # "open"
      BY <2>2 DEF Verdict, PageCloses
    <3> QED BY <3>1, <3>2
  <2>3. CASE Save(h)
    BY <1>1, <2>3 DEF Save, Done, proxyVars, ends
  <2> QED BY <1>5, <2>1, <2>2, <2>3 DEF ResumeOn
<1>6. CASE Others /\ UNCHANGED <<pageVars, srvVars, disturbed>>
  <2>1. page' = "open" => page = "open"
    BY <1>6 DEF Others, ProxyStep, HandleMessage, HandleWsClose, HandleConnect, HandleTcpClose,
                HandleData, PageVanishes, PageSeesClose, ends
  <2> QED BY <1>1, <1>6, <2>1 DEF pageVars
<1>7. CASE UNCHANGED vars
  BY <1>1, <1>7 DEF vars, proxyVars, ends, pageVars
<1> QED BY <1>2, <1>3, <1>4, <1>5, <1>6, <1>7 DEF Next, Resume

LEMMA CutStays ==
  ASSUME "cut" \in disturbed, [Next]_vars
  PROVE  "cut" \in disturbed'
<1>1. disturbed \subseteq disturbed'
  <2>1. CASE Relay \/ RelayTakes \/ RelayEnds
    BY <2>1 DEF Relay, SrvSends, RelayTakes, RelayEnds
  <2>2. CASE OnMessage
    BY <2>2 DEF OnMessage
  <2>3. CASE Resume
    BY <2>3 DEF Resume, ResumeOn, Challenge, Verdict, Save
  <2>4. CASE UNCHANGED vars
    BY <2>4 DEF vars
  <2> QED BY <2>1, <2>2, <2>3, <2>4 DEF Next
<1> QED BY <1>1

\* Before the answer: the relay sends the two parts of its challenge.
LEMMA FirstSends ==
  ASSUME Wires, Unanswered, Relay
  PROVE  Unanswered'
<1>1. /\ UNCHANGED <<answers, state, pending, up, toRelay, page, down, tcp>> /\ relay = "open"
      /\ \/ /\ srv = "challenge" /\ srv' = "challenge2"
            /\ toProxy' = toProxy \o <<First>>
         \/ /\ srv = "challenge2" /\ srv' = "answer"
            /\ toProxy' = toProxy \o <<Second>>
  BY DEF Unanswered, Relay, SrvSends, RelaySends, ends, upVars, pageVars, First, Second
<1>2. tcp # "closed"
  BY <1>1 DEF Wires
<1>3. /\ \A p \in {First, Second} : <<>> \o <<p>> = <<p>>
      /\ <<First>> \o <<Second>> = <<First, Second>>
  BY TwoParts, ShortPieces
<1>4. page = "open" => pending = {} /\ OnItsWay
  BY <1>1 DEF Unanswered
<1>5. ASSUME page = "open" PROVE OnItsWay'
  <2>1. CASE down = <<>>
    <3>1. \/ srv = "challenge" /\ toProxy = <<>>
          \/ srv = "challenge2" /\ toProxy = <<First>>
      BY <1>1, <1>2, <1>4, <1>5, <2>1 DEF OnItsWay
    <3>2. \/ srv' = "challenge2" /\ toProxy' = <<First>>
          \/ srv' = "answer" /\ toProxy' = <<First, Second>>
      BY <1>1, <1>3, <3>1
    <3> QED BY <1>1, <2>1, <3>2 DEF OnItsWay
  <2>2. CASE down # <<>>
    <3>1. down = << <<First>> >> /\ srv = "challenge2" /\ toProxy = <<>>
      BY <1>1, <1>2, <1>4, <1>5, <2>2 DEF OnItsWay
    <3>2. srv' = "answer" /\ toProxy' = <<Second>>
      BY <1>1, <1>3, <3>1
    <3> QED BY <1>1, <3>1, <3>2 DEF OnItsWay
  <2> QED BY <2>1, <2>2
<1> QED BY <1>1, <1>4, <1>5 DEF Unanswered

\* The proxy forwards what there is of it.
LEMMA FirstForwarded ==
  ASSUME Wires, Unanswered, NEW bytes, HandleData(bytes),
         UNCHANGED <<pageVars, srvVars>>
  PROVE  Unanswered'
<1>1. /\ UNCHANGED <<answers, state, pending, srv, up, toRelay, page, tcp>> /\ tcp = "open"
  BY DEF HandleData, ends, upVars, pageVars, srvVars
<1>2. PICK n \in 1..Len(toProxy) :
        /\ bytes = SubSeq(toProxy, 1, n)
        /\ toProxy' = SubSeq(toProxy, n + 1, Len(toProxy))
  BY DEF HandleData
<1>3. /\ Len(<<First>>) = 1 /\ Len(<<Second>>) = 1
      /\ SubSeq(<<First>>, 1, 1) = <<First>> /\ SubSeq(<<First>>, 2, 1) = <<>>
      /\ SubSeq(<<Second>>, 1, 1) = <<Second>> /\ SubSeq(<<Second>>, 2, 1) = <<>>
      /\ Len(<<First, Second>>) = 2
      /\ SubSeq(<<First, Second>>, 1, 1) = <<First>>
      /\ SubSeq(<<First, Second>>, 2, 2) = <<Second>>
      /\ SubSeq(<<First, Second>>, 1, 2) = <<First, Second>>
      /\ SubSeq(<<First, Second>>, 3, 2) = <<>>
  <2>1. /\ Len(<<First>>) = 1 /\ Len(<<Second>>) = 1 /\ Len(<<First, Second>>) = 2
    OBVIOUS
  <2>2. /\ SubSeq(<<Second>>, 1, 1) = <<Second>> /\ SubSeq(<<Second>>, 2, 1) = <<>>
    BY ONLY TwoParts, ShortPieces, Zenon
  <2>3. /\ SubSeq(<<First>>, 1, 1) = <<First>> /\ SubSeq(<<First>>, 2, 1) = <<>>
        /\ SubSeq(<<First, Second>>, 1, 1) = <<First>>
        /\ SubSeq(<<First, Second>>, 2, 2) = <<Second>>
        /\ SubSeq(<<First, Second>>, 1, 2) = <<First, Second>>
        /\ SubSeq(<<First, Second>>, 3, 2) = <<>>
    BY ONLY TwoParts, ShortPieces, Zenon
  <2> QED BY ONLY <2>1, <2>2, <2>3, Zenon
<1>4. /\ \A p : Append(<<>>, p) = <<p>>
      /\ Append(<< <<First>> >>, <<Second>>) = << <<First>>, <<Second>> >>
  <2>1. <<First>> \in Seq(Token) /\ <<Second>> \in Seq(Token)
    BY TwoParts
  <2> QED BY <2>1, ShortPieces
<1>5. page = "open" => OnItsWay'
  <2> SUFFICES ASSUME page = "open" PROVE OnItsWay'
    OBVIOUS
  <2>1. ws = "open"
    BY <1>1 DEF Wires
  <2>2. down' = Append(down, bytes)
    BY <2>1 DEF HandleData, Forward
  <2>3. toProxy # <<>>
    BY <1>2
  <2>4. pending = {} /\ OnItsWay
    BY <2>3 DEF Unanswered
  <2>5. CASE down = <<>> /\ srv = "challenge2" /\ toProxy = <<First>>
    <3>1. bytes = <<First>> /\ toProxy' = <<>> /\ down' = << <<First>> >>
      <4>1. n = 1 /\ n + 1 = 2
        BY <1>3, <1>2, <2>5
      <4> QED BY <1>3, <1>2, <1>4, <2>2, <2>5, <4>1
    <3> QED BY <1>1, <2>5, <3>1 DEF OnItsWay
  <2>6. CASE down = <<>> /\ srv = "answer" /\ toProxy = <<First, Second>>
    <3>1. n = 1 \/ n = 2
      BY <1>3, <1>2, <2>6
    <3>2. CASE n = 1
      <4>1. bytes = <<First>> /\ toProxy' = <<Second>> /\ down' = << <<First>> >>
        <5>1. n + 1 = 2
          BY <3>2
        <5> QED BY <1>3, <1>2, <1>4, <2>2, <2>6, <3>2, <5>1
      <4> QED BY <1>1, <2>6, <4>1 DEF OnItsWay
    <3>3. CASE n = 2
      <4>1. bytes = <<First, Second>> /\ toProxy' = <<>> /\ down' = << <<First, Second>> >>
        <5>1. n + 1 = 3
          BY <3>3
        <5> QED BY <1>3, <1>2, <1>4, <2>2, <2>6, <3>3, <5>1
      <4> QED BY <1>1, <2>6, <4>1 DEF OnItsWay
    <3> QED BY <3>1, <3>2, <3>3
  <2>7. CASE down = << <<First>> >> /\ srv = "answer" /\ toProxy = <<Second>>
    <3>1. bytes = <<Second>> /\ toProxy' = <<>> /\ down' = << <<First>>, <<Second>> >>
      <4>1. n = 1 /\ n + 1 = 2
        BY <1>3, <1>2, <2>7
      <4> QED BY <1>3, <1>2, <1>4, <2>2, <2>7, <4>1
    <3> QED BY <1>1, <2>7, <3>1 DEF OnItsWay
  <2> QED BY <2>3, <2>4, <2>5, <2>6, <2>7 DEF OnItsWay
<1>6. page = "open" => pending = {}
  <2>1. toProxy # <<>>
    BY <1>2
  <2> QED BY <2>1 DEF Unanswered
<1> QED BY <1>1, <1>5, <1>6 DEF Unanswered

\* The page takes the first message: all of the challenge, or a cut one.
LEMMA FirstTaken ==
  ASSUME Wires, Unanswered, OnMessage
  PROVE  "cut" \in disturbed' \/ Unanswered'
<1>1. /\ page = "open" /\ down # <<>> /\ down' = Tail(down)
      /\ pending' = pending
           \cup {[branch |-> state, bytes |-> Head(down), n |-> calls + 1]}
      /\ UNCHANGED <<answers, state, srv, up, toRelay, page, toProxy>>
  BY DEF OnMessage, PageTakes, ends, upVars, srvVars
<1>2. pending = {} /\ OnItsWay
  BY <1>1 DEF Unanswered
<1>3. CASE down = << <<First, Second>> >>
  <2>1. /\ srv = "answer" /\ toProxy = <<>>
    <3>1. << <<First, Second>> >> # <<>>
      OBVIOUS
    <3>2. << <<First, Second>> >> # << <<First>> >>
      <4>1. Len(<<First, Second>>) # Len(<<First>>)
        OBVIOUS
      <4>2. /\ << <<First, Second>> >>[1] = <<First, Second>>
            /\ << <<First>> >>[1] = <<First>>
        OBVIOUS
      <4> QED BY ONLY <4>1, <4>2, Zenon
    <3> QED BY ONLY <1>2, <1>3, <3>1, <3>2 DEF OnItsWay
  <2>2. down' = <<>>
    BY <1>1, <1>3
  <2>3. PICK g : /\ g.branch = state
                 /\ pending' = pending \cup {g}
    BY <1>1
  <2>4. \A h \in pending' : h = g
    BY <1>2, <2>3
  <2> QED BY <1>1, <2>1, <2>2, <2>3, <2>4 DEF Unanswered
<1>4. CASE Head(down) = <<First>>
  <2>1. Packet("challenge", 0) = <<First, Second>>
    BY DEF Packet, First, Second
  <2>2. Len(<<First>>) = 1 /\ <<First>>[1] = First /\ Len(<<First, Second>>) = 2
    OBVIOUS
  <2>3. First.part = "hdr" /\ First.p = "challenge" /\ First.n = 0
    BY DEF First, Hdr
  <2>4. ~IsPacket(<<First>>)
    BY <2>1, <2>2, <2>3 DEF IsPacket
  <2>5. CutPacket(<<First>>)
    BY <2>1, <2>2, <2>3 DEF CutPacket
  <2> QED BY <1>4, <2>4, <2>5 DEF OnMessage
<1>5. down = << <<First, Second>> >> \/ Head(down) = <<First>>
  BY <1>1, <1>2 DEF OnItsWay
<1> QED BY <1>3, <1>4, <1>5

LEMMA StepAnswers == AnswersInv /\ [Next]_vars => AnswersInv'
<1> SUFFICES ASSUME Wires, Unanswered, [Next]_vars
             PROVE  "cut" \in disturbed' \/ Unanswered' \/ AnsweredOne'
  BY StepWires, OneStays, CutStays DEF AnswersInv
<1>1. ASSUME UNCHANGED <<answers, state, srv, up, toRelay, pending, toProxy, down>>,
             page' = "open" => page = "open", tcp = "closed" => tcp' = "closed"
      PROVE  Unanswered'
  BY <1>1 DEF Unanswered, OnItsWay
<1>2. CASE Relay
  BY <1>2, FirstSends
<1>3. CASE RelayTakes
  BY <1>3 DEF RelayTakes, RelayReads, Unanswered
<1>4. CASE RelayEnds
  BY <1>1, <1>4 DEF RelayEnds, RelayHangsUp, RelayCloses, upVars, downVars, pageVars, srvVars
<1>5. CASE OnMessage
  BY <1>5, FirstTaken
<1>6. ASSUME NEW h \in pending, ResumeOn(h)
      PROVE  AnsweredOne'
  <2>1. Challenge(h)
    BY <1>6 DEF ResumeOn, Verdict, Save, Unanswered
  <2>2. pending' = {} /\ state' = "authenticating" /\ answers' = 1
    BY <2>1 DEF Challenge, Answered, Done, Unanswered
  <2> QED BY <2>2 DEF AnsweredOne
<1>7. CASE Others /\ UNCHANGED <<pageVars, srvVars, disturbed>>
  <2>1. ~HandleMessage
    BY DEF HandleMessage, Unanswered
  <2>2. CASE HandleWsClose
    <3>1. /\ UNCHANGED <<answers, state, srv, toRelay, pending>> /\ up' = <<>> /\ page' # "open"
      BY <1>7, <2>2 DEF HandleWsClose, PageEnded, pageVars, srvVars
    <3> QED BY <3>1 DEF Unanswered
  <2>3. CASE HandleConnect
    BY <1>1, <1>7, <2>3 DEF HandleConnect, upVars, downVars, pageVars, srvVars
  <2>4. CASE HandleTcpClose
    <3>1. /\ UNCHANGED <<answers, state, srv, pending, up, down, page>>
          /\ toRelay' = <<>> /\ toProxy' = <<>> /\ tcp' = "closed"
      BY <1>7, <2>4 DEF HandleTcpClose, pageVars, srvVars
    <3> QED BY <3>1 DEF Unanswered, OnItsWay
  <2>5. ASSUME NEW bytes, HandleData(bytes)
        PROVE  Unanswered'
    BY <1>7, <2>5, FirstForwarded
  <2>6. CASE PageVanishes
    BY <1>1, <1>7, <2>6 DEF PageVanishes, upVars, downVars, pageVars, srvVars
  <2>7. CASE PageSeesClose
    BY <1>1, <1>7, <2>7 DEF PageSeesClose, upVars, downVars, pageVars, srvVars
  <2> QED BY <1>7, <2>1, <2>2, <2>3, <2>4, <2>5, <2>6, <2>7 DEF Others, ProxyStep
<1>8. CASE UNCHANGED vars
  BY <1>1, <1>8 DEF vars, proxyVars, ends, upVars, downVars, pageVars, srvVars
<1> QED BY <1>2, <1>3, <1>4, <1>5, <1>6, <1>7, <1>8 DEF Next, Resume

LEMMA InitAnswers == Init => AnswersInv
  BY DEF Init, ProxyInit, AnswersInv, Wires, Unanswered, OnItsWay

\* One challenge is answered once, although the state that says so changes
\* only after the await, unless a packet has come in two pieces.
THEOREM AnsweringCorrect == Spec => []AnswersOnce
<1>1. AnswersInv => AnswersOnce
  BY DEF AnswersInv, Unanswered, AnsweredOne, AnswersOnce
<1> QED BY <1>1, InitAnswers, StepAnswers, PTL DEF Spec
=============================================================================
