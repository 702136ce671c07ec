---------------------------- MODULE WsProxyProofs ----------------------------
(***************************************************************************)
(* The proxy's two directions are byte streams, whatever is sent, in       *)
(* whatever pieces, and however the two connections end.                   *)
(***************************************************************************)
EXTENDS WsProxy, SequenceTheorems, TLAPS

----------------------------------------------------------------------------
(* Stretches of a sequence.                                                *)

\* What comes in s after its first a elements, up to the b-th.
Slice(s, a, b) == SubSeq(s, a + 1, b)

LEMMA SliceIs ==
  ASSUME NEW S, NEW s \in Seq(S), NEW a \in Nat, NEW b \in Nat, a <= b, b <= Len(s)
  PROVE  /\ Slice(s, a, b) \in Seq(S) /\ Len(Slice(s, a, b)) = b - a
         /\ \A i \in 1..b - a : Slice(s, a, b)[i] = s[a + i]
<1>1. \A i \in a + 1..b : s[i] \in S
  BY ElementOfSeq, LenProperties
<1>2. /\ SubSeq(s, a + 1, b) \in Seq(S)
      /\ Len(SubSeq(s, a + 1, b)) = IF a + 1 <= b THEN b - (a + 1) + 1 ELSE 0
      /\ \A i \in 1..b - (a + 1) + 1 : SubSeq(s, a + 1, b)[i] = s[a + 1 + i - 1]
  BY <1>1, SubSeqProperties
<1>3. b - (a + 1) + 1 = b - a /\ \A i \in Int : a + 1 + i - 1 = a + i
  OBVIOUS
<1> QED BY <1>2, <1>3 DEF Slice

LEMMA SliceUnique ==
  ASSUME NEW S, NEW s \in Seq(S), NEW a \in Nat, NEW b \in Nat, a <= b, b <= Len(s),
         NEW q \in Seq(S), Len(q) = b - a, \A i \in 1..b - a : q[i] = s[a + i]
  PROVE  q = Slice(s, a, b)
<1>1. /\ Slice(s, a, b) \in Seq(S) /\ Len(Slice(s, a, b)) = b - a
      /\ \A i \in 1..b - a : Slice(s, a, b)[i] = s[a + i]
  BY SliceIs
<1> QED BY <1>1, SeqEqual

\* Two stretches that meet.
LEMMA SliceJoin ==
  ASSUME NEW S, NEW s \in Seq(S), NEW a \in Nat, NEW b \in Nat, NEW c \in Nat,
         a <= b, b <= c, c <= Len(s)
  PROVE  Slice(s, a, b) \o Slice(s, b, c) = Slice(s, a, c)
<1>1. /\ Len(s) \in Nat /\ a + 1 \in 1..Len(s) + 1 /\ b \in (a + 1) - 1..Len(s)
      /\ c \in b..Len(s)
  BY LenProperties
<1> QED BY <1>1, ConcatAdjacentSubSeq DEF Slice

\* A stretch taken apart: its first n elements, and what is left.
LEMMA SliceFirst ==
  ASSUME NEW S, NEW s \in Seq(S), NEW a \in Nat, NEW b \in Nat, a <= b, b <= Len(s),
         NEW n \in 0..b - a
  PROVE  SubSeq(Slice(s, a, b), 1, n) = Slice(s, a, a + n)
<1> DEFINE q == Slice(s, a, b)
<1>1. q \in Seq(S) /\ Len(q) = b - a /\ \A i \in 1..b - a : q[i] = s[a + i]
  BY SliceIs
<1>2. SubSeq(q, 1, n) = Slice(q, 0, n)
  BY DEF Slice
<1> HIDE DEF q
<1>3. 0 \in Nat /\ n \in Nat /\ 0 <= n /\ n <= Len(q) /\ q \in Seq(S)
  BY <1>1
<1>4. /\ Slice(q, 0, n) \in Seq(S) /\ Len(Slice(q, 0, n)) = n - 0
      /\ \A i \in 1..n - 0 : Slice(q, 0, n)[i] = q[0 + i]
  BY <1>3, SliceIs
<1>5. \A i \in 1..n : 0 + i = i /\ i \in 1..b - a
  BY <1>3
<1>6. a + n \in Nat /\ a <= a + n /\ a + n <= Len(s) /\ (a + n) - a = n /\ n - 0 = n
  BY LenProperties
<1>7. /\ Len(Slice(q, 0, n)) = (a + n) - a
      /\ \A i \in 1..(a + n) - a : Slice(q, 0, n)[i] = s[a + i]
  BY <1>1, <1>4, <1>5, <1>6
<1>8. Slice(q, 0, n) = Slice(s, a, a + n)
  <2> DEFINE r == Slice(q, 0, n)
             e == a + n
  <2>1. /\ s \in Seq(S) /\ a \in Nat /\ e \in Nat /\ a <= e /\ e <= Len(s)
        /\ r \in Seq(S) /\ Len(r) = e - a /\ \A i \in 1..e - a : r[i] = s[a + i]
    BY <1>4, <1>6, <1>7
  <2> HIDE DEF r, e
  <2>2. r = Slice(s, a, e)
    BY ONLY <2>1, SliceUnique
  <2> QED BY <2>2 DEF r, e
<1> QED BY <1>2, <1>8 DEF q

LEMMA SliceRest ==
  ASSUME NEW S, NEW s \in Seq(S), NEW a \in Nat, NEW b \in Nat, a <= b, b <= Len(s),
         NEW n \in 0..b - a
  PROVE  SubSeq(Slice(s, a, b), n + 1, b - a) = Slice(s, a + n, b)
<1> DEFINE q == Slice(s, a, b)
           e == b - a
<1>1. q \in Seq(S) /\ Len(q) = e /\ \A i \in 1..e : q[i] = s[a + i]
  BY SliceIs
<1>2. SubSeq(q, n + 1, e) = Slice(q, n, e)
  BY DEF Slice
<1>3. /\ n \in Nat /\ e \in Nat /\ n <= e
      /\ a + n \in Nat /\ a + n <= b /\ b - (a + n) = e - n
      /\ \A i \in 1..e - n : n + i \in 1..e /\ a + (n + i) = (a + n) + i
  OBVIOUS
<1> HIDE DEF q, e
<1>4. q \in Seq(S) /\ n \in Nat /\ e \in Nat /\ n <= e /\ e <= Len(q)
  BY <1>1, <1>3
<1>5. /\ Slice(q, n, e) \in Seq(S) /\ Len(Slice(q, n, e)) = e - n
      /\ \A i \in 1..e - n : Slice(q, n, e)[i] = q[n + i]
  BY ONLY <1>4, SliceIs
<1>6. /\ Len(Slice(q, n, e)) = b - (a + n)
      /\ \A i \in 1..b - (a + n) : Slice(q, n, e)[i] = s[(a + n) + i]
  BY <1>1, <1>3, <1>5
<1>7. Slice(q, n, e) = Slice(s, a + n, b)
  BY <1>3, <1>5, <1>6, SliceUnique
<1> QED BY <1>2, <1>7 DEF q, e

\* What is written later changes no stretch, and is one.
LEMMA SliceGrows ==
  ASSUME NEW S, NEW s \in Seq(S), NEW t \in Seq(S)
  PROVE  /\ s \o t \in Seq(S) /\ Len(s \o t) = Len(s) + Len(t)
         /\ \A a, b \in Nat : a <= b /\ b <= Len(s) => Slice(s \o t, a, b) = Slice(s, a, b)
         /\ Slice(s \o t, Len(s), Len(s) + Len(t)) = t
         /\ Slice(s \o t, 0, Len(s)) = s
<1>0. Len(s) \in Nat /\ Len(t) \in Nat
  BY LenProperties
<1>1. /\ s \o t \in Seq(S) /\ Len(s \o t) = Len(s) + Len(t)
      /\ \A i \in 1..Len(s) + Len(t) :
           (s \o t)[i] = IF i <= Len(s) THEN s[i] ELSE t[i - Len(s)]
  BY ConcatProperties
<1> DEFINE u == s \o t
<1> HIDE DEF u
<1>2. ASSUME NEW a \in Nat, NEW b \in Nat, a <= b, b <= Len(s)
      PROVE  Slice(u, a, b) = Slice(s, a, b)
  <2>1. /\ Slice(s, a, b) \in Seq(S) /\ Len(Slice(s, a, b)) = b - a
        /\ \A i \in 1..b - a : Slice(s, a, b)[i] = s[a + i]
    BY <1>2, SliceIs
  <2>2. \A i \in 1..b - a : Slice(s, a, b)[i] = u[a + i]
    <3>1. \A i \in 1..b - a : a + i \in 1..Len(s) + Len(t) /\ a + i <= Len(s)
      BY <1>0, <1>2
    <3> QED BY <1>1, <2>1, <3>1 DEF u
  <2>3. u \in Seq(S) /\ b <= Len(u)
    BY <1>0, <1>1, <1>2 DEF u
  <2> QED BY <1>2, <2>1, <2>2, <2>3, SliceUnique
<1>3. Slice(u, Len(s), Len(s) + Len(t)) = t
  <2>1. \A i \in 1..Len(t) : t[i] = u[Len(s) + i]
    BY <1>0, <1>1 DEF u
  <2> DEFINE a == Len(s)
             b == Len(s) + Len(t)
  <2>2. /\ a \in Nat /\ b \in Nat /\ a <= b /\ b <= Len(u) /\ Len(t) = b - a
        /\ u \in Seq(S) /\ \A i \in 1..b - a : t[i] = u[a + i]
    BY <1>0, <1>1, <2>1 DEF u
  <2> HIDE DEF a, b
  <2>3. t = Slice(u, a, b)
    BY <2>2, SliceUnique
  <2> QED BY <2>3 DEF a, b
<1>4. Slice(u, 0, Len(s)) = s
  <2> DEFINE a == 0
             b == Len(s)
  <2>1. /\ a \in Nat /\ b \in Nat /\ a <= b /\ b <= Len(u) /\ Len(s) = b - a
        /\ u \in Seq(S) /\ \A i \in 1..b - a : s[i] = u[a + i]
    BY <1>0, <1>1 DEF u
  <2> HIDE DEF a, b
  <2>2. s = Slice(u, a, b)
    BY <2>1, SliceUnique
  <2> QED BY <2>2 DEF a, b
<1> QED BY <1>1, <1>2, <1>3, <1>4 DEF u

----------------------------------------------------------------------------
(* Messages that follow one another in a stream.                           *)

\* The messages q are, one after another, what comes in s from a to b.
Follow(q, s, a, b) ==
  \E p \in [0..Len(q) -> 0..Len(s)] :
    /\ p[0] = a /\ p[Len(q)] = b
    /\ \A i \in 1..Len(q) : p[i - 1] <= p[i] /\ q[i] = Slice(s, p[i - 1], p[i])

LEMMA FollowNone ==
  ASSUME NEW S, NEW s \in Seq(S), NEW a \in 0..Len(s)
  PROVE  /\ Follow(<<>>, s, a, a)
         /\ \A b : Follow(<<>>, s, a, b) => b = a
<1>1. Follow(<<>>, s, a, a)
  <2> DEFINE p == [i \in 0..0 |-> a]
  <2>1. p \in [0..Len(<<>>) -> 0..Len(s)] /\ p[0] = a /\ p[Len(<<>>)] = a
    OBVIOUS
  <2>2. 1..Len(<<>>) = {}
    OBVIOUS
  <2> HIDE DEF p
  <2> QED BY <2>1, <2>2 DEF Follow
<1> QED BY <1>1 DEF Follow

LEMMA FollowHead ==
  ASSUME NEW S, NEW s \in Seq(S), NEW q \in Seq(Seq(S)), q # <<>>, NEW a, NEW b,
         Follow(q, s, a, b)
  PROVE  \E n \in 0..Len(s) :
           a <= n /\ Head(q) = Slice(s, a, n) /\ Follow(Tail(q), s, n, b)
<1>0. /\ Len(q) \in Nat \ {0} /\ Head(q) = q[1] /\ Len(Tail(q)) = Len(q) - 1
      /\ \A i \in 1..Len(Tail(q)) : Tail(q)[i] = q[i + 1]
  BY HeadTailProperties
<1>1. PICK p \in [0..Len(q) -> 0..Len(s)] :
        /\ p[0] = a /\ p[Len(q)] = b
        /\ \A i \in 1..Len(q) : p[i - 1] <= p[i] /\ q[i] = Slice(s, p[i - 1], p[i])
  BY DEF Follow
<1>2. p[1] \in 0..Len(s) /\ a <= p[1] /\ Head(q) = Slice(s, a, p[1])
  <2>1. 1 \in 1..Len(q) /\ 1 \in 0..Len(q) /\ 1 - 1 = 0
    BY <1>0
  <2>2. p[1 - 1] <= p[1] /\ q[1] = Slice(s, p[1 - 1], p[1])
    BY <1>1, <2>1
  <2> QED BY <1>0, <1>1, <2>1, <2>2
<1> DEFINE r == [i \in 0..Len(q) - 1 |-> p[i + 1]]
<1>3. r \in [0..Len(Tail(q)) -> 0..Len(s)]
  BY <1>0
<1>4. r[0] = p[1] /\ r[Len(Tail(q))] = b
  BY <1>0, <1>1
<1>5. \A i \in 1..Len(Tail(q)) :
        r[i - 1] <= r[i] /\ Tail(q)[i] = Slice(s, r[i - 1], r[i])
  <2> SUFFICES ASSUME NEW i \in 1..Len(Tail(q))
               PROVE  r[i - 1] <= r[i] /\ Tail(q)[i] = Slice(s, r[i - 1], r[i])
    OBVIOUS
  <2>1. r[i - 1] = p[i] /\ r[i] = p[i + 1] /\ i + 1 \in 1..Len(q) /\ (i + 1) - 1 = i
    BY <1>0
  <2> QED BY <1>0, <1>1, <2>1
<1> HIDE DEF r
<1>6. Follow(Tail(q), s, p[1], b)
  BY <1>3, <1>4, <1>5 DEF Follow
<1> QED BY <1>2, <1>6

LEMMA FollowAppend ==
  ASSUME NEW S, NEW s \in Seq(S), NEW q \in Seq(Seq(S)), NEW a, NEW b \in Nat,
         Follow(q, s, a, b), NEW n \in 0..Len(s), b <= n
  PROVE  Follow(Append(q, Slice(s, b, n)), s, a, n)
<1> DEFINE m == Slice(s, b, n)
           z == Append(q, m)
<1>0. Len(q) \in Nat /\ m \in Seq(S)
  <2>1. Len(q) \in Nat /\ n \in Nat /\ n <= Len(s)
    BY LenProperties
  <2> QED BY <2>1, SliceIs
<1> HIDE DEF m
<1>1. /\ Len(z) = Len(q) + 1 /\ z[Len(q) + 1] = m
      /\ \A i \in 1..Len(q) : z[i] = q[i]
  BY <1>0
<1> HIDE DEF z
<1>2. PICK p \in [0..Len(q) -> 0..Len(s)] :
        /\ p[0] = a /\ p[Len(q)] = b
        /\ \A i \in 1..Len(q) : p[i - 1] <= p[i] /\ q[i] = Slice(s, p[i - 1], p[i])
  BY DEF Follow
<1> DEFINE r == [i \in 0..Len(q) + 1 |-> IF i <= Len(q) THEN p[i] ELSE n]
<1>3. r \in [0..Len(z) -> 0..Len(s)]
  BY <1>0, <1>1
<1>4. r[0] = a /\ r[Len(z)] = n /\ r[Len(q)] = b
  BY <1>0, <1>1, <1>2
<1>5. ASSUME NEW i \in 1..Len(z)
      PROVE  r[i - 1] <= r[i] /\ z[i] = Slice(s, r[i - 1], r[i])
  <2>1. CASE i <= Len(q)
    <3>1. r[i - 1] = p[i - 1] /\ r[i] = p[i] /\ i \in 1..Len(q)
      BY <1>0, <1>1, <2>1
    <3> QED BY <1>1, <1>2, <3>1
  <2>2. CASE i = Len(q) + 1
    <3>1. r[i - 1] = b /\ r[i] = n
      BY <1>0, <1>1, <1>4, <2>2
    <3> QED BY <1>1, <2>2, <3>1 DEF m
  <2> QED BY <1>0, <1>1, <2>1, <2>2
<1> HIDE DEF r
<1>6. Follow(z, s, a, n)
  BY <1>3, <1>4, <1>5 DEF Follow
<1> QED BY <1>6 DEF z, m

LEMMA FollowGrows ==
  ASSUME NEW S, NEW s \in Seq(S), NEW t \in Seq(S), NEW q \in Seq(Seq(S)), NEW a, NEW b,
         Follow(q, s, a, b)
  PROVE  Follow(q, s \o t, a, b)
<1>0. /\ Len(q) \in Nat /\ Len(s) \in Nat /\ Len(t) \in Nat
      /\ Len(s \o t) = Len(s) + Len(t)
      /\ \A c, d \in Nat : c <= d /\ d <= Len(s) => Slice(s \o t, c, d) = Slice(s, c, d)
  BY LenProperties, SliceGrows
<1>1. PICK p \in [0..Len(q) -> 0..Len(s)] :
        /\ p[0] = a /\ p[Len(q)] = b
        /\ \A i \in 1..Len(q) : p[i - 1] <= p[i] /\ q[i] = Slice(s, p[i - 1], p[i])
  BY DEF Follow
<1>2. p \in [0..Len(q) -> 0..Len(s \o t)]
  BY <1>0
<1>3. ASSUME NEW i \in 1..Len(q)
      PROVE  p[i - 1] <= p[i] /\ q[i] = Slice(s \o t, p[i - 1], p[i])
  <2>1. i - 1 \in 0..Len(q) /\ i \in 0..Len(q)
    BY <1>0
  <2>2. p[i - 1] \in 0..Len(s) /\ p[i] \in 0..Len(s)
    BY <2>1
  <2>3. p[i - 1] \in Nat /\ p[i] \in Nat /\ p[i] <= Len(s)
    BY <1>0, <2>2
  <2> QED BY <1>0, <1>1, <2>3
<1> QED BY <1>1, <1>2, <1>3 DEF Follow

----------------------------------------------------------------------------
(* Types, and how the connections depend on each other.                    *)

\* The page is done before the proxy closes its end, and sees a close of the
\* proxy only when the TCP connection has gone.
ProxyInv ==
  /\ ProxyTypeOK
  /\ ws = "closed" => page \notin {"open", "closing"}
  /\ page = "closed" => tcp = "closed"

\* A piece of a queue, and what is left of it.
LEMMA PieceIs ==
  ASSUME NEW S, NEW q \in Seq(S), NEW n \in 1..Len(q)
  PROVE  /\ SubSeq(q, 1, n) \in Seq(S) /\ SubSeq(q, n + 1, Len(q)) \in Seq(S)
         /\ SubSeq(q, 1, n) = Slice(q, 0, n)
         /\ SubSeq(q, n + 1, Len(q)) = Slice(q, n, Len(q))
<1>1. /\ Len(q) \in Nat /\ n \in Nat /\ 0 <= n /\ n <= Len(q) /\ Len(q) <= Len(q)
      /\ 0 \in Nat
  BY LenProperties
<1>2. Slice(q, 0, n) \in Seq(S) /\ Slice(q, n, Len(q)) \in Seq(S)
  BY <1>1, SliceIs
<1> QED BY <1>2 DEF Slice

\* The two writes of a message make up the message.
LEMMA WrittenIsMessage ==
  ASSUME NEW S, NEW m \in Seq(S)
  PROVE  Written(m) = m
<1>1. /\ 0 \in Nat /\ Cut(m) \in Nat /\ Len(m) \in Nat
      /\ 0 <= Cut(m) /\ Cut(m) <= Len(m) /\ Len(m) <= Len(m)
  BY LenProperties, ProxyAssumption DEF Cut
<1>2. Slice(m, 0, Cut(m)) \o Slice(m, Cut(m), Len(m)) = Slice(m, 0, Len(m))
  BY <1>1, SliceJoin
<1>3. SubSeq(m, 1, Cut(m)) \o SubSeq(m, Cut(m) + 1, Len(m)) = SubSeq(m, 1, Len(m))
  <2>1. 0 + 1 = 1
    OBVIOUS
  <2> QED BY <1>2, <2>1 DEF Slice
<1> QED BY <1>3, SubSeqFull DEF Written, FirstBytes, Rest

LEMMA PageStepType ==
  ASSUME ProxyInv, PageStep \/ PageVanishes \/ PageSeesClose
  PROVE  ProxyInv'
<1> USE DEF ProxyInv, ProxyTypeOK
<1>1. ASSUME NEW m \in Messages, page = "open", PageSends(m),
             UNCHANGED <<ends, toRelay, upRead, downVars>>
      PROVE  ProxyInv'
  <2>1. m \in Seq(Byte) /\ up' = Append(up, m) /\ upSent' = upSent \o m
    BY <1>1, ProxyAssumption DEF PageSends
  <2>2. up' \in Seq(Seq(Byte)) /\ upSent' \in Seq(Byte)
    BY <2>1, ConcatProperties
  <2>3. relay # "eof" /\ ws # "closed"
    BY <1>1
  <2> QED BY <1>1, <2>2, <2>3 DEF ends, downVars
<1>2. CASE PageTakes /\ UNCHANGED <<ends, upVars, toProxy, downSent>>
  <2>1. down # <<>> /\ down' = Tail(down) /\ downGot' = downGot \o Head(down)
    BY <1>2 DEF PageTakes
  <2>2. /\ Head(down) \in Seq(Byte) /\ down' \in Seq(Seq(Byte))
    BY <2>1, HeadTailProperties
  <2>3. downGot' \in Seq(Byte)
    BY <2>1, <2>2, ConcatProperties
  <2>4. relay # "none"
    BY <2>1
  <2> QED BY <1>2, <2>2, <2>3, <2>4 DEF ends, upVars
<1>3. CASE page = "open" /\ PageCloses /\ UNCHANGED <<ws, tcp, fin, relay, upVars, downVars>>
  BY <1>3 DEF PageCloses, upVars, downVars
<1>4. CASE PageVanishes
  BY <1>4 DEF PageVanishes, upVars, downVars
<1>5. CASE PageSeesClose
  BY <1>5 DEF PageSeesClose, upVars, downVars
<1> QED BY <1>1, <1>2, <1>3, <1>4, <1>5 DEF PageStep

LEMMA RelayStepType ==
  ASSUME ProxyInv, RelayStep \/ RelayHangsUp
  PROVE  ProxyInv'
<1> USE DEF ProxyInv, ProxyTypeOK
<1>1. ASSUME NEW bytes, RelayReads(bytes), UNCHANGED <<ends, up, upSent, downVars>>
      PROVE  ProxyInv'
  <2>1. PICK n \in 1..Len(toRelay) :
          /\ bytes = SubSeq(toRelay, 1, n)
          /\ toRelay' = SubSeq(toRelay, n + 1, Len(toRelay))
    BY <1>1 DEF RelayReads
  <2>2. bytes \in Seq(Byte) /\ toRelay' \in Seq(Byte)
    BY <2>1, PieceIs
  <2>3. upRead' \in Seq(Byte) /\ relay = "open"
    BY <1>1, <2>2, ConcatProperties DEF RelayReads
  <2> QED BY <1>1, <2>2, <2>3 DEF ends, downVars
<1>2. ASSUME NEW bytes \in Answers, RelaySends(bytes), UNCHANGED <<ends, upVars, down, downGot>>
      PROVE  ProxyInv'
  <2>1. /\ bytes \in Seq(Byte) /\ relay = "open"
        /\ toProxy' = toProxy \o bytes /\ downSent' = downSent \o bytes
    BY <1>2, ProxyAssumption DEF RelaySends
  <2>2. toProxy' \in Seq(Byte) /\ downSent' \in Seq(Byte)
    BY <2>1, ConcatProperties
  <2> QED BY <1>2, <2>1, <2>2 DEF ends, upVars
<1>3. CASE RelayCloses
  BY <1>3 DEF RelayCloses, upVars, downVars
<1>4. CASE RelayHangsUp
  BY <1>4 DEF RelayHangsUp, RelaySeesEnd, upVars, downVars
<1> QED BY <1>1, <1>2, <1>3, <1>4 DEF RelayStep

LEMMA ProxyStepType ==
  ASSUME ProxyInv, ProxyStep
  PROVE  ProxyInv'
<1> USE DEF ProxyInv, ProxyTypeOK
<1>1. CASE HandleMessage
  <2>1. up # <<>> /\ ws # "closed" /\ Head(up) \in Seq(Byte) /\ up' \in Seq(Seq(Byte))
    BY <1>1, HeadTailProperties DEF HandleMessage
  <2>2. toRelay' \in Seq(Byte)
    BY <1>1, <2>1, WrittenIsMessage, ConcatProperties DEF HandleMessage
  <2> QED BY <1>1, <2>1, <2>2 DEF HandleMessage, ends, downVars
<1>2. CASE HandleWsClose
  BY <1>2 DEF HandleWsClose, PageEnded, EndTcp, downVars
<1>3. CASE HandleConnect
  BY <1>3 DEF HandleConnect, upVars, downVars
<1>4. CASE HandleTcpClose
  BY <1>4 DEF HandleTcpClose, TcpEnds, CloseWs
<1>5. ASSUME NEW bytes, HandleData(bytes)
      PROVE  ProxyInv'
  <2>1. PICK n \in 1..Len(toProxy) :
          /\ bytes = SubSeq(toProxy, 1, n)
          /\ toProxy' = SubSeq(toProxy, n + 1, Len(toProxy))
    BY <1>5 DEF HandleData
  <2>2. bytes \in Seq(Byte) /\ toProxy' \in Seq(Byte)
    BY <2>1, PieceIs
  <2>3. down' \in Seq(Seq(Byte)) /\ tcp = "open" /\ relay # "none"
    BY <1>5, <2>2 DEF HandleData, Forward
  <2> QED BY <1>5, <2>2, <2>3 DEF HandleData, ends, upVars
<1> QED BY <1>1, <1>2, <1>3, <1>4, <1>5 DEF ProxyStep

LEMMA InitProxy == ProxyInit => ProxyInv
<1>1. <<>> \in Seq(Byte) /\ <<>> \in Seq(Seq(Byte))
  BY EmptySeq
<1> QED BY <1>1 DEF ProxyInit, ProxyInv, ProxyTypeOK

LEMMA StepProxy == ProxyInv /\ [ProxyNext]_proxyVars => ProxyInv'
<1> SUFFICES ASSUME ProxyInv, [ProxyNext]_proxyVars PROVE ProxyInv'
  OBVIOUS
<1>1. CASE UNCHANGED proxyVars
  BY <1>1 DEF proxyVars, ends, upVars, downVars, ProxyInv, ProxyTypeOK
<1> QED BY <1>1, PageStepType, RelayStepType, ProxyStepType DEF ProxyNext

\* Types, and the order in which the two connections end: the proxy closes a
\* WebSocket only after the TCP connection and calls end() on that one only
\* after the page's last message.
THEOREM ProxyTypeCorrect == ProxySpec => []ProxyTypeOK
<1>1. ProxyInv => ProxyTypeOK
  BY DEF ProxyInv
<1> QED BY <1>1, InitProxy, StepProxy, PTL DEF ProxySpec

----------------------------------------------------------------------------
(* The uplink.                                                             *)

\* The relay has read the first bytes of what the page sent.  While there is a
\* TCP connection the bytes on it come next, and the messages not yet handled
\* after them, the last one included unless the page has vanished.
UpPrefix == Len(upRead) <= Len(upSent) /\ upRead = Slice(upSent, 0, Len(upRead))
Taken == Len(upRead) + Len(toRelay)
UpPiped ==
  tcp # "closed" =>
    /\ Taken <= Len(upSent) /\ toRelay = Slice(upSent, Len(upRead), Taken)
    /\ \E e \in 0..Len(upSent) :
         Follow(up, upSent, Taken, e) /\ (page # "gone" => e = Len(upSent))

UpInv == ProxyInv /\ UpPrefix /\ UpPiped

LEMMA UpLengths ==
  ASSUME ProxyInv
  PROVE  /\ Len(upSent) \in Nat /\ Len(upRead) \in Nat /\ Len(toRelay) \in Nat
         /\ Taken \in Nat /\ Len(upRead) <= Taken
<1>1. Len(upSent) \in Nat /\ Len(upRead) \in Nat /\ Len(toRelay) \in Nat
  BY LenProperties DEF ProxyInv, ProxyTypeOK
<1> QED BY <1>1 DEF Taken

\* A step that moves no byte up.
LEMMA UpQuiet ==
  ASSUME UpInv, UNCHANGED upVars, tcp' # "closed" => tcp # "closed",
         page' # "gone" => page # "gone"
  PROVE  (UpPrefix /\ UpPiped)'
<1>1. UNCHANGED <<up, toRelay, upSent, upRead>>
  BY DEF upVars
<1>2. UpPrefix'
  BY <1>1 DEF UpInv, UpPrefix
<1>3. UpPiped'
  BY <1>1 DEF UpInv, UpPiped, Taken
<1> QED BY <1>2, <1>3

LEMMA UpWrites ==
  ASSUME UpInv, NEW m \in Messages, page = "open", PageSends(m),
         UNCHANGED <<ends, toRelay, upRead, downVars>>
  PROVE  (UpPrefix /\ UpPiped)' /\ Uplink!Write
<1> USE DEF UpInv, ProxyInv, ProxyTypeOK
<1>1. m \in Seq(Byte) /\ up' = Append(up, m) /\ upSent' = upSent \o m
  BY ProxyAssumption DEF PageSends
<1>2. UNCHANGED <<page, tcp, relay, toRelay, upRead>> /\ Taken' = Taken
  BY DEF ends, Taken
<1>3. /\ Len(upSent) \in Nat /\ Len(m) \in Nat /\ Len(upRead) \in Nat /\ Taken \in Nat
      /\ Len(upRead) <= Taken /\ 0 \in Nat
  BY <1>1, UpLengths, LenProperties
<1>4. /\ upSent' \in Seq(Byte) /\ Len(upSent') = Len(upSent) + Len(m)
      /\ \A a, b \in Nat : a <= b /\ b <= Len(upSent)
                             => Slice(upSent', a, b) = Slice(upSent, a, b)
      /\ Slice(upSent', Len(upSent), Len(upSent')) = m
      /\ Slice(upSent', 0, Len(upSent)) = upSent
  <2>1. upSent \in Seq(Byte)
    OBVIOUS
  <2> HIDE DEF UpInv, ProxyInv, ProxyTypeOK
  <2> QED BY <1>1, <2>1, SliceGrows
<1>5. UpPrefix'
  BY <1>2, <1>3, <1>4 DEF UpPrefix
<1>6. UpPiped'
  <2> SUFFICES ASSUME tcp # "closed"
               PROVE  /\ Taken <= Len(upSent') /\ toRelay = Slice(upSent', Len(upRead), Taken)
                      /\ Follow(up', upSent', Taken, Len(upSent'))
    BY <1>2, <1>3, <1>4 DEF UpPiped
  <2>1. /\ Taken <= Len(upSent) /\ toRelay = Slice(upSent, Len(upRead), Taken)
        /\ Follow(up, upSent, Taken, Len(upSent))
    BY DEF UpPiped
  <2>2. Follow(up, upSent', Taken, Len(upSent))
    BY <1>1, <2>1, FollowGrows
  <2>3. Len(upSent) <= Len(upSent') /\ Len(upSent') \in 0..Len(upSent')
    BY <1>3, <1>4
  <2>4. Follow(Append(up, m), upSent', Taken, Len(upSent'))
    BY <1>3, <1>4, <2>2, <2>3, FollowAppend
  <2> QED BY <1>1, <1>3, <1>4, <2>1, <2>3, <2>4
<1>7. Uplink!Write
  <2>1. Len(upSent') >= Len(upSent) /\ SubSeq(upSent', 1, Len(upSent)) = upSent
    <3>1. 0 + 1 = 1
      OBVIOUS
    <3> QED BY <1>3, <1>4, <3>1 DEF Slice
  <2> QED BY <1>2, <2>1 DEF Uplink!Write
<1> QED BY <1>5, <1>6, <1>7

LEMMA UpReads ==
  ASSUME UpInv, NEW bytes, RelayReads(bytes), UNCHANGED <<ends, up, upSent, downVars>>
  PROVE  (UpPrefix /\ UpPiped)' /\ Uplink!Read
<1> USE DEF UpInv, ProxyInv, ProxyTypeOK
<1>1. /\ relay = "open" /\ tcp = "open" /\ UNCHANGED <<page, tcp, relay, up, upSent>>
      /\ upRead' = upRead \o bytes
  BY DEF RelayReads, ends
<1>2. PICK n \in 1..Len(toRelay) :
        /\ bytes = SubSeq(toRelay, 1, n)
        /\ toRelay' = SubSeq(toRelay, n + 1, Len(toRelay))
  BY DEF RelayReads
<1>3. PICK r : r = Len(upRead)
  OBVIOUS
<1>4. PICK k : k = Taken
  OBVIOUS
<1>5. /\ Len(upSent) \in Nat /\ r \in Nat /\ k \in Nat /\ r <= k /\ k <= Len(upSent)
      /\ Len(toRelay) = k - r /\ n \in 0..k - r /\ 0 \in Nat
      /\ r + n \in Nat /\ r <= r + n /\ r + n <= k /\ 0 <= r /\ r + n <= Len(upSent)
      /\ 0 <= r + n /\ k <= k /\ upSent \in Seq(Byte)
  <2>1. /\ Len(upSent) \in Nat /\ r \in Nat /\ Len(toRelay) \in Nat /\ k = r + Len(toRelay)
        /\ n \in 1..Len(toRelay) /\ upSent \in Seq(Byte)
    BY <1>3, <1>4, UpLengths DEF Taken
  <2>2. k <= Len(upSent)
    BY <1>1, <1>4 DEF UpPiped
  <2> QED BY ONLY <2>1, <2>2
<1>6. upRead = Slice(upSent, 0, r) /\ toRelay = Slice(upSent, r, k)
  BY <1>1, <1>3, <1>4 DEF UpPrefix, UpPiped
<1> HIDE DEF UpInv, ProxyInv, ProxyTypeOK
<1>7. bytes = Slice(upSent, r, r + n) /\ toRelay' = Slice(upSent, r + n, k)
  <2>1. /\ SubSeq(Slice(upSent, r, k), 1, n) = Slice(upSent, r, r + n)
        /\ SubSeq(Slice(upSent, r, k), n + 1, k - r) = Slice(upSent, r + n, k)
    <3>1. upSent \in Seq(Byte) /\ r \in Nat /\ k \in Nat
      BY <1>5
    <3>2. r <= k /\ k <= Len(upSent)
      BY <1>5
    <3>3. n \in 0..k - r
      BY <1>5
    <3>4. SubSeq(Slice(upSent, r, k), 1, n) = Slice(upSent, r, r + n)
      BY ONLY <3>1, <3>2, <3>3, SliceFirst, Zenon
    <3>5. SubSeq(Slice(upSent, r, k), n + 1, k - r) = Slice(upSent, r + n, k)
      BY ONLY <3>1, <3>2, <3>3, SliceRest, Zenon
    <3> QED BY ONLY <3>4, <3>5, Zenon
  <2> QED BY <1>2, <1>5, <1>6, <2>1
<1>8. upRead' = Slice(upSent, 0, r + n)
  <2>1. Slice(upSent, 0, r) \o Slice(upSent, r, r + n) = Slice(upSent, 0, r + n)
    BY <1>5, SliceJoin, Zenon
  <2> QED BY <1>1, <1>6, <1>7, <2>1, Zenon
<1>9. Len(upRead') = r + n /\ Len(toRelay') = k - (r + n)
  <2>1. Len(Slice(upSent, 0, r + n)) = (r + n) - 0
    BY <1>5, SliceIs, Zenon
  <2>2. Len(Slice(upSent, r + n, k)) = k - (r + n)
    <3>1. upSent \in Seq(Byte) /\ r + n \in Nat /\ k \in Nat
      BY <1>5
    <3>2. r + n <= k /\ k <= Len(upSent)
      BY <1>5
    <3> QED BY ONLY <3>1, <3>2, SliceIs, Zenon
  <2> QED BY <1>5, <1>7, <1>8, <2>1, <2>2
<1>10. Taken' = k
  BY <1>5, <1>9 DEF Taken
<1>11. UpPrefix'
  BY <1>1, <1>5, <1>8, <1>9 DEF UpPrefix
<1>12. UpPiped'
  BY <1>1, <1>4, <1>5, <1>7, <1>9, <1>10 DEF UpPiped, UpInv
<1>13. Uplink!Read
  <2>1. r + n \in Len(upRead)..Len(upSent) /\ upRead' = SubSeq(upSent, 1, r + n)
    BY <1>3, <1>5, <1>8 DEF Slice
  <2> QED BY <1>1, <2>1 DEF Uplink!Read
<1> QED BY <1>11, <1>12, <1>13

LEMMA UpHandles ==
  ASSUME UpInv, HandleMessage
  PROVE  (UpPrefix /\ UpPiped)'
<1> USE DEF UpInv, ProxyInv, ProxyTypeOK
<1>1. /\ up # <<>> /\ up' = Tail(up) /\ UNCHANGED <<page, tcp, relay, upSent, upRead>>
      /\ toRelay' = IF tcp = "closed" THEN toRelay ELSE toRelay \o Written(Head(up))
  BY DEF HandleMessage, ends
<1>2. UpPrefix'
  BY <1>1 DEF UpPrefix
<1>3. UpPiped'
  <2> SUFFICES ASSUME tcp # "closed" PROVE UpPiped'
    BY <1>1 DEF UpPiped
  <2>1. PICK r : r = Len(upRead)
    OBVIOUS
  <2>2. PICK k : k = Taken
    OBVIOUS
  <2>3. PICK e \in 0..Len(upSent) :
          Follow(up, upSent, k, e) /\ (page # "gone" => e = Len(upSent))
    BY <2>2 DEF UpPiped
  <2>4. PICK n \in 0..Len(upSent) :
          k <= n /\ Head(up) = Slice(upSent, k, n) /\ Follow(Tail(up), upSent, n, e)
    BY <1>1, <2>3, FollowHead
  <2>5. /\ Len(upSent) \in Nat /\ r \in Nat /\ k \in Nat /\ r <= k /\ n \in Nat
        /\ n <= Len(upSent) /\ r <= n /\ upSent \in Seq(Byte)
    BY <2>1, <2>2, <2>4, UpLengths
  <2>6. Head(up) \in Seq(Byte)
    BY <1>1, HeadTailProperties
  <2>7. toRelay' = Slice(upSent, r, k) \o Slice(upSent, k, n)
    BY <1>1, <2>1, <2>2, <2>4, <2>6, WrittenIsMessage DEF UpPiped
  <2>8. toRelay' = Slice(upSent, r, n)
    BY <2>4, <2>5, <2>7, SliceJoin
  <2>9. Len(toRelay') = n - r
    <3> HIDE DEF UpInv, ProxyInv, ProxyTypeOK
    <3>1. Len(Slice(upSent, r, n)) = n - r
      BY <2>5, SliceIs
    <3> QED BY <2>8, <3>1
  <2>10. Taken' = n
    BY <1>1, <2>1, <2>5, <2>9 DEF Taken
  <2> QED BY <1>1, <2>1, <2>3, <2>4, <2>5, <2>8, <2>10 DEF UpPiped
<1> QED BY <1>2, <1>3

\* The proxy closes the WebSocket of a page that is done or has vanished.
LEMMA UpDone ==
  ASSUME UpInv, HandleWsClose
  PROVE  (UpPrefix /\ UpPiped)'
<1> USE DEF UpInv, ProxyInv, ProxyTypeOK
<1>1. /\ UNCHANGED <<tcp, toRelay, upSent, upRead>> /\ up' = <<>>
      /\ page' # "gone" => page # "gone" /\ up = <<>>
  BY DEF HandleWsClose, PageEnded
<1>2. UpPrefix'
  BY <1>1 DEF UpPrefix
<1>3. UpPiped'
  <2> SUFFICES ASSUME tcp # "closed" PROVE UpPiped'
    BY <1>1 DEF UpPiped
  <2>1. Taken' = Taken /\ Taken \in 0..Len(upSent)
    BY <1>1, UpLengths DEF Taken, UpPiped
  <2>2. Follow(<<>>, upSent, Taken, Taken)
    BY <2>1, FollowNone
  <2>3. page' # "gone" => Taken = Len(upSent)
    BY <1>1, <2>1, FollowNone DEF UpPiped
  <2> QED BY <1>1, <2>1, <2>2, <2>3 DEF UpPiped
<1> QED BY <1>2, <1>3

\* The relay sees the end of the stream after its last byte.
LEMMA UpEnds ==
  ASSUME UpInv, RelayHangsUp
  PROVE  Uplink!End
<1> USE DEF UpInv, ProxyInv, ProxyTypeOK
<1>1. /\ relay = "open" /\ tcp = "open" /\ toRelay = <<>> /\ fin
      /\ UNCHANGED <<page, upSent, upRead>> /\ relay' = "eof"
  BY DEF RelayHangsUp, RelaySeesEnd, upVars
<1>2. page \in {"left", "gone"} /\ up = <<>>
  BY <1>1
<1>3. page = "left" => upRead = upSent
  <2> SUFFICES ASSUME page = "left" PROVE upRead = upSent
    OBVIOUS
  <2>1. Taken = Len(upRead) /\ Taken \in 0..Len(upSent)
    BY <1>1, UpLengths DEF Taken, UpPiped
  <2>2. Len(upRead) = Len(upSent)
    BY <1>1, <1>2, <2>1, FollowNone DEF UpPiped
  <2>3. upRead = SubSeq(upSent, 1, Len(upSent))
    BY <2>2 DEF UpPrefix, Slice
  <2> QED BY <2>3, SubSeqFull
<1> QED BY <1>1, <1>2, <1>3 DEF Uplink!End

\* A step in which no byte moves and the reader sees no end.
LEMMA UpCloses ==
  ASSUME ProxyInv, UNCHANGED <<upSent, upRead>>, relay' = "eof" <=> relay = "eof",
         \/ page' = page
         \/ page = "open" /\ page' \in {"closing", "closed"}
         \/ page \in {"open", "closing"} /\ page' = "gone"
         \/ page = "closing" /\ page' = "left"
  PROVE  [Uplink!Next]_(Uplink!vars)
  BY DEF ProxyInv, ProxyTypeOK, Uplink!Next, Uplink!Close, Uplink!vars

LEMMA StepUp ==
  UpInv /\ [ProxyNext]_proxyVars => UpInv' /\ [Uplink!Next]_(Uplink!vars)
<1> SUFFICES ASSUME UpInv, [ProxyNext]_proxyVars
             PROVE  UpInv' /\ [Uplink!Next]_(Uplink!vars)
  OBVIOUS
<1>1. ProxyInv' /\ ProxyInv
  BY StepProxy DEF UpInv
<1>2. ASSUME UNCHANGED upVars, tcp' # "closed" => tcp # "closed",
             relay' = "eof" <=> relay = "eof",
             \/ page' = page
             \/ page = "open" /\ page' \in {"closing", "closed"}
             \/ page \in {"open", "closing"} /\ page' = "gone"
      PROVE  UpInv' /\ [Uplink!Next]_(Uplink!vars)
  <2>1. (UpPrefix /\ UpPiped)'
    BY <1>2, UpQuiet
  <2>2. [Uplink!Next]_(Uplink!vars)
    BY <1>1, <1>2, UpCloses DEF upVars
  <2> QED BY <1>1, <2>1, <2>2 DEF UpInv
<1>3. CASE UNCHANGED proxyVars
  BY <1>2, <1>3 DEF proxyVars, ends
<1>4. CASE PageStep \/ PageVanishes \/ PageSeesClose
  <2>1. ASSUME NEW m \in Messages, page = "open", PageSends(m),
               UNCHANGED <<ends, toRelay, upRead, downVars>>
        PROVE  UpInv' /\ [Uplink!Next]_(Uplink!vars)
    BY <1>1, <2>1, UpWrites DEF UpInv, Uplink!Next
  <2>2. CASE PageTakes /\ UNCHANGED <<ends, upVars, toProxy, downSent>>
    BY <1>2, <2>2 DEF ends
  <2>3. CASE page = "open" /\ PageCloses /\ UNCHANGED <<ws, tcp, fin, relay, upVars, downVars>>
    BY <1>2, <2>3 DEF PageCloses
  <2>4. CASE PageVanishes
    BY <1>2, <2>4 DEF PageVanishes
  <2>5. CASE PageSeesClose
    BY <1>2, <2>5 DEF PageSeesClose
  <2> QED BY <1>4, <2>1, <2>2, <2>3, <2>4, <2>5 DEF PageStep
<1>5. CASE RelayStep
  <2>1. ASSUME NEW bytes, RelayReads(bytes), UNCHANGED <<ends, up, upSent, downVars>>
        PROVE  UpInv' /\ [Uplink!Next]_(Uplink!vars)
    BY <1>1, <2>1, UpReads DEF UpInv, Uplink!Next
  <2>2. ASSUME NEW bytes, RelaySends(bytes), UNCHANGED <<ends, upVars, down, downGot>>
        PROVE  UpInv' /\ [Uplink!Next]_(Uplink!vars)
    BY <1>2, <2>2 DEF ends
  <2>3. CASE RelayCloses
    BY <1>2, <2>3 DEF RelayCloses
  <2> QED BY <1>5, <2>1, <2>2, <2>3 DEF RelayStep
<1>6. CASE RelayHangsUp
  <2>1. (UpPrefix /\ UpPiped)'
    BY <1>6, UpQuiet DEF RelayHangsUp
  <2> QED BY <1>1, <1>6, <2>1, UpEnds DEF UpInv, Uplink!Next
<1>7. CASE ProxyStep
  <2>1. CASE HandleMessage
    <3>1. [Uplink!Next]_(Uplink!vars)
      BY <1>1, <2>1, UpCloses DEF HandleMessage, ends
    <3> QED BY <1>1, <2>1, <3>1, UpHandles DEF UpInv
  <2>2. CASE HandleWsClose
    <3>1. [Uplink!Next]_(Uplink!vars)
      BY <1>1, <2>2, UpCloses DEF HandleWsClose
    <3> QED BY <1>1, <2>2, <3>1, UpDone DEF UpInv
  <2>3. CASE HandleConnect
    <3>1. relay' # "eof" /\ relay # "eof" /\ tcp # "closed"
      BY <2>3 DEF HandleConnect
    <3> QED BY <1>2, <2>3, <3>1 DEF HandleConnect
  <2>4. CASE HandleTcpClose
    <3>1. tcp' = "closed" /\ UNCHANGED <<page, upSent, upRead>>
          /\ (relay' = "eof" <=> relay = "eof")
      BY <1>1, <2>4 DEF HandleTcpClose, ProxyInv, ProxyTypeOK
    <3>2. UpPrefix' /\ UpPiped'
      BY <3>1 DEF UpInv, UpPrefix, UpPiped
    <3>3. [Uplink!Next]_(Uplink!vars)
      BY <1>1, <3>1, UpCloses
    <3> QED BY <1>1, <3>2, <3>3 DEF UpInv
  <2>5. ASSUME NEW bytes, HandleData(bytes)
        PROVE  UpInv' /\ [Uplink!Next]_(Uplink!vars)
    BY <1>2, <2>5 DEF HandleData, ends
  <2> QED BY <1>7, <2>1, <2>2, <2>3, <2>4, <2>5 DEF ProxyStep
<1> QED BY <1>3, <1>4, <1>5, <1>6, <1>7 DEF ProxyNext

LEMMA InitUp == ProxyInit => UpInv /\ Uplink!Init
<1> SUFFICES ASSUME ProxyInit PROVE UpInv /\ Uplink!Init
  OBVIOUS
<1>1. <<>> \in Seq(Byte) /\ Len(<<>>) = 0
  BY EmptySeq
<1>2. /\ upSent = <<>> /\ upRead = <<>> /\ toRelay = <<>> /\ up = <<>>
      /\ page = "open" /\ relay = "none"
  BY DEF ProxyInit
<1>3. Slice(<<>>, 0, 0) = <<>>
  BY SubSeqEmpty DEF Slice
<1>4. UpPrefix
  BY <1>1, <1>2, <1>3 DEF UpPrefix
<1>5. UpPiped
  <2>1. Taken = 0 /\ 0 \in 0..Len(upSent)
    BY <1>1, <1>2 DEF Taken
  <2>2. Follow(<<>>, upSent, 0, 0)
    BY <1>1, <1>2, <2>1, FollowNone
  <2> QED BY <1>1, <1>2, <1>3, <2>1, <2>2 DEF UpPiped
<1> QED BY <1>2, <1>4, <1>5, InitProxy DEF UpInv, Uplink!Init

\* What the relay reads is what the page sent, byte for byte, and it sees the
\* end only after the last byte, unless the page has vanished.
THEOREM UplinkCorrect == ProxySpec => UplinkIsStream
  BY InitUp, StepUp, PTL DEF ProxySpec, UplinkIsStream, Uplink!Spec

----------------------------------------------------------------------------
(* The downlink.                                                           *)

\* The page has got the first bytes of what the relay sent.  While it is open
\* the messages on their way to it come next, and after them the bytes that the
\* proxy has not read, the last one included unless the relay's end was reset.
DownPrefix == Len(downGot) <= Len(downSent) /\ downGot = Slice(downSent, 0, Len(downGot))
Waiting(e) ==
  /\ e + Len(toProxy) <= Len(downSent)
  /\ toProxy = Slice(downSent, e, e + Len(toProxy))
  /\ relay # "reset" => e + Len(toProxy) = Len(downSent)
DownPiped ==
  page = "open" =>
    \E e \in 0..Len(downSent) : Follow(down, downSent, Len(downGot), e) /\ Waiting(e)

DownInv == ProxyInv /\ DownPrefix /\ DownPiped

LEMMA DownLengths ==
  ASSUME ProxyInv
  PROVE  /\ Len(downSent) \in Nat /\ Len(downGot) \in Nat /\ Len(toProxy) \in Nat
         /\ downSent \in Seq(Byte) /\ toProxy \in Seq(Byte) /\ down \in Seq(Seq(Byte))
  BY LenProperties DEF ProxyInv, ProxyTypeOK

\* A step that moves no byte down.
LEMMA DownQuiet ==
  ASSUME DownInv, UNCHANGED downVars, page' = "open" => page = "open",
         relay' # "reset" => relay # "reset"
  PROVE  (DownPrefix /\ DownPiped)'
<1>1. UNCHANGED <<toProxy, down, downSent, downGot>>
  BY DEF downVars
<1>2. DownPrefix'
  BY <1>1 DEF DownInv, DownPrefix
<1>3. DownPiped'
  BY <1>1 DEF DownInv, DownPiped, Waiting
<1> QED BY <1>2, <1>3

LEMMA DownWrites ==
  ASSUME DownInv, NEW bytes \in Answers, RelaySends(bytes),
         UNCHANGED <<ends, upVars, down, downGot>>
  PROVE  (DownPrefix /\ DownPiped)' /\ Downlink!Write
<1>1. /\ bytes \in Seq(Byte) /\ relay = "open"
      /\ toProxy' = toProxy \o bytes /\ downSent' = downSent \o bytes
      /\ UNCHANGED <<page, relay, down, downGot>>
  BY ProxyAssumption DEF RelaySends, ends
<1>2. /\ Len(downSent) \in Nat /\ Len(bytes) \in Nat /\ Len(downGot) \in Nat
      /\ Len(toProxy) \in Nat /\ 0 \in Nat
      /\ downSent \in Seq(Byte) /\ toProxy \in Seq(Byte) /\ down \in Seq(Seq(Byte))
  BY <1>1, DownLengths, LenProperties DEF DownInv
<1>3. /\ downSent' \in Seq(Byte) /\ Len(downSent') = Len(downSent) + Len(bytes)
      /\ \A a, b \in Nat : a <= b /\ b <= Len(downSent)
                             => Slice(downSent', a, b) = Slice(downSent, a, b)
      /\ Slice(downSent', Len(downSent), Len(downSent')) = bytes
      /\ Slice(downSent', 0, Len(downSent)) = downSent
  BY <1>1, <1>2, SliceGrows
<1>4. DownPrefix'
  BY <1>1, <1>2, <1>3 DEF DownInv, DownPrefix
<1>5. DownPiped'
  <2> SUFFICES ASSUME page = "open" PROVE DownPiped'
    BY <1>1 DEF DownPiped
  <2>1. PICK e \in 0..Len(downSent) : Follow(down, downSent, Len(downGot), e) /\ Waiting(e)
    BY DEF DownInv, DownPiped
  <2>2. /\ e \in Nat /\ e <= Len(downSent) /\ e + Len(toProxy) = Len(downSent)
        /\ toProxy = Slice(downSent, e, Len(downSent))
    <3>1. relay # "reset"
      BY <1>1
    <3>2. e + Len(toProxy) = Len(downSent) /\ toProxy = Slice(downSent, e, e + Len(toProxy))
      BY ONLY <2>1, <3>1 DEF Waiting
    <3>3. toProxy = Slice(downSent, e, Len(downSent))
      BY ONLY <3>2, Zenon
    <3>4. e \in Nat /\ e <= Len(downSent)
      BY ONLY <1>2, e \in 0..Len(downSent)
    <3> QED BY ONLY <3>2, <3>3, <3>4
  <2>3. Follow(down, downSent', Len(downGot), e)
    BY <1>1, <1>2, <2>1, FollowGrows
  <2>4. Slice(downSent', e, Len(downSent)) = toProxy
    BY <1>2, <1>3, <2>2
  <2>5. /\ Len(downSent) \in Nat /\ Len(downSent') \in Nat
        /\ Len(downSent) <= Len(downSent') /\ Len(downSent') <= Len(downSent')
    BY <1>2, <1>3
  <2>6. toProxy' = Slice(downSent', e, Len(downSent'))
    <3>1. Slice(downSent', e, Len(downSent)) \o Slice(downSent', Len(downSent), Len(downSent'))
            = Slice(downSent', e, Len(downSent'))
      BY <1>3, <2>2, <2>5, SliceJoin
    <3> QED BY <1>1, <1>3, <2>4, <3>1
  <2>7. e + Len(toProxy') = Len(downSent')
    <3>1. Len(toProxy') = Len(toProxy) + Len(bytes)
      BY <1>1, <1>2, ConcatProperties
    <3>2. Len(downSent') = Len(downSent) + Len(bytes)
      BY <1>3
    <3>3. e \in Nat /\ e + Len(toProxy) = Len(downSent)
      BY <2>2
    <3>4. Len(toProxy) \in Nat /\ Len(bytes) \in Nat
      BY <1>2
    <3>5. (e + Len(toProxy)) + Len(bytes) = e + (Len(toProxy) + Len(bytes))
      BY ONLY <3>3, <3>4
    <3> QED BY ONLY <3>1, <3>2, <3>3, <3>5, Zenon
  <2>8. Waiting(e)'
    BY <2>5, <2>6, <2>7 DEF Waiting
  <2>9. e \in 0..Len(downSent')
    BY <2>2, <2>5
  <2> QED BY <1>1, <2>3, <2>8, <2>9 DEF DownPiped
<1>6. Downlink!Write
  <2>1. Len(downSent') >= Len(downSent) /\ SubSeq(downSent', 1, Len(downSent)) = downSent
    <3>1. 0 + 1 = 1
      OBVIOUS
    <3> QED BY <1>2, <1>3, <3>1 DEF Slice
  <2> QED BY <1>1, <2>1 DEF Downlink!Write
<1> QED BY <1>4, <1>5, <1>6

LEMMA DownReads ==
  ASSUME DownInv, PageTakes, UNCHANGED <<ends, upVars, toProxy, downSent>>
  PROVE  (DownPrefix /\ DownPiped)' /\ Downlink!Read
<1>1. /\ page = "open" /\ down # <<>> /\ down' = Tail(down)
      /\ downGot' = downGot \o Head(down) /\ UNCHANGED <<page, relay, toProxy, downSent>>
  BY DEF PageTakes, ends
<1>2. PICK g : g = Len(downGot)
  OBVIOUS
<1>3. PICK e \in 0..Len(downSent) : Follow(down, downSent, g, e) /\ Waiting(e)
  BY <1>1, <1>2 DEF DownInv, DownPiped
<1>4. /\ Len(downSent) \in Nat /\ g \in Nat /\ g <= Len(downSent) /\ 0 \in Nat /\ 0 <= g
      /\ downSent \in Seq(Byte) /\ down \in Seq(Seq(Byte))
  BY <1>2, DownLengths DEF DownInv, DownPrefix
<1>5. PICK n \in 0..Len(downSent) :
        g <= n /\ Head(down) = Slice(downSent, g, n) /\ Follow(Tail(down), downSent, n, e)
  BY <1>1, <1>3, <1>4, FollowHead
<1>6. n \in Nat /\ n <= Len(downSent) /\ 0 <= n
  BY <1>4, <1>5
<1>7. downGot' = Slice(downSent, 0, n)
  <2>1. Slice(downSent, 0, g) \o Slice(downSent, g, n) = Slice(downSent, 0, n)
    BY <1>4, <1>5, <1>6, SliceJoin
  <2> QED BY <1>1, <1>2, <1>5, <2>1 DEF DownInv, DownPrefix
<1>8. Len(downGot') = n
  <2>1. Len(Slice(downSent, 0, n)) = n - 0
    BY <1>4, <1>6, SliceIs
  <2> QED BY <1>6, <1>7, <2>1
<1>9. DownPrefix'
  BY <1>1, <1>6, <1>7, <1>8 DEF DownPrefix
<1>10. DownPiped'
  BY <1>1, <1>3, <1>5, <1>8 DEF DownPiped, Waiting
<1>11. Downlink!Read
  <2>1. n \in Len(downGot)..Len(downSent) /\ downGot' = SubSeq(downSent, 1, n)
    BY <1>2, <1>4, <1>5, <1>7 DEF Slice
  <2> QED BY <1>1, <2>1 DEF Downlink!Read
<1> QED BY <1>9, <1>10, <1>11

LEMMA DownForwards ==
  ASSUME DownInv, NEW bytes, HandleData(bytes)
  PROVE  (DownPrefix /\ DownPiped)'
<1>1. /\ tcp = "open" /\ UNCHANGED <<page, relay, downSent, downGot>>
      /\ page = "open" => down' = Append(down, bytes)
  BY DEF HandleData, Forward, ends, DownInv, ProxyInv, ProxyTypeOK
<1>2. PICK n \in 1..Len(toProxy) :
        /\ bytes = SubSeq(toProxy, 1, n)
        /\ toProxy' = SubSeq(toProxy, n + 1, Len(toProxy))
  BY DEF HandleData
<1>3. DownPrefix'
  BY <1>1 DEF DownInv, DownPrefix
<1>4. DownPiped'
  <2> SUFFICES ASSUME page = "open" PROVE DownPiped'
    BY <1>1 DEF DownPiped
  <2>1. PICK e \in 0..Len(downSent) : Follow(down, downSent, Len(downGot), e) /\ Waiting(e)
    BY DEF DownInv, DownPiped
  <2>2. PICK k : k = e + Len(toProxy)
    OBVIOUS
  <2>3. /\ downSent \in Seq(Byte) /\ down \in Seq(Seq(Byte)) /\ Len(downSent) \in Nat
        /\ e \in Nat /\ k \in Nat /\ e <= k /\ k <= Len(downSent) /\ n \in 0..k - e
        /\ Len(toProxy) = k - e /\ toProxy = Slice(downSent, e, k)
    BY <2>1, <2>2, DownLengths DEF DownInv, Waiting
  <2>4. bytes = Slice(downSent, e, e + n) /\ toProxy' = Slice(downSent, e + n, k)
    <3>1. /\ SubSeq(Slice(downSent, e, k), 1, n) = Slice(downSent, e, e + n)
          /\ SubSeq(Slice(downSent, e, k), n + 1, k - e) = Slice(downSent, e + n, k)
      <4>1. downSent \in Seq(Byte) /\ e \in Nat /\ k \in Nat
        BY <2>3
      <4>2. e <= k /\ k <= Len(downSent)
        BY <2>3
      <4>3. n \in 0..k - e
        BY <2>3
      <4>4. SubSeq(Slice(downSent, e, k), 1, n) = Slice(downSent, e, e + n)
        BY ONLY <4>1, <4>2, <4>3, SliceFirst, Zenon
      <4>5. SubSeq(Slice(downSent, e, k), n + 1, k - e) = Slice(downSent, e + n, k)
        BY ONLY <4>1, <4>2, <4>3, SliceRest, Zenon
      <4> QED BY ONLY <4>4, <4>5, Zenon
    <3> QED BY <1>2, <2>3, <3>1
  <2>5. e + n \in 0..Len(downSent) /\ e <= e + n /\ e + n \in Nat /\ e + n <= k
    BY <2>3
  <2>6. Follow(Append(down, bytes), downSent, Len(downGot), e + n)
    BY <2>1, <2>3, <2>4, <2>5, FollowAppend
  <2>7. (e + n) + Len(toProxy') = k
    <3>1. Len(Slice(downSent, e + n, k)) = k - (e + n)
      BY <2>3, <2>5, SliceIs
    <3> QED BY <2>3, <2>4, <2>5, <3>1
  <2>8. Waiting(e + n)'
    BY <1>1, <2>1, <2>2, <2>3, <2>4, <2>7 DEF Waiting
  <2> QED BY <1>1, <2>5, <2>6, <2>8 DEF DownPiped
<1> QED BY <1>3, <1>4

\* The TCP connection ends: with nothing left to read, or reset.
LEMMA DownBreaks ==
  ASSUME DownInv, HandleTcpClose
  PROVE  (DownPrefix /\ DownPiped)'
<1>1. /\ UNCHANGED <<page, down, downSent, downGot>> /\ toProxy' = <<>>
      /\ relay' # "reset" => relay # "reset" /\ toProxy = <<>>
  BY DEF HandleTcpClose, TcpEnds
<1>2. DownPrefix'
  BY <1>1 DEF DownInv, DownPrefix
<1>3. DownPiped'
  <2> SUFFICES ASSUME page = "open" PROVE DownPiped'
    BY <1>1 DEF DownPiped
  <2>1. PICK e \in 0..Len(downSent) : Follow(down, downSent, Len(downGot), e) /\ Waiting(e)
    BY DEF DownInv, DownPiped
  <2>2. Len(<<>>) = 0 /\ Len(downSent) \in Nat /\ e \in Nat /\ e <= Len(downSent) /\ e + 0 = e
    BY DownLengths DEF DownInv
  <2>3. Slice(downSent, e, e) = <<>>
    BY <2>2, SubSeqEmpty DEF Slice
  <2>4. Waiting(e)'
    BY <1>1, <2>1, <2>2, <2>3 DEF Waiting
  <2> QED BY <1>1, <2>1, <2>4 DEF DownPiped
<1> QED BY <1>2, <1>3

\* The page sees the close frame after the last message.
LEMMA DownEnds ==
  ASSUME DownInv, PageSeesClose
  PROVE  Downlink!End
<1>1. /\ page = "open" /\ page' = "closed" /\ down = <<>> /\ tcp = "closed"
      /\ relay \in {"closed", "eof", "reset"} /\ toProxy = <<>>
      /\ UNCHANGED <<relay, downSent, downGot>>
  BY DEF PageSeesClose, downVars, DownInv, ProxyInv, ProxyTypeOK
<1>2. relay # "reset" => downGot = downSent
  <2> SUFFICES ASSUME relay # "reset" PROVE downGot = downSent
    OBVIOUS
  <2>1. PICK e \in 0..Len(downSent) : Follow(<<>>, downSent, Len(downGot), e) /\ Waiting(e)
    BY <1>1 DEF DownInv, DownPiped
  <2>2. /\ Len(downGot) \in 0..Len(downSent) /\ Len(<<>>) = 0
        /\ downSent \in Seq(Byte) /\ Len(downSent) \in Nat
    BY DownLengths DEF DownInv, DownPrefix
  <2>3. e = Len(downGot)
    BY <2>1, <2>2, FollowNone
  <2>4. Len(downGot) = Len(downSent)
    BY <1>1, <2>1, <2>2, <2>3 DEF Waiting
  <2>5. downGot = SubSeq(downSent, 1, Len(downSent))
    BY <2>4 DEF DownInv, DownPrefix, Slice
  <2> QED BY <2>2, <2>5, SubSeqFull
<1> QED BY <1>1, <1>2 DEF Downlink!End

\* A step in which no byte moves and the page sees no end.
LEMMA DownCloses ==
  ASSUME ProxyInv, UNCHANGED <<downSent, downGot>>, page' = "closed" <=> page = "closed",
         \/ relay' = relay
         \/ relay = "none" /\ relay' \in {"open", "reset"}
         \/ relay = "open" /\ relay' \in {"closed", "eof", "reset"}
         \/ relay = "closed" /\ relay' = "reset"
  PROVE  [Downlink!Next]_(Downlink!vars)
  BY DEF ProxyInv, ProxyTypeOK, Downlink!Next, Downlink!Close, Downlink!vars

LEMMA StepDown ==
  DownInv /\ [ProxyNext]_proxyVars => DownInv' /\ [Downlink!Next]_(Downlink!vars)
<1> SUFFICES ASSUME DownInv, [ProxyNext]_proxyVars
             PROVE  DownInv' /\ [Downlink!Next]_(Downlink!vars)
  OBVIOUS
<1>1. ProxyInv' /\ ProxyInv
  BY StepProxy DEF DownInv
<1>2. ASSUME UNCHANGED downVars, page' = "open" => page = "open",
             page' = "closed" <=> page = "closed",
             \/ relay' = relay
             \/ relay = "none" /\ relay' = "open"
             \/ relay = "open" /\ relay' \in {"closed", "eof", "reset"}
             \/ relay = "closed" /\ relay' = "reset"
      PROVE  DownInv' /\ [Downlink!Next]_(Downlink!vars)
  <2>1. (DownPrefix /\ DownPiped)'
    BY <1>2, DownQuiet
  <2>2. [Downlink!Next]_(Downlink!vars)
    BY <1>1, <1>2, DownCloses DEF downVars
  <2> QED BY <1>1, <2>1, <2>2 DEF DownInv
<1>3. CASE UNCHANGED proxyVars
  BY <1>2, <1>3 DEF proxyVars, ends
<1>4. CASE PageStep \/ PageVanishes \/ PageSeesClose
  <2>1. ASSUME NEW m \in Messages, UNCHANGED <<ends, toRelay, upRead, downVars>>
        PROVE  DownInv' /\ [Downlink!Next]_(Downlink!vars)
    BY <1>2, <2>1 DEF ends
  <2>2. CASE PageTakes /\ UNCHANGED <<ends, upVars, toProxy, downSent>>
    BY <1>1, <2>2, DownReads DEF DownInv, Downlink!Next
  <2>3. CASE page = "open" /\ PageCloses /\ UNCHANGED <<ws, tcp, fin, relay, upVars, downVars>>
    BY <1>2, <2>3 DEF PageCloses
  <2>4. CASE PageVanishes
    BY <1>2, <2>4 DEF PageVanishes
  <2>5. CASE PageSeesClose
    <3>1. (DownPrefix /\ DownPiped)'
      BY <2>5, DownQuiet DEF PageSeesClose
    <3> QED BY <1>1, <2>5, <3>1, DownEnds DEF DownInv, Downlink!Next
  <2> QED BY <1>4, <2>1, <2>2, <2>3, <2>4, <2>5 DEF PageStep
<1>5. CASE RelayStep
  <2>1. ASSUME NEW bytes, RelayReads(bytes), UNCHANGED <<ends, up, upSent, downVars>>
        PROVE  DownInv' /\ [Downlink!Next]_(Downlink!vars)
    BY <1>2, <2>1 DEF ends
  <2>2. ASSUME NEW bytes \in Answers, RelaySends(bytes),
               UNCHANGED <<ends, upVars, down, downGot>>
        PROVE  DownInv' /\ [Downlink!Next]_(Downlink!vars)
    BY <1>1, <2>2, DownWrites DEF DownInv, Downlink!Next
  <2>3. CASE RelayCloses
    BY <1>2, <2>3 DEF RelayCloses
  <2> QED BY <1>5, <2>1, <2>2, <2>3 DEF RelayStep
<1>6. CASE RelayHangsUp
  BY <1>2, <1>6 DEF RelayHangsUp, RelaySeesEnd
<1>7. CASE ProxyStep
  <2>1. CASE HandleMessage
    BY <1>2, <2>1 DEF HandleMessage, ends
  <2>2. CASE HandleWsClose
    BY <1>2, <2>2 DEF HandleWsClose
  <2>3. CASE HandleConnect
    BY <1>2, <2>3 DEF HandleConnect
  <2>4. CASE HandleTcpClose
    <3>1. /\ UNCHANGED <<page, downSent, downGot>>
          /\ relay' = relay \/ (relay = "none" /\ relay' = "reset")
      BY <1>1, <2>4 DEF HandleTcpClose, ProxyInv, ProxyTypeOK
    <3>2. [Downlink!Next]_(Downlink!vars)
      BY <1>1, <3>1, DownCloses
    <3> QED BY <1>1, <2>4, <3>2, DownBreaks DEF DownInv
  <2>5. ASSUME NEW bytes, HandleData(bytes)
        PROVE  DownInv' /\ [Downlink!Next]_(Downlink!vars)
    <3>1. [Downlink!Next]_(Downlink!vars)
      BY <1>1, <2>5, DownCloses DEF HandleData, ends
    <3> QED BY <1>1, <2>5, <3>1, DownForwards DEF DownInv
  <2> QED BY <1>7, <2>1, <2>2, <2>3, <2>4, <2>5 DEF ProxyStep
<1> QED BY <1>3, <1>4, <1>5, <1>6, <1>7 DEF ProxyNext

LEMMA InitDown == ProxyInit => DownInv /\ Downlink!Init
<1> SUFFICES ASSUME ProxyInit PROVE DownInv /\ Downlink!Init
  OBVIOUS
<1>1. <<>> \in Seq(Byte) /\ Len(<<>>) = 0 /\ 0 + 0 = 0 /\ 0 \in 0..0
  BY EmptySeq
<1>2. /\ downSent = <<>> /\ downGot = <<>> /\ toProxy = <<>> /\ down = <<>>
      /\ page = "open" /\ relay = "none"
  BY DEF ProxyInit
<1>3. Slice(<<>>, 0, 0) = <<>>
  BY SubSeqEmpty DEF Slice
<1>4. DownPrefix
  BY <1>1, <1>2, <1>3 DEF DownPrefix
<1>5. DownPiped
  <2>1. Follow(<<>>, <<>>, 0, 0)
    BY <1>1, FollowNone
  <2> QED BY <1>1, <1>2, <1>3, <2>1 DEF DownPiped, Waiting
<1> QED BY <1>2, <1>4, <1>5, InitProxy DEF DownInv, Downlink!Init

\* What the page gets is what the relay sent, byte for byte, and it sees its
\* WebSocket closed only after the last byte, unless the connection was reset.
THEOREM DownlinkCorrect == ProxySpec => DownlinkIsStream
  BY InitDown, StepDown, PTL DEF ProxySpec, DownlinkIsStream, Downlink!Spec
=============================================================================
