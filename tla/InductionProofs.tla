--------------------------- MODULE InductionProofs ---------------------------
(***************************************************************************)
(* Induction over the naturals, stated for a set of them rather than for a *)
(* predicate: the loops and walks of the other modules are followed with   *)
(* it, step by step.                                                       *)
(***************************************************************************)
EXTENDS Integers, Lists, WellFoundedInduction, SequenceTheorems, TLAPS

\* A set of naturals has a least element.
LEMMA LeastNatural ==
  ASSUME NEW S \in SUBSET Nat, S # {}
  PROVE  \E x \in S : \A y \in S : x <= y
<1>1. IsWellFoundedOn(OpToRel(<, Nat), Nat)
  BY ONLY NatLessThanWellFounded
<1>2. PICK x \in S : \A y \in S : ~(<<y, x>> \in OpToRel(<, Nat))
  BY ONLY <1>1, WFMin, S \in SUBSET Nat, S # {}, Zenon
<1>3. \A y \in S : <<y, x>> \in OpToRel(<, Nat) <=> y < x
  BY DEF OpToRel
<1>4. \A y \in S : ~(y < x)
  BY <1>2, <1>3, Zenon
<1> QED BY <1>4

\* A set of naturals that has 0, and the successor of each of its members, has all.
LEMMA Induction ==
  ASSUME NEW P \in SUBSET Nat, 0 \in P, \A n \in P : n + 1 \in P
  PROVE  P = Nat
<1> SUFFICES ASSUME Nat \ P # {} PROVE FALSE
  OBVIOUS
<1>1. PICK x \in Nat \ P : \A y \in Nat \ P : x <= y
  BY LeastNatural
<1>2. x # 0 /\ x - 1 \in Nat
  BY <1>1
<1>3. x - 1 \in P
  BY <1>1, <1>2
<1>4. (x - 1) + 1 = x
  BY <1>1
<1> QED BY <1>1, <1>3, <1>4
----------------------------------------------------------------------------
(* What is picked from a list.                                              *)

\* The walk along the list is the recursive function it is written as.
LEMMA PickedWalks ==
  ASSUME NEW list, Len(list) \in Nat, NEW places
  PROVE  \E u :
           /\ Picked(list, places) = u[Len(list)]
           /\ u[0] = <<>>
           /\ \A n \in 1..Len(list) :
                u[n] = IF n \in places THEN Append(u[n - 1], list[n]) ELSE u[n - 1]
<1> DEFINE Step(g, n) == IF n = 0 THEN <<>>
                         ELSE IF n \in places THEN Append(g[n - 1], list[n]) ELSE g[n - 1]
           Walks(g, m) == g = [n \in 0..m |-> Step(g, n)]
           lengths == {m \in Nat : \E g : Walks(g, m)}
<1>1. 0 \in lengths
  <2> DEFINE g == [n \in 0..0 |-> <<>>]
  <2>1. Walks(g, 0)
    OBVIOUS
  <2> QED BY <2>1
<1>2. ASSUME NEW m \in lengths
      PROVE  m + 1 \in lengths
  <2>1. PICK g : Walks(g, m)
    OBVIOUS
  <2> DEFINE h == [n \in 0..m + 1 |-> Step(g, n)]
  <2>2. \A n \in 0..m : g[n] = Step(g, n)
    BY <2>1
  <2>3. \A n \in 0..m + 1 : Step(h, n) = Step(g, n)
    <3>1. ASSUME NEW n \in 0..m + 1, n # 0
          PROVE  h[n - 1] = g[n - 1]
      <4>1. n - 1 \in 0..m /\ n - 1 \in 0..m + 1
        BY <3>1
      <4> HIDE DEF Step
      <4> QED BY <2>2, <4>1
    <3> HIDE DEF h
    <3> QED BY <3>1
  <2>4. Walks(h, m + 1)
    <3> HIDE DEF Step
    <3> QED BY <2>3
  <2>5. \E g1 : Walks(g1, m + 1)
    <3> HIDE DEF h, Walks
    <3> QED BY <2>4
  <2>6. m + 1 \in Nat
    OBVIOUS
  <2> HIDE DEF h, Walks
  <2> QED BY <2>5, <2>6
<1>3. Len(list) \in lengths
  <2> HIDE DEF lengths
  <2>1. lengths = Nat
    BY ONLY <1>1, <1>2, Induction, lengths \in SUBSET Nat DEF lengths
  <2> QED BY <2>1
<1> DEFINE u == CHOOSE g : Walks(g, Len(list))
<1>4. Picked(list, places) = u[Len(list)]
  BY DEF Picked
<1>5. Walks(u, Len(list))
  BY <1>3, Zenon
<1> HIDE DEF u
<1>6. \A n \in 0..Len(list) : u[n] = Step(u, n)
  BY <1>5
<1>7. 0 \in 0..Len(list) /\ \A n \in 1..Len(list) : n \in 0..Len(list) /\ n # 0
  OBVIOUS
<1> QED BY <1>4, <1>6, <1>7

\* What is picked is at those places, in their order.
Picks(F, list, places, g) ==
  /\ g \in [1..Len(F) -> 1..Len(list)]
  /\ \A i \in 1..Len(F) : g[i] \in places /\ F[i] = list[g[i]]
  /\ \A i, j \in 1..Len(F) : i < j => g[i] < g[j]
  /\ \A n \in 1..Len(list) : n \in places => \E i \in 1..Len(F) : g[i] = n

LEMMA PickedIs ==
  ASSUME NEW S, NEW list \in Seq(S), NEW places
  PROVE  Picked(list, places) \in Seq(S) /\ \E g : Picks(Picked(list, places), list, places, g)
<1> DEFINE Upto(F, g, m) ==
             /\ F \in Seq(S)
             /\ g \in [1..Len(F) -> 1..m]
             /\ \A i \in 1..Len(F) : g[i] \in places /\ F[i] = list[g[i]]
             /\ \A i, j \in 1..Len(F) : i < j => g[i] < g[j]
             /\ \A n \in 1..m : n \in places => \E i \in 1..Len(F) : g[i] = n
<1>1. PICK u :
           /\ Picked(list, places) = u[Len(list)]
           /\ u[0] = <<>>
           /\ \A n \in 1..Len(list) :
                u[n] = IF n \in places THEN Append(u[n - 1], list[n]) ELSE u[n - 1]
  BY PickedWalks
<1> DEFINE P == {m \in Nat : m <= Len(list) => \E g : Upto(u[m], g, m)}
<1>2. 0 \in P
  <2> DEFINE g == [i \in 1..0 |-> 0]
  <2>1. Upto(<<>>, g, 0)
    OBVIOUS
  <2> HIDE DEF g, Upto
  <2> QED BY <1>1, <2>1
<1>3. ASSUME NEW m \in P
      PROVE  m + 1 \in P
  <2> SUFFICES ASSUME m + 1 <= Len(list) PROVE \E g : Upto(u[m + 1], g, m + 1)
    <3>1. m + 1 \in Nat
      OBVIOUS
    <3> HIDE DEF Upto
    <3> QED BY <3>1
  <2>1. m \in Nat /\ m <= Len(list) /\ m + 1 \in 1..Len(list) /\ (m + 1) - 1 = m
    OBVIOUS
  <2>2. PICK g : Upto(u[m], g, m)
    BY <2>1
  <2> DEFINE F == u[m]
             G == u[m + 1]
  <2>3. G = IF m + 1 \in places THEN Append(F, list[m + 1]) ELSE F
    BY <1>1, <2>1
  <2> HIDE DEF F, G, P
  <2>4. CASE m + 1 \notin places
    <3>1. G = F
      BY <2>3, <2>4
    <3>2. Upto(F, g, m + 1)
      <4>1. F \in Seq(S) /\ Len(F) \in Nat
        BY <2>2 DEF F
      <4>2. g \in [1..Len(F) -> 1..m + 1]
        BY <2>1, <2>2, <4>1 DEF F
      <4>3. \A n \in 1..m + 1 : n \in places => \E i \in 1..Len(F) : g[i] = n
        BY <2>1, <2>2, <2>4 DEF F
      <4> QED BY <2>2, <4>1, <4>2, <4>3 DEF F
    <3> HIDE DEF Upto
    <3> QED BY <3>1, <3>2 DEF G
  <2>5. CASE m + 1 \in places
    <3> DEFINE h == [i \in 1..Len(F) + 1 |-> IF i = Len(F) + 1 THEN m + 1 ELSE g[i]]
    <3>1. F \in Seq(S) /\ Len(F) \in Nat /\ list[m + 1] \in S
      BY <2>1, <2>2 DEF F
    <3>2. G \in Seq(S) /\ Len(G) = Len(F) + 1 /\ G[Len(F) + 1] = list[m + 1]
          /\ \A i \in 1..Len(F) : G[i] = F[i]
      BY <2>3, <2>5, <3>1
    <3>3. \A i \in 1..Len(F) : g[i] \in 1..m /\ g[i] \in places /\ F[i] = list[g[i]]
      BY <2>2 DEF F
    <3>4. /\ \A i \in 1..Len(F) : h[i] = g[i]
          /\ h[Len(F) + 1] = m + 1
          /\ \A i \in 1..Len(G) : i \in 1..Len(F) \/ i = Len(F) + 1
          /\ Len(F) + 1 \in 1..Len(G)
      BY <3>1, <3>2
    <3>5. h \in [1..Len(G) -> 1..m + 1]
      BY <2>1, <3>2, <3>3
    <3> HIDE DEF h
    <3>6. \A i \in 1..Len(G) : h[i] \in places /\ G[i] = list[h[i]]
      BY <2>5, <3>2, <3>3, <3>4
    <3>7. ASSUME NEW i \in 1..Len(G), NEW j \in 1..Len(G), i < j
          PROVE  h[i] < h[j]
      <4>1. i \in 1..Len(F)
        BY <3>1, <3>2, <3>7
      <4>2. CASE j \in 1..Len(F)
        BY <2>2, <3>4, <3>7, <4>1, <4>2 DEF F
      <4>3. CASE j = Len(F) + 1
        <5>1. h[i] \in 1..m /\ h[j] = m + 1
          BY <3>3, <3>4, <4>1, <4>3
        <5> HIDE DEF F, G
        <5> QED BY ONLY <5>1, <2>1
      <4> QED BY <3>4, <4>2, <4>3
    <3>8. ASSUME NEW n \in 1..m + 1, n \in places
          PROVE  \E i \in 1..Len(G) : h[i] = n
      <4>1. CASE n = m + 1
        BY <3>4, <4>1
      <4>2. CASE n # m + 1
        <5>1. n \in 1..m
          BY <2>1, <4>2
        <5>2. PICK i \in 1..Len(F) : g[i] = n
          BY <2>2, <3>8, <5>1 DEF F
        <5>3. i \in 1..Len(G)
          BY <3>1, <3>2
        <5> QED BY <3>4, <5>2, <5>3
      <4> QED BY <4>1, <4>2
    <3>9. Upto(G, h, m + 1)
      BY <3>2, <3>5, <3>6, <3>7, <3>8
    <3> HIDE DEF Upto
    <3> QED BY <3>9 DEF G
  <2> QED BY <2>4, <2>5
<1>4. Len(list) \in P
  <2> HIDE DEF P
  <2>1. P = Nat
    BY ONLY <1>2, <1>3, Induction, P \in SUBSET Nat DEF P
  <2> QED BY <2>1
<1>5. \E g : Upto(Picked(list, places), g, Len(list))
  BY <1>1, <1>4
<1> QED BY <1>5 DEF Picks

\* Appending to a list appends to what is picked, or changes nothing in it.
LEMMA PickedAppend ==
  ASSUME NEW S, NEW list \in Seq(S), NEW e \in S, NEW places, NEW wider,
         \A n \in 1..Len(list) : n \in wider <=> n \in places
  PROVE  Picked(Append(list, e), wider) =
           IF Len(list) + 1 \in wider THEN Append(Picked(list, places), e)
           ELSE Picked(list, places)
<1> DEFINE longer == Append(list, e)
<1>1. /\ longer \in Seq(S) /\ Len(list) \in Nat /\ Len(longer) = Len(list) + 1
      /\ longer[Len(list) + 1] = e
      /\ \A n \in 1..Len(list) : longer[n] = list[n]
  OBVIOUS
<1>2. PICK u :
           /\ Picked(list, places) = u[Len(list)]
           /\ u[0] = <<>>
           /\ \A n \in 1..Len(list) :
                u[n] = IF n \in places THEN Append(u[n - 1], list[n]) ELSE u[n - 1]
  BY <1>1, PickedWalks
<1> HIDE DEF longer
<1>a. Len(longer) \in Nat
  BY <1>1
<1>3. PICK v :
           /\ Picked(longer, wider) = v[Len(longer)]
           /\ v[0] = <<>>
           /\ \A n \in 1..Len(longer) :
                v[n] = IF n \in wider THEN Append(v[n - 1], longer[n]) ELSE v[n - 1]
  BY ONLY <1>a, PickedWalks
<1> DEFINE P == {m \in Nat : m <= Len(list) => v[m] = u[m]}
<1>4. 0 \in P
  BY <1>2, <1>3
<1>5. ASSUME NEW m \in P
      PROVE  m + 1 \in P
  <2>1. m \in Nat /\ m + 1 \in Nat /\ (m + 1) - 1 = m
    OBVIOUS
  <2>2. ASSUME m + 1 <= Len(list) PROVE v[m + 1] = u[m + 1]
    <3>1. m + 1 \in 1..Len(list) /\ m + 1 \in 1..Len(longer) /\ m <= Len(list)
      BY <1>1, <2>1, <2>2
    <3>2. v[m] = u[m]
      BY <3>1
    <3>3. v[m + 1] = IF m + 1 \in wider THEN Append(v[m], longer[m + 1]) ELSE v[m]
      BY <1>3, <2>1, <3>1
    <3>4. u[m + 1] = IF m + 1 \in places THEN Append(u[m], list[m + 1]) ELSE u[m]
      BY <1>2, <2>1, <3>1
    <3>5. longer[m + 1] = list[m + 1] /\ (m + 1 \in wider <=> m + 1 \in places)
      BY <1>1, <3>1
    <3> QED BY <3>2, <3>3, <3>4, <3>5
  <2> QED BY <2>1, <2>2
<1>6. P = Nat
  <2> HIDE DEF P
  <2> QED BY ONLY <1>4, <1>5, Induction, P \in SUBSET Nat DEF P
<1>7. v[Len(list)] = u[Len(list)]
  <2>1. Len(list) \in P
    BY <1>1, <1>6
  <2> QED BY <1>1, <2>1
<1>8. v[Len(list) + 1] =
        IF Len(list) + 1 \in wider THEN Append(v[Len(list)], e) ELSE v[Len(list)]
  <2>1. Len(list) + 1 \in 1..Len(longer) /\ (Len(list) + 1) - 1 = Len(list)
    BY <1>1
  <2> QED BY <1>1, <1>3, <2>1
<1> HIDE DEF P
<1>9. Picked(longer, wider) = v[Len(list) + 1]
  BY <1>1, <1>3
<1> QED BY <1>2, <1>7, <1>8, <1>9 DEF longer

\* What is at none of a list's places is nothing.
LEMMA PickedNone ==
  ASSUME NEW S, NEW list \in Seq(S), NEW places, \A n \in 1..Len(list) : n \notin places
  PROVE  Picked(list, places) = <<>>
<1>1. PICK F : F = Picked(list, places)
  OBVIOUS
<1>2. F \in Seq(S) /\ \E g : Picks(F, list, places, g)
  BY <1>1, PickedIs
<1>3. PICK g : Picks(F, list, places, g)
  BY <1>2
<1>4. \A i \in 1..Len(F) : g[i] \in 1..Len(list) /\ g[i] \in places
  BY <1>3 DEF Picks
<1>5. Len(F) = 0
  BY <1>2, <1>4
<1>6. F = <<>>
  BY <1>2, <1>5
<1> QED BY <1>1, <1>6
=============================================================================
