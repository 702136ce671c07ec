--------------------------- MODULE HashTableProofs ---------------------------
(***************************************************************************)
(* Theorems about the table of ht.c, for every number of slots and every   *)
(* hash function: entries stay reachable, the re-insertion loop ends, and  *)
(* the table implements a set searched by name.                            *)
(***************************************************************************)
EXTENDS HashTable, InductionProofs, FiniteSetTheorems, FunctionTheorems

----------------------------------------------------------------------------
\* The least of some numbers, which the probes and the insertion stop at.
LEMMA MinIs ==
  ASSUME NEW S \in SUBSET Nat, S # {}
  PROVE  Min(S) \in S /\ \A y \in S : Min(S) <= y
BY LeastNatural, Zenon DEF Min

----------------------------------------------------------------------------
(* Places around the table.                                                 *)

LEMMA Divided ==
  ASSUME NEW a \in Nat, NEW n \in Nat \ {0}
  PROVE  a = n * (a \div n) + (a % n) /\ a % n \in 0..n - 1 /\ a \div n \in Nat
OBVIOUS

LEMMA Remainder ==
  ASSUME NEW a \in Nat, NEW n \in Nat \ {0}, NEW q \in Nat, NEW r \in 0..n - 1,
         a = n * q + r
  PROVE  a % n = r
OBVIOUS

LEMMA AtIs ==
  ASSUME NEW i \in Slots, NEW k \in Slots
  PROVE  At(i, k) = IF i + k < Size THEN i + k ELSE i + k - Size
BY TableAssumption DEF At, Slots

LEMMA AtSlot ==
  ASSUME NEW i \in Slots, NEW k \in Nat
  PROVE  At(i, k) \in Slots
BY TableAssumption DEF At, Slots

\* After a turn the places are those of the turn before.
LEMMA AtTurn ==
  ASSUME NEW i \in Slots, NEW k \in Nat
  PROVE  At(i, k + Size) = At(i, k)
<1> DEFINE a == i + k
           q == a \div Size
           r == a % Size
<1>1. a \in Nat /\ Size \in Nat \ {0} /\ i \in Nat
  BY TableAssumption DEF Slots
<1> HIDE DEF a
<1>2. a = Size * q + r /\ r \in 0..Size - 1 /\ q \in Nat
  BY <1>1, Divided
<1> HIDE DEF q, r
<1>3. q + 1 \in Nat /\ a + Size \in Nat /\ a + Size = Size * (q + 1) + r
  BY <1>1, <1>2
<1>4. (a + Size) % Size = r
  BY ONLY <1>1, <1>2, <1>3, Remainder
<1>5. i + (k + Size) = a + Size
  BY <1>1 DEF a
<1> QED BY <1>4, <1>5 DEF At, a, r

\* The number of steps from one slot forward to another.
Dist(a, b) == IF b >= a THEN b - a ELSE b - a + Size

LEMMA DistIs ==
  ASSUME NEW a \in Slots, NEW b \in Slots
  PROVE  Dist(a, b) \in Slots /\ At(a, Dist(a, b)) = b
<1>1. Dist(a, b) \in Slots
  BY TableAssumption DEF Dist, Slots
<1> QED BY <1>1, AtIs, TableAssumption DEF Dist, Slots

LEMMA DistOrders ==
  ASSUME NEW a \in Slots, NEW b \in Slots
  PROVE  /\ Dist(a, b) \in Int /\ 0 <= Dist(a, b) /\ Dist(a, b) < Size
         /\ \A c \in Slots : Dist(a, c) = Dist(a, b) => c = b
BY TableAssumption DEF Dist, Slots

LEMMA AtDist ==
  ASSUME NEW a \in Slots, NEW k \in Slots
  PROVE  At(a, k) \in Slots /\ Dist(a, At(a, k)) = k
BY AtIs, TableAssumption DEF Dist, Slots

\* Of two slots j and s in this order after both h and i, whatever is between
\* them as seen from i is between them as seen from h.
LEMMA Between ==
  ASSUME NEW h \in Slots, NEW i \in Slots, NEW j \in Slots, NEW s \in Slots,
         NEW y \in Slots,
         Dist(h, j) <= Dist(h, s), Dist(i, j) <= Dist(i, y), Dist(i, y) <= Dist(i, s)
  PROVE  Dist(h, j) <= Dist(h, y) /\ Dist(h, y) <= Dist(h, s)
BY TableAssumption DEF Dist, Slots

\* If from h slot s comes no later than x, and j no later than s, then so it is
\* from i, provided that from there j comes no later than x.
LEMMA Onward ==
  ASSUME NEW h \in Slots, NEW i \in Slots, NEW j \in Slots, NEW s \in Slots,
         NEW x \in Slots,
         Dist(h, j) <= Dist(h, s), Dist(h, s) <= Dist(h, x), Dist(i, j) <= Dist(i, x)
  PROVE  Dist(i, j) <= Dist(i, s) /\ Dist(i, s) <= Dist(i, x)
BY TableAssumption DEF Dist, Slots
----------------------------------------------------------------------------
(* Tables.                                                                  *)

Table == [Slots -> Entries \cup {Null}]
In(T) == {T[i] : i \in Slots} \ {Null}
HasRoom(T) == \E y \in Slots : T[y] = Null
Distinct(T) == \A s, t \in Slots : T[s] # Null /\ T[s] = T[t] => s = t

\* The slots that are probed before the entry in slot s, and its own.
Home(T, s) == hash[NameOf[T[s]]]
OnPath(T, s, y) == Dist(Home(T, s), y) <= Dist(Home(T, s), s)
Reaches(T, s) == \A y \in Slots : OnPath(T, s, y) => T[y] # Null
AllReach(T) == \A s \in Slots : T[s] # Null => Reaches(T, s)

\* Slot x is on the way to no entry but its own: it is free, or was filled last.
Avoids(T, x) == \A s \in Slots : T[s] # Null /\ s # x => ~OnPath(T, s, x)

HashOK == hash \in [Names -> Slots]

LEMMA HomeIs ==
  ASSUME HashOK, NEW T \in Table, NEW s \in Slots, T[s] # Null
  PROVE  T[s] \in Entries /\ Home(T, s) \in Slots
BY TableAssumption DEF HashOK, Table, Home

\* hashtable_add fills the first free slot after the home of the name.
LEMMA AddToIs ==
  ASSUME HashOK, NEW T \in Table, NEW p \in Entries, HasRoom(T)
  PROVE  \E f \in Slots :
           /\ T[f] = Null
           /\ AddTo(T, p) = [T EXCEPT ![f] = p]
           /\ \A y \in Slots :
                Dist(hash[NameOf[p]], y) < Dist(hash[NameOf[p]], f) => T[y] # Null
<1> DEFINE h == hash[NameOf[p]]
           free == {k \in Slots : T[At(h, k)] = Null}
<1>1. h \in Slots
  BY TableAssumption DEF HashOK
<1> HIDE DEF h
<1>2. \A y \in Slots : T[y] = Null => Dist(h, y) \in free
  BY <1>1, DistIs
<1>3. free # {} /\ free \in SUBSET Nat
  BY <1>2, TableAssumption DEF HasRoom, Slots
<1> DEFINE m == Min(free)
           f == At(h, m)
<1>4. m \in free /\ \A k \in free : m <= k
  BY ONLY <1>3, MinIs
<1>5. AddTo(T, p) = [T EXCEPT ![f] = p]
  BY <1>3 DEF AddTo, h
<1> HIDE DEF m
<1>6. m \in Slots /\ T[f] = Null
  BY <1>4
<1>7. f \in Slots /\ Dist(h, f) = m
  BY <1>1, <1>6, AtDist
<1> HIDE DEF f, free
<1>8. \A y \in Slots : Dist(h, y) < Dist(h, f) => T[y] # Null
  <2> SUFFICES ASSUME NEW y \in Slots, Dist(h, y) < m, T[y] = Null
               PROVE  FALSE
    BY <1>7
  <2>1. m <= Dist(h, y)
    BY <1>2, <1>4
  <2>2. m \in Int /\ Dist(h, y) \in Int
    BY <1>1, <1>6, DistIs, TableAssumption DEF Slots
  <2> QED BY <2>1, <2>2
<1> QED BY <1>5, <1>6, <1>7, <1>8 DEF h

LEMMA AddToFull ==
  ASSUME HashOK, NEW T \in Table, NEW p \in Entries, ~HasRoom(T)
  PROVE  AddTo(T, p) = T
<1>1. \A k \in Slots : At(hash[NameOf[p]], k) \in Slots
  BY AtDist, TableAssumption DEF HashOK
<1> QED BY <1>1 DEF AddTo, HasRoom

\* hashtable_search and _remove stop at an entry of the name; if there is one,
\* and the entries can be reached, they stop at one.
LEMMA FoundIs ==
  ASSUME HashOK, NEW T \in Table, AllReach(T), NEW n \in Names
  PROVE  \/ /\ Found(T, n) = Null
            /\ \A s \in Slots : T[s] # Null => NameOf[T[s]] # n
         \/ LET s == At(hash[n], Probe(T, n))
            IN  /\ s \in Slots /\ T[s] # Null /\ NameOf[T[s]] = n
                /\ Found(T, n) = T[s]
<1> DEFINE h == hash[n]
           stops == {k \in Slots : T[At(h, k)] = Null \/ NameOf[T[At(h, k)]] = n}
           s == At(h, Probe(T, n))
<1>1. h \in Slots
  BY DEF HashOK
<1>2. (stops \cup {Size}) \in SUBSET Nat /\ stops \cup {Size} # {}
  BY TableAssumption DEF Slots
<1>3. Probe(T, n) \in stops \cup {Size} /\ \A k \in stops \cup {Size} : Probe(T, n) <= k
  <2>1. Probe(T, n) = Min(stops \cup {Size})
    BY DEF Probe
  <2> HIDE DEF stops
  <2> QED BY ONLY <2>1, <1>2, MinIs
<1>4. Size \notin Slots
  BY TableAssumption DEF Slots
<1> HIDE DEF h
<1>5. \A y \in Slots : Dist(h, y) \in Slots /\ At(h, Dist(h, y)) = y
  BY <1>1, DistIs
<1>6. CASE Probe(T, n) = Size
  <2>1. Found(T, n) = Null
    BY <1>6 DEF Found
  <2>2. \A k \in Slots : k \notin stops
    <3> SUFFICES ASSUME NEW k \in Slots, k \in stops PROVE FALSE
      OBVIOUS
    <3>1. Size <= k
      BY <1>3, <1>6
    <3> QED BY <3>1, TableAssumption DEF Slots
  <2>3. \A y \in Slots : NameOf[T[y]] # n
    BY <1>5, <2>2
  <2> QED BY <2>1, <2>3
<1>7. CASE Probe(T, n) # Size /\ T[s] = Null
  <2>1. Found(T, n) = Null
    BY <1>7 DEF Found, h
  <2>2. Probe(T, n) \in Slots
    BY <1>3, <1>7
  <2>3. s \in Slots /\ Dist(h, s) = Probe(T, n)
    BY <1>1, <2>2, AtDist
  <2>4. ASSUME NEW y \in Slots, T[y] # Null, NameOf[T[y]] = n
        PROVE  FALSE
    <3>1. Dist(h, y) \in stops
      BY <1>5, <2>4
    <3>2. Probe(T, n) <= Dist(h, y)
      BY <1>3, <3>1
    <3>3. OnPath(T, y, s)
      BY <2>3, <2>4, <3>2 DEF OnPath, Home, h
    <3>4. T[s] # Null
      BY <2>3, <2>4, <3>3 DEF AllReach, Reaches
    <3> QED BY <1>7, <3>4
  <2> QED BY <2>1, <2>4
<1>8. CASE Probe(T, n) # Size /\ T[s] # Null
  <2>1. Probe(T, n) \in Slots /\ NameOf[T[s]] = n
    BY <1>3, <1>8
  <2>2. s \in Slots
    BY <1>1, <2>1, AtDist
  <2>3. Found(T, n) = T[s]
    BY <1>8 DEF Found, h
  <2> QED BY <1>8, <2>1, <2>2, <2>3 DEF h
<1> QED BY <1>6, <1>7, <1>8

----------------------------------------------------------------------------
(* The re-insertion loop.                                                   *)

\* The loop is the recursive function it is written as.
LEMMA RoundsAre ==
  ASSUME NEW T, NEW i
  PROVE  /\ Rounds(T, i)[0] = [tab |-> [T EXCEPT ![i] = Null], on |-> TRUE]
         /\ \A k \in 1..2 * Size :
              Rounds(T, i)[k] = Reinsert(Rounds(T, i)[k - 1], At(i, k))
<1> DEFINE start == [tab |-> [T EXCEPT ![i] = Null], on |-> TRUE]
           Step(g, k) == IF k = 0 THEN start ELSE Reinsert(g[k - 1], At(i, k))
           Runs(g, n) == g = [k \in 0..n |-> Step(g, k)]
           lengths == {n \in Nat : \E g : Runs(g, n)}
<1>1. 0 \in lengths
  <2> DEFINE g == [k \in 0..0 |-> start]
  <2>1. Runs(g, 0)
    OBVIOUS
  <2> QED BY <2>1
<1>2. ASSUME NEW n \in lengths
      PROVE  n + 1 \in lengths
  <2>1. PICK g : Runs(g, n)
    OBVIOUS
  <2> DEFINE h == [k \in 0..n + 1 |-> Step(g, k)]
  <2>2. \A k \in 0..n : g[k] = Step(g, k)
    BY <2>1
  <2>3. \A k \in 0..n + 1 : Step(h, k) = Step(g, k)
    <3>1. ASSUME NEW k \in 0..n + 1, k # 0
          PROVE  h[k - 1] = g[k - 1]
      <4>1. k - 1 \in 0..n /\ k - 1 \in 0..n + 1
        BY <3>1
      <4> HIDE DEF Step
      <4> QED BY <2>2, <4>1
    <3> HIDE DEF h
    <3> QED BY <3>1
  <2>4. Runs(h, n + 1)
    <3> HIDE DEF Step
    <3> QED BY <2>3
  <2>5. \E k : Runs(k, n + 1)
    <3> HIDE DEF h, Runs
    <3> QED BY <2>4
  <2>6. n + 1 \in Nat
    OBVIOUS
  <2> HIDE DEF h, Runs
  <2> QED BY <2>5, <2>6
<1>3. 2 * Size \in lengths
  <2> HIDE DEF lengths
  <2>1. 2 * Size \in Nat
    BY TableAssumption
  <2>2. lengths = Nat
    BY ONLY <1>1, <1>2, Induction, lengths \in SUBSET Nat DEF lengths
  <2> QED BY <2>1, <2>2
<1> DEFINE f == CHOOSE g : Runs(g, 2 * Size)
<1>4. Rounds(T, i) = f
  BY DEF Rounds
<1>5. Runs(f, 2 * Size)
  BY <1>3, Zenon
<1> HIDE DEF f
<1>6. \A k \in 0..2 * Size : f[k] = Step(f, k)
  BY <1>5
<1>7. 0 \in 0..2 * Size /\ \A k \in 1..2 * Size : k \in 0..2 * Size /\ k # 0
  BY TableAssumption
<1> QED BY <1>4, <1>6, <1>7

\* One round takes the entry out of slot j and puts it into the first slot that
\* is then free on its way there, or back into j.
Cleared(T, j) == [T EXCEPT ![j] = Null]

LEMMA ReinsertIs ==
  ASSUME HashOK, NEW T \in Table, NEW j \in Slots, T[j] # Null
  PROVE  \E f \in Slots :
           /\ f = j \/ T[f] = Null
           /\ AddTo(Cleared(T, j), T[j]) = [Cleared(T, j) EXCEPT ![f] = T[j]]
           /\ Dist(Home(T, j), f) <= Dist(Home(T, j), j)
           /\ \A y \in Slots : Dist(Home(T, j), y) < Dist(Home(T, j), f)
                                 => T[y] # Null /\ y # j
<1>1. T[j] \in Entries /\ Home(T, j) \in Slots
  BY HomeIs
<1>2. Cleared(T, j) \in Table /\ Cleared(T, j)[j] = Null
  BY DEF Cleared, Table
<1>3. HasRoom(Cleared(T, j))
  BY <1>2 DEF HasRoom
<1>4. PICK f \in Slots :
        /\ Cleared(T, j)[f] = Null
        /\ AddTo(Cleared(T, j), T[j]) = [Cleared(T, j) EXCEPT ![f] = T[j]]
        /\ \A y \in Slots : Dist(Home(T, j), y) < Dist(Home(T, j), f)
                              => Cleared(T, j)[y] # Null
  BY <1>1, <1>2, <1>3, AddToIs DEF Home
<1>5. \A y \in Slots : Cleared(T, j)[y] # Null => T[y] # Null /\ y # j
  BY <1>2 DEF Cleared, Table
<1>6. \A y \in Slots : Cleared(T, j)[y] = Null => y = j \/ T[y] = Null
  BY DEF Cleared, Table
<1>7. Dist(Home(T, j), f) <= Dist(Home(T, j), j)
  <2>1. ~(Dist(Home(T, j), j) < Dist(Home(T, j), f))
    BY <1>2, <1>4
  <2>2. Dist(Home(T, j), j) \in Int /\ Dist(Home(T, j), f) \in Int
    BY <1>1, DistIs, TableAssumption DEF Slots
  <2> QED BY <2>1, <2>2
<1> QED BY <1>4, <1>5, <1>6, <1>7

\* The table after a round: what it holds, and where the other entries are.
Moved(T, U, j, f) ==
  /\ f \in Slots /\ U \in Table
  /\ f = j \/ T[f] = Null
  /\ U[f] = T[j]
  /\ \A s \in Slots \ {f} : U[s] = IF s = j THEN Null ELSE T[s]
  /\ Dist(Home(T, j), f) <= Dist(Home(T, j), j)
  /\ \A y \in Slots : Dist(Home(T, j), y) < Dist(Home(T, j), f)
                        => T[y] # Null /\ y # j

LEMMA RoundMoves ==
  ASSUME HashOK, NEW T \in Table, NEW j \in Slots, T[j] # Null
  PROVE  \E f \in Slots : Moved(T, AddTo(Cleared(T, j), T[j]), j, f)
<1>1. PICK f \in Slots :
           /\ f = j \/ T[f] = Null
           /\ AddTo(Cleared(T, j), T[j]) = [Cleared(T, j) EXCEPT ![f] = T[j]]
           /\ Dist(Home(T, j), f) <= Dist(Home(T, j), j)
           /\ \A y \in Slots : Dist(Home(T, j), y) < Dist(Home(T, j), f)
                                 => T[y] # Null /\ y # j
  BY ReinsertIs
<1> DEFINE U == [Cleared(T, j) EXCEPT ![f] = T[j]]
<1>2. T[j] \in Entries
  BY HomeIs
<1>3. U \in Table /\ U[f] = T[j]
      /\ \A s \in Slots \ {f} : U[s] = IF s = j THEN Null ELSE T[s]
  BY <1>2 DEF Cleared, Table
<1> HIDE DEF U
<1>4. AddTo(Cleared(T, j), T[j]) = U
  BY <1>1 DEF U
<1>5. Moved(T, U, j, f)
  BY <1>1, <1>3 DEF Moved
<1> QED BY <1>4, <1>5

LEMMA MovedKeeps ==
  ASSUME NEW T \in Table, NEW U, NEW j \in Slots, NEW f, T[j] # Null,
         Moved(T, U, j, f), Distinct(T)
  PROVE  Distinct(U) /\ In(U) = In(T) /\ (HasRoom(T) => HasRoom(U))
<1>1. Distinct(U)
  <2> SUFFICES ASSUME NEW s \in Slots, NEW t \in Slots, U[s] # Null, U[s] = U[t], s # t
               PROVE  FALSE
    BY DEF Distinct
  <2>1. CASE s = f \/ t = f
    BY <2>1 DEF Moved, Distinct
  <2>2. CASE s # f /\ t # f
    BY <2>2 DEF Moved, Distinct
  <2> QED BY <2>1, <2>2
<1>2. In(U) = In(T)
  <2>1. In(U) \subseteq In(T)
    BY DEF Moved, In
  <2>2. ASSUME NEW s \in Slots, T[s] # Null
        PROVE  \E t \in Slots : U[t] = T[s]
    <3>1. CASE s = j
      BY <3>1 DEF Moved
    <3>2. CASE s # j
      BY <2>2, <3>2 DEF Moved
    <3> QED BY <3>1, <3>2
  <2> QED BY <2>1, <2>2 DEF In
<1>3. HasRoom(T) => HasRoom(U)
  <2> SUFFICES ASSUME NEW y \in Slots, T[y] = Null
               PROVE  HasRoom(U)
    BY DEF HasRoom
  <2>1. CASE f = y
    BY <2>1 DEF Moved, HasRoom
  <2>2. CASE f # y
    BY <2>2 DEF Moved, HasRoom
  <2> QED BY <2>1, <2>2
<1> QED BY <1>1, <1>2, <1>3

\* The entry that was moved is reached, and so are those whose way is as it was.
LEMMA MovedReached ==
  ASSUME HashOK, NEW T \in Table, NEW U, NEW j \in Slots, NEW f, T[j] # Null,
         Moved(T, U, j, f)
  PROVE  /\ Reaches(U, f)
         /\ \A s \in Slots \ {f} : U[s] # Null =>
              /\ s # j /\ U[s] = T[s] /\ Home(U, s) = Home(T, s)
              /\ Reaches(T, s) /\ ~OnPath(T, s, j) => Reaches(U, s)
<1>1. Home(U, f) = Home(T, j) /\ Home(T, j) \in Slots
  BY HomeIs DEF Moved, Home
<1>2. Reaches(U, f)
  <2> SUFFICES ASSUME NEW y \in Slots, Dist(Home(T, j), y) <= Dist(Home(T, j), f)
               PROVE  U[y] # Null
    BY <1>1 DEF Reaches, OnPath
  <2>1. Dist(Home(T, j), y) < Dist(Home(T, j), f) \/ Dist(Home(T, j), y) = Dist(Home(T, j), f)
    <3>1. f \in Slots
      BY DEF Moved
    <3>2. Dist(Home(T, j), y) \in Int /\ Dist(Home(T, j), f) \in Int
      BY ONLY <1>1, <3>1, y \in Slots, DistOrders
    <3> QED BY <3>2
  <2>2. CASE y = f
    BY <2>2 DEF Moved
  <2>3. CASE y # f
    <3>1. Dist(Home(T, j), y) # Dist(Home(T, j), f)
      BY <1>1, <2>3, DistIs DEF Moved
    <3> QED BY <2>1, <2>3, <3>1 DEF Moved
  <2> QED BY <2>2, <2>3
<1>3. ASSUME NEW s \in Slots \ {f}, U[s] # Null
      PROVE  /\ s # j /\ U[s] = T[s] /\ Home(U, s) = Home(T, s)
             /\ Reaches(T, s) /\ ~OnPath(T, s, j) => Reaches(U, s)
  <2>1. s # j /\ U[s] = T[s]
    BY <1>3 DEF Moved
  <2>2. Home(U, s) = Home(T, s)
    BY <2>1 DEF Home
  <2>3. ASSUME Reaches(T, s), ~OnPath(T, s, j), NEW y \in Slots, OnPath(U, s, y)
        PROVE  U[y] # Null
    <3>1. OnPath(T, s, y)
      BY <2>2, <2>3 DEF OnPath
    <3>2. T[y] # Null /\ y # j
      BY <2>3, <3>1 DEF Reaches
    <3> QED BY <3>2 DEF Moved
  <2> QED BY <2>1, <2>2, <2>3 DEF Reaches
<1> QED BY <1>2, <1>3

\* Where every entry is reached a round changes nothing.
LEMMA RoundStays ==
  ASSUME HashOK, NEW T \in Table, NEW j \in Slots, T[j] # Null, AllReach(T)
  PROVE  AddTo(Cleared(T, j), T[j]) = T
<1>1. PICK f \in Slots :
           /\ f = j \/ T[f] = Null
           /\ AddTo(Cleared(T, j), T[j]) = [Cleared(T, j) EXCEPT ![f] = T[j]]
           /\ Dist(Home(T, j), f) <= Dist(Home(T, j), j)
  BY ReinsertIs
<1>2. T[f] # Null
  BY <1>1 DEF AllReach, Reaches, OnPath
<1> QED BY <1>1, <1>2 DEF Cleared, Table

\* While the loop is at slot At(i, k), the entries that cannot be reached are
\* among those that follow without a gap, and none of them is beyond x.
Ahead(T, i, x, k, s) ==
  /\ k < Dist(i, s) /\ Dist(i, s) <= Dist(i, x)
  /\ \A y \in Slots : k < Dist(i, y) /\ Dist(i, y) <= Dist(i, s) => T[y] # Null

Repairing(T, i, x, k) ==
  /\ Avoids(T, x)
  /\ \A s \in Slots : T[s] # Null => Reaches(T, s) \/ Ahead(T, i, x, k, s)

\* An entry that could be reached, until slot j was emptied, is ahead of j.
LEMMA CutOff ==
  ASSUME HashOK, NEW T \in Table, NEW i \in Slots, NEW x \in Slots, NEW j \in Slots,
         Dist(i, j) < Dist(i, x), Avoids(T, x),
         NEW s \in Slots, s # j, T[s] # Null, Reaches(T, s), OnPath(T, s, j),
         NEW U, \A y \in Slots \ {j} : T[y] # Null => U[y] # Null
  PROVE  Ahead(U, i, x, Dist(i, j), s)
<1> DEFINE h == Home(T, s)
<1>1. h \in Slots
  BY HomeIs
<1>2. Dist(h, j) <= Dist(h, s)
  BY DEF OnPath
<1>3. Dist(i, j) <= Dist(i, s) /\ Dist(i, s) <= Dist(i, x)
  <2>1. CASE s = x
    <3>1. Dist(i, j) <= Dist(i, x) /\ Dist(i, x) <= Dist(i, x)
      BY DistOrders
    <3> QED BY <2>1, <3>1
  <2>2. CASE s # x
    <3>1. ~(Dist(h, x) <= Dist(h, s))
      BY <2>2 DEF Avoids, OnPath
    <3> HIDE DEF h
    <3>2. Dist(h, s) <= Dist(h, x) /\ Dist(i, j) <= Dist(i, x)
      BY <1>1, <3>1, DistOrders
    <3> QED BY ONLY <1>1, <1>2, <3>2, Onward, i \in Slots, j \in Slots, s \in Slots, x \in Slots
  <2> QED BY <2>1, <2>2
<1>4. Dist(i, j) < Dist(i, s)
  <2>1. Dist(i, s) # Dist(i, j)
    BY DistOrders
  <2>2. Dist(i, s) \in Int /\ Dist(i, j) \in Int
    BY DistOrders
  <2> QED BY <1>3, <2>1, <2>2
<1>5. ASSUME NEW y \in Slots, Dist(i, j) < Dist(i, y), Dist(i, y) <= Dist(i, s)
      PROVE  U[y] # Null
  <2>1. Dist(i, j) <= Dist(i, y)
    BY <1>5, DistOrders
  <2> HIDE DEF h
  <2>2. Dist(h, y) <= Dist(h, s)
    BY ONLY <1>1, <1>2, <1>5, <2>1, Between, i \in Slots, j \in Slots, s \in Slots, y \in Slots
  <2>3. T[y] # Null
    BY <2>2 DEF Reaches, OnPath, h
  <2>4. y # j
    BY <1>5, DistOrders
  <2> QED BY <2>3, <2>4
<1> QED BY <1>3, <1>4, <1>5 DEF Ahead

\* Emptying a slot cuts off only entries that the loop will pass before slot x.
LEMMA RepairStarts ==
  ASSUME HashOK, NEW T \in Table, AllReach(T), NEW i \in Slots, T[i] # Null,
         NEW x \in Slots, Avoids(T, x)
  PROVE  IF x = i THEN AllReach(Cleared(T, i)) ELSE Repairing(Cleared(T, i), i, x, 0)
<1> DEFINE U == Cleared(T, i)
<1>1. /\ U[i] = Null
      /\ \A s \in Slots : U[s] # Null => /\ s # i /\ U[s] = T[s] /\ T[s] # Null
                                         /\ Home(U, s) = Home(T, s)
      /\ \A y \in Slots \ {i} : U[y] = T[y]
  BY DEF Cleared, Table, Home
<1> HIDE DEF U
<1>2. ASSUME NEW s \in Slots, U[s] # Null, ~OnPath(T, s, i)
      PROVE  Reaches(U, s)
  <2> SUFFICES ASSUME NEW y \in Slots, OnPath(U, s, y) PROVE U[y] # Null
    BY DEF Reaches
  <2>1. OnPath(T, s, y)
    BY <1>1, <1>2 DEF OnPath
  <2>2. T[y] # Null /\ y # i
    BY <1>1, <1>2, <2>1 DEF AllReach, Reaches
  <2> QED BY <1>1, <2>2
<1>3. CASE x = i
  <2>1. \A s \in Slots : U[s] # Null => ~OnPath(T, s, i)
    BY <1>1, <1>3 DEF Avoids
  <2> QED BY <1>2, <1>3, <2>1 DEF AllReach, U
<1>4. CASE x # i
  <2>1. Avoids(U, x)
    BY <1>1 DEF Avoids, OnPath
  <2>2. Dist(i, i) = 0 /\ 0 < Dist(i, x)
    BY <1>4, TableAssumption DEF Dist, Slots
  <2>3. ASSUME NEW s \in Slots, U[s] # Null, OnPath(T, s, i)
        PROVE  Ahead(U, i, x, 0, s)
    <3>1. s # i /\ T[s] # Null /\ Reaches(T, s)
      BY <1>1, <2>3 DEF AllReach
    <3>2. \A y \in Slots \ {i} : T[y] # Null => U[y] # Null
      BY <1>1
    <3>3. Dist(i, i) < Dist(i, x)
      BY <2>2
    <3>4. Ahead(U, i, x, Dist(i, i), s)
      BY <2>3, <3>1, <3>2, <3>3, CutOff
    <3> QED BY <2>2, <3>4
  <2> QED BY <1>2, <1>4, <2>1, <2>3 DEF Repairing, U
<1> QED BY <1>3, <1>4

\* Where the loop meets an empty slot, nothing is left to be repaired.
LEMMA RepairEnds ==
  ASSUME NEW T \in Table, NEW i \in Slots, NEW x \in Slots, NEW j \in Slots,
         NEW k \in Nat, Dist(i, j) = k + 1, Repairing(T, i, x, k), T[j] = Null
  PROVE  AllReach(T)
<1> SUFFICES ASSUME NEW s \in Slots, Ahead(T, i, x, k, s)
             PROVE  FALSE
  BY DEF AllReach, Repairing
<1>1. Dist(i, j) <= Dist(i, s) /\ k < Dist(i, j)
  BY DistOrders DEF Ahead
<1> QED BY <1>1 DEF Ahead

\* A round puts the entry of slot j where it can be reached, and the entries still
\* cut off are ahead of it.
LEMMA RepairGoesOn ==
  ASSUME HashOK, NEW T \in Table, NEW i \in Slots, NEW x \in Slots, NEW j \in Slots,
         NEW k \in Nat, Dist(i, j) = k + 1, k < Dist(i, x),
         Repairing(T, i, x, k), T[j] # Null,
         NEW U, NEW f, Moved(T, U, j, f)
  PROVE  IF k + 1 = Dist(i, x) THEN AllReach(U)
         ELSE k + 1 < Dist(i, x) /\ Repairing(U, i, x, k + 1) /\ U[x] = T[x]
<1>1. Reaches(U, f)
  BY MovedReached
<1>2. \A s \in Slots \ {f} : U[s] # Null =>
              /\ s # j /\ U[s] = T[s] /\ Home(U, s) = Home(T, s)
              /\ Reaches(T, s) /\ ~OnPath(T, s, j) => Reaches(U, s)
  BY MovedReached
<1>3. \A s \in Slots : Dist(i, s) \in Int
  BY DistOrders
<1>4. Avoids(T, x)
  BY DEF Repairing
<1>5. CASE k + 1 = Dist(i, x)
  <2>1. j = x
    BY <1>5, DistOrders
  <2>2. ASSUME NEW s \in Slots \ {f}, U[s] # Null
        PROVE  Reaches(U, s)
    <3>1. s # j /\ T[s] # Null
      BY <1>2, <2>2
    <3>2. ~OnPath(T, s, j)
      BY <1>4, <2>1, <3>1 DEF Avoids
    <3>3. ~Ahead(T, i, x, k, s)
      <4>1. Dist(i, s) # k + 1
        BY <3>1, DistOrders
      <4> QED BY <1>3, <1>5, <4>1 DEF Ahead
    <3>4. Reaches(T, s)
      BY <3>1, <3>3 DEF Repairing
    <3> QED BY <1>2, <2>2, <3>2, <3>4
  <2> QED BY <1>1, <1>5, <2>2 DEF AllReach
<1>6. CASE k + 1 # Dist(i, x)
  <2>1. k + 1 < Dist(i, x)
    BY <1>3, <1>6
  <2>2. j # x /\ ~OnPath(T, j, x)
    <3>1. j # x
      BY <1>6
    <3> QED BY <1>4, <3>1 DEF Avoids
  <2>3. f # x
    BY <2>2 DEF Moved, OnPath
  <2>4. U[x] = T[x]
    BY <2>2, <2>3 DEF Moved
  <2>5. Avoids(U, x)
    <3>1. Home(U, f) = Home(T, j) /\ Home(T, j) \in Slots /\ f \in Slots
      BY HomeIs DEF Moved, Home
    <3>2. ~OnPath(U, f, x)
      <4>1. ~(Dist(Home(T, j), x) <= Dist(Home(T, j), j))
        BY <2>2 DEF OnPath
      <4>2. Dist(Home(T, j), f) <= Dist(Home(T, j), j)
        BY DEF Moved
      <4>3. /\ Dist(Home(T, j), x) \in Int /\ Dist(Home(T, j), j) \in Int
            /\ Dist(Home(T, j), f) \in Int
        BY <3>1, DistOrders
      <4>4. ~(Dist(Home(T, j), x) <= Dist(Home(T, j), f))
        BY <4>1, <4>2, <4>3
      <4> QED BY <3>1, <4>4 DEF OnPath
    <3>3. ASSUME NEW s \in Slots \ {f}, U[s] # Null, s # x
          PROVE  ~OnPath(U, s, x)
      BY <1>2, <1>4, <3>3 DEF Avoids, OnPath
    <3> QED BY <3>2, <3>3 DEF Avoids
  <2>6. ASSUME NEW s \in Slots \ {f}, U[s] # Null
        PROVE  Reaches(U, s) \/ Ahead(U, i, x, k + 1, s)
    <3>1. s # j /\ T[s] # Null
      BY <1>2, <2>6
    <3>2. \A y \in Slots \ {j} : T[y] # Null => U[y] # Null
      BY DEF Moved
    <3>3. CASE Reaches(T, s) /\ ~OnPath(T, s, j)
      BY <1>2, <2>6, <3>3
    <3>4. CASE Reaches(T, s) /\ OnPath(T, s, j)
      <4>1. Dist(i, j) < Dist(i, x)
        BY <2>1
      <4>2. Ahead(U, i, x, Dist(i, j), s)
        BY <1>4, <3>1, <3>2, <3>4, <4>1, CutOff
      <4> QED BY <4>2
    <3>5. CASE Ahead(T, i, x, k, s)
      <4>1. Dist(i, s) # k + 1
        BY <3>1, DistOrders
      <4>2. k + 1 < Dist(i, s)
        BY <1>3, <3>5, <4>1 DEF Ahead
      <4>3. ASSUME NEW y \in Slots, k + 1 < Dist(i, y), Dist(i, y) <= Dist(i, s)
            PROVE  U[y] # Null
        <5>1. k < Dist(i, y) /\ y # j
          BY <1>3, <4>3
        <5>2. T[y] # Null
          BY <3>5, <4>3, <5>1 DEF Ahead
        <5> QED BY <3>2, <5>1, <5>2
      <4> QED BY <3>5, <4>2, <4>3 DEF Ahead
    <3> QED BY <3>1, <3>3, <3>4, <3>5 DEF Repairing
  <2> QED BY <1>1, <1>6, <2>1, <2>4, <2>5, <2>6 DEF Repairing
<1> QED BY <1>5, <1>6

----------------------------------------------------------------------------
(* The loop after the entry in slot i of T was taken out.                   *)

\* What holds after k rounds: nothing but that entry is lost, everything can be
\* reached unless the loop is still to pass slot x, it does not pass x if x was
\* empty, and a turn later it has met no empty slot.
Loop(T, i, x, k, r) ==
  /\ r \in [tab : Table, on : BOOLEAN]
  /\ Distinct(r.tab) /\ HasRoom(r.tab)
  /\ In(r.tab) = In(T) \ {T[i]}
  /\ \/ AllReach(r.tab)
     \/ r.on /\ k < Dist(i, x) /\ Repairing(r.tab, i, x, k)
  /\ T[x] = Null /\ r.on => k < Dist(i, x) /\ r.tab[x] = Null
  /\ r.on => \A m \in Dist(i, x) + 1..k : r.tab[At(i, m)] # Null

\* The loop's invariant holds when the slot of the removed entry is emptied.
LEMMA LoopStarts ==
  ASSUME HashOK, NEW T \in Table, Distinct(T), AllReach(T),
         NEW i \in Slots, T[i] # Null, NEW x \in Slots, Avoids(T, x)
  PROVE  Loop(T, i, x, 0, [tab |-> Cleared(T, i), on |-> TRUE])
<1> DEFINE U == Cleared(T, i)
<1>1. U \in Table /\ U[i] = Null /\ \A s \in Slots \ {i} : U[s] = T[s]
  BY DEF Cleared, Table
<1>2. x = i => Dist(i, x) = 0
  BY TableAssumption DEF Dist, Slots
<1>3. x # i => 0 < Dist(i, x)
  BY TableAssumption DEF Dist, Slots
<1>4. AllReach(U) \/ (0 < Dist(i, x) /\ Repairing(U, i, x, 0))
  BY <1>3, RepairStarts
<1> HIDE DEF U
<1>5. Distinct(U) /\ HasRoom(U)
  BY <1>1 DEF Distinct, HasRoom
<1>6. In(U) = In(T) \ {T[i]}
  <2>1. In(U) \subseteq In(T) \ {T[i]}
    BY <1>1 DEF In, Distinct
  <2>2. In(T) \ {T[i]} \subseteq In(U)
    BY <1>1 DEF In
  <2> QED BY <2>1, <2>2
<1>7. T[x] = Null => 0 < Dist(i, x) /\ U[x] = Null
  BY <1>1, <1>3
<1>8. Dist(i, x) + 1..0 = {}
  BY DistOrders
<1> DEFINE r == [tab |-> U, on |-> TRUE]
<1>9. r \in [tab : Table, on : BOOLEAN] /\ r.tab = U /\ r.on
  BY <1>1
<1> HIDE DEF r
<1>10. Loop(T, i, x, 0, r)
  BY <1>4, <1>5, <1>6, <1>7, <1>8, <1>9 DEF Loop
<1> QED BY <1>10 DEF r, U

\* Each round of the loop keeps it.
LEMMA LoopGoesOn ==
  ASSUME HashOK, NEW T \in Table, NEW i \in Slots, NEW x \in Slots,
         NEW k \in Nat, NEW r, Loop(T, i, x, k, r)
  PROVE  Loop(T, i, x, k + 1, Reinsert(r, At(i, k + 1)))
<1> DEFINE j == At(i, k + 1)
           d == Dist(i, x)
<1>1. j \in Slots /\ d \in Int /\ d < Size /\ 0 <= d
  BY AtSlot, DistOrders
<1>2. r \in [tab : Table, on : BOOLEAN] /\ r.tab \in Table
  BY DEF Loop
<1>3. k < d => Dist(i, j) = k + 1
  <2> SUFFICES ASSUME k < d PROVE Dist(i, j) = k + 1
    OBVIOUS
  <2>1. k + 1 \in Slots
    BY <1>1, TableAssumption DEF Slots
  <2> QED BY <2>1, AtDist
<1> HIDE DEF j
<1>4. CASE r.on /\ r.tab[j] # Null
  <2> DEFINE U == AddTo(Cleared(r.tab, j), r.tab[j])
             q == [r EXCEPT !.tab = U]
  <2>1. Reinsert(r, j) = q
    BY <1>4 DEF Reinsert, Cleared
  <2>2. PICK f \in Slots : Moved(r.tab, U, j, f)
    BY <1>1, <1>2, <1>4, RoundMoves
  <2>3. AllReach(r.tab) => U = r.tab
    BY <1>1, <1>2, <1>4, RoundStays
  <2> HIDE DEF U
  <2>4. U \in Table /\ q \in [tab : Table, on : BOOLEAN] /\ q.tab = U /\ q.on = r.on
    BY <1>2, <2>2 DEF Moved
  <2> HIDE DEF q
  <2>5. Distinct(U) /\ HasRoom(U) /\ In(U) = In(r.tab)
    BY <1>1, <1>2, <1>4, <2>2, MovedKeeps DEF Loop
  <2>6. ASSUME ~AllReach(r.tab)
        PROVE  IF k + 1 = d THEN AllReach(U)
               ELSE k + 1 < d /\ Repairing(U, i, x, k + 1) /\ U[x] = r.tab[x]
    <3>1. k < d /\ Repairing(r.tab, i, x, k)
      BY <2>6 DEF Loop
    <3> HIDE DEF d
    <3> QED BY <1>1, <1>2, <1>3, <1>4, <2>2, <3>1, RepairGoesOn DEF d
  <2>7. AllReach(U) \/ (k + 1 < d /\ Repairing(U, i, x, k + 1))
    BY <2>3, <2>6
  <2>8. T[x] = Null => k + 1 < d /\ U[x] = Null
    <3> SUFFICES ASSUME T[x] = Null PROVE k + 1 < d /\ U[x] = Null
      OBVIOUS
    <3>1. k < d /\ r.tab[x] = Null
      BY <1>4 DEF Loop
    <3>2. k + 1 # d
      <4> SUFFICES ASSUME k + 1 = d PROVE FALSE
        OBVIOUS
      <4>1. Dist(i, j) = Dist(i, x)
        BY <1>3, <3>1
      <4>2. j = x
        BY <1>1, <4>1, DistOrders
      <4> QED BY <1>4, <3>1, <4>2
    <3>3. k + 1 < d
      BY <1>1, <3>1, <3>2
    <3> QED BY <2>3, <2>6, <3>1, <3>2, <3>3
  <2>9. ASSUME NEW m \in d + 1..k + 1
        PROVE  U[At(i, m)] # Null
    <3>1. ~(k < d)
      BY <1>1
    <3>2. U = r.tab
      BY <2>3, <3>1 DEF Loop
    <3>3. CASE m = k + 1
      BY <1>4, <3>2, <3>3 DEF j
    <3>4. CASE m # k + 1
      <4>1. m \in d + 1..k
        BY <1>1, <3>4
      <4> QED BY <1>4, <3>2, <4>1 DEF Loop
    <3> QED BY <3>3, <3>4
  <2>10. Loop(T, i, x, k + 1, q)
    BY <1>4, <2>4, <2>5, <2>7, <2>8, <2>9 DEF Loop
  <2> QED BY <2>1, <2>10 DEF j
<1>5. CASE ~(r.on /\ r.tab[j] # Null)
  <2> DEFINE q == [r EXCEPT !.on = FALSE]
  <2>1. Reinsert(r, j) = q
    BY <1>5 DEF Reinsert
  <2>2. q \in [tab : Table, on : BOOLEAN] /\ q.tab = r.tab /\ q.on = FALSE
    BY <1>2
  <2> HIDE DEF q
  <2>3. AllReach(r.tab)
    <3> SUFFICES ASSUME ~AllReach(r.tab) PROVE FALSE
      OBVIOUS
    <3>1. r.on /\ k < d /\ Repairing(r.tab, i, x, k)
      BY DEF Loop
    <3>2. r.tab[j] = Null
      BY <1>5, <3>1
    <3>3. AllReach(r.tab)
      BY <1>1, <1>2, <1>3, <3>1, <3>2, RepairEnds
    <3> QED BY <3>3
  <2>4. Loop(T, i, x, k + 1, q)
    BY <2>2, <2>3 DEF Loop
  <2> QED BY <2>1, <2>4 DEF j
<1> QED BY <1>4, <1>5

\* However long the loop is followed:
LEMMA LoopHolds ==
  ASSUME HashOK, NEW T \in Table, Distinct(T), AllReach(T),
         NEW i \in Slots, T[i] # Null, NEW x \in Slots, Avoids(T, x)
  PROVE  \A k \in 0..2 * Size : Loop(T, i, x, k, Rounds(T, i)[k])
<1> DEFINE P == {k \in Nat : k <= 2 * Size => Loop(T, i, x, k, Rounds(T, i)[k])}
<1>1. 0 \in P
  <2>1. Rounds(T, i)[0] = [tab |-> Cleared(T, i), on |-> TRUE]
    BY RoundsAre DEF Cleared
  <2>2. Loop(T, i, x, 0, Rounds(T, i)[0])
    BY <2>1, LoopStarts
  <2> QED BY <2>2
<1>2. ASSUME NEW k \in P
      PROVE  k + 1 \in P
  <2> SUFFICES ASSUME k + 1 <= 2 * Size
               PROVE  Loop(T, i, x, k + 1, Rounds(T, i)[k + 1])
    OBVIOUS
  <2>1. k \in Nat /\ k <= 2 * Size /\ k + 1 \in 1..2 * Size /\ (k + 1) - 1 = k
    BY TableAssumption
  <2>2. Loop(T, i, x, k, Rounds(T, i)[k])
    BY <2>1
  <2>3. Rounds(T, i)[k + 1] = Reinsert(Rounds(T, i)[k], At(i, k + 1))
    BY <2>1, RoundsAre
  <2> QED BY <2>1, <2>2, <2>3, LoopGoesOn
<1>3. P = Nat
  <2>1. P \in SUBSET Nat
    OBVIOUS
  <2> HIDE DEF P
  <2> QED BY ONLY <1>1, <1>2, <2>1, Induction
<1>4. \A k \in 0..2 * Size : k \in P /\ k <= 2 * Size
  BY <1>3, TableAssumption
<1> QED BY <1>4

\* The loop ends within two turns.
LEMMA LoopEnds ==
  ASSUME NEW T \in Table, NEW i \in Slots, NEW x \in Slots, NEW r,
         Loop(T, i, x, 2 * Size, r)
  PROVE  r.on = FALSE
<1> DEFINE d == Dist(i, x)
<1>1. r.on \in BOOLEAN
  BY DEF Loop
<1> SUFFICES ASSUME r.on PROVE FALSE
  BY <1>1
<1>2. PICK y \in Slots : r.tab[y] = Null
  BY DEF Loop, HasRoom
<1> DEFINE e == Dist(i, y)
<1>3. e \in Slots /\ At(i, e) = y /\ At(i, e + Size) = y /\ e \in Nat
  <2>1. e \in Slots /\ At(i, e) = y /\ e \in Nat
    <3>1. e \in Slots /\ At(i, e) = y
      BY DistIs
    <3> HIDE DEF e
    <3> QED BY <3>1, TableAssumption DEF Slots
  <2> HIDE DEF e
  <2> QED BY <2>1, AtTurn
<1>4. d \in Int /\ d < Size /\ 0 <= d
  BY DistOrders
<1> HIDE DEF e, d
<1>5. e + Size \in d + 1..2 * Size
  BY <1>3, <1>4, TableAssumption DEF Slots
<1>6. r.tab[At(i, e + Size)] # Null
  BY <1>5 DEF Loop, d
<1> QED BY <1>2, <1>3, <1>6

LEMMA RoomAvoids ==
  ASSUME NEW T \in Table, AllReach(T), NEW y \in Slots, T[y] = Null
  PROVE  Avoids(T, y)
BY DEF AllReach, Reaches, Avoids

\* hashtable_remove: the other entries are in the table, and can be reached.
LEMMA EmptiedIs ==
  ASSUME HashOK, NEW T \in Table, Distinct(T), AllReach(T),
         NEW i \in Slots, T[i] # Null, NEW x \in Slots, Avoids(T, x)
  PROVE  LET U == Emptied(T, i)
         IN  /\ U \in Table /\ Distinct(U) /\ AllReach(U)
             /\ In(U) = In(T) \ {T[i]}
             /\ \E y \in Slots : Avoids(U, y)
<1> DEFINE r == Rounds(T, i)[2 * Size]
           U == Emptied(T, i)
<1>1. Loop(T, i, x, 2 * Size, r)
  <2>1. 2 * Size \in 0..2 * Size
    BY TableAssumption
  <2> QED BY <2>1, LoopHolds
<1>2. U = r.tab
  BY DEF Emptied
<1> HIDE DEF r, U
<1>3. r.on = FALSE
  BY <1>1, LoopEnds
<1>4. U \in Table /\ Distinct(U) /\ AllReach(U) /\ HasRoom(U) /\ In(U) = In(T) \ {T[i]}
  BY <1>1, <1>2, <1>3 DEF Loop
<1>5. \E y \in Slots : Avoids(U, y)
  BY <1>4, RoomAvoids DEF HasRoom
<1> QED BY <1>4, <1>5 DEF U

\* hashtable_add: so can they be after an entry has been added.
LEMMA AddedIs ==
  ASSUME HashOK, NEW T \in Table, Distinct(T), AllReach(T), HasRoom(T),
         NEW p \in Entries, \A s \in Slots : T[s] # p
  PROVE  LET U == AddTo(T, p)
         IN  /\ U \in Table /\ Distinct(U) /\ AllReach(U)
             /\ In(U) = In(T) \cup {p}
             /\ \E y \in Slots : Avoids(U, y)
<1> DEFINE h == hash[NameOf[p]]
<1>1. PICK f \in Slots :
           /\ T[f] = Null
           /\ AddTo(T, p) = [T EXCEPT ![f] = p]
           /\ \A y \in Slots : Dist(h, y) < Dist(h, f) => T[y] # Null
  BY AddToIs
<1> DEFINE U == [T EXCEPT ![f] = p]
<1>2. h \in Slots /\ p # Null
  BY TableAssumption DEF HashOK
<1>3. U \in Table /\ U[f] = p /\ \A s \in Slots \ {f} : U[s] = T[s]
  BY DEF Table
<1> HIDE DEF U, h
<1>4. Distinct(U)
  <2> SUFFICES ASSUME NEW s \in Slots, NEW t \in Slots, U[s] # Null, U[s] = U[t], s # t
               PROVE  FALSE
    BY DEF Distinct
  <2>1. CASE s = f \/ t = f
    BY <1>3, <2>1
  <2>2. CASE s # f /\ t # f
    BY <1>3, <2>2 DEF Distinct
  <2> QED BY <2>1, <2>2
<1>5. In(U) = In(T) \cup {p}
  <2>1. In(U) \subseteq In(T) \cup {p}
    BY <1>3 DEF In
  <2>2. In(T) \cup {p} \subseteq In(U)
    BY <1>1, <1>2, <1>3 DEF In
  <2> QED BY <2>1, <2>2
<1>6. \A y \in Slots : T[y] # Null => U[y] # Null
  BY <1>2, <1>3
<1>7. \A s \in Slots \ {f} : U[s] # Null =>
        /\ T[s] # Null /\ \A y \in Slots : OnPath(U, s, y) <=> OnPath(T, s, y)
  BY <1>3 DEF OnPath, Home
<1>8. Reaches(U, f)
  <2> SUFFICES ASSUME NEW y \in Slots, Dist(h, y) <= Dist(h, f)
               PROVE  U[y] # Null
    BY <1>3 DEF Reaches, OnPath, Home, h
  <2>1. CASE y = f
    BY <1>2, <1>3, <2>1
  <2>2. CASE y # f
    <3>1. Dist(h, y) # Dist(h, f) /\ Dist(h, y) \in Int /\ Dist(h, f) \in Int
      BY <1>2, <2>2, DistOrders
    <3>2. Dist(h, y) < Dist(h, f)
      BY <3>1
    <3> QED BY <1>1, <1>6, <3>2
  <2> QED BY <2>1, <2>2
<1>9. \A s \in Slots \ {f} : U[s] # Null => Reaches(U, s)
  BY <1>6, <1>7 DEF AllReach, Reaches
<1>10. Avoids(U, f)
  BY <1>1, <1>7 DEF Avoids, AllReach, Reaches
<1>11. AllReach(U)
  BY <1>8, <1>9 DEF AllReach
<1> QED BY <1>1, <1>3, <1>4, <1>5, <1>10, <1>11 DEF U

\* The table has room just if it has fewer entries than slots.
LEMMA CountIs ==
  ASSUME NEW T \in Table, Distinct(T)
  PROVE  HasRoom(T) <=> Cardinality(In(T)) < Size
<1> DEFINE taken == {s \in Slots : T[s] # Null}
           g == [s \in taken |-> T[s]]
<1>1. g \in Bijection(taken, In(T))
  <2>1. \A s \in taken : T[s] \in In(T)
    BY DEF In
  <2>2. g \in [taken -> In(T)]
    BY <2>1
  <2>3. \A s \in taken : g[s] = T[s] /\ s \in Slots /\ T[s] # Null
    OBVIOUS
  <2>4. \A v \in In(T) : \E s \in taken : T[s] = v
    BY DEF In
  <2> HIDE DEF g, taken
  <2>5. g \in Surjection(taken, In(T))
    BY <2>2, <2>3, <2>4 DEF Surjection
  <2>6. g \in Injection(taken, In(T))
    <3>1. \A s, t \in taken : g[s] = g[t] => s = t
      BY <2>3 DEF Distinct
    <3> QED BY <2>2, <3>1 DEF Injection, IsInjective
  <2> QED BY <2>5, <2>6 DEF Bijection
<1>2. IsFiniteSet(Slots) /\ Cardinality(Slots) = Size
  <2>1. 0 \in Int /\ Size - 1 \in Int /\ ~(0 > Size - 1) /\ (Size - 1) - 0 + 1 = Size
    BY TableAssumption
  <2> QED BY <2>1, FS_Interval DEF Slots
<1>3. taken \in SUBSET Slots
  OBVIOUS
<1> HIDE DEF taken, g
<1>4. /\ IsFiniteSet(taken) /\ Cardinality(taken) <= Size
      /\ Size = Cardinality(taken) => Slots = taken
  BY <1>2, <1>3, FS_Subset
<1>5. ExistsBijection(taken, In(T))
  BY <1>1 DEF ExistsBijection
<1>6. Cardinality(In(T)) = Cardinality(taken)
  BY ONLY <1>4, <1>5, FS_Bijection
<1>7. Cardinality(taken) \in Nat
  BY <1>4, FS_CardinalityType
<1>8. Cardinality(taken) < Size <=> taken # Slots
  BY <1>2, <1>4, <1>7, TableAssumption
<1>9. HasRoom(T) <=> taken # Slots
  BY DEF HasRoom, taken
<1> QED BY <1>6, <1>8, <1>9

----------------------------------------------------------------------------
(* The invariant of the table: each entry is in one slot and can be reached, *)
(* and some slot is on the way to no entry but its own.                     *)

TableInv ==
  /\ HashOK /\ slot \in Table
  /\ Distinct(slot) /\ AllReach(slot)
  /\ \E x \in Slots : Avoids(slot, x)

LEMMA TableInvPrimed ==
  ASSUME HashOK, hash' = hash, slot' \in Table, Distinct(slot'), AllReach(slot'),
         \E x \in Slots : Avoids(slot', x)
  PROVE  TableInv'
<1>1. HashOK'
  BY DEF HashOK
<1>2. AllReach(slot)'
  BY DEF AllReach, Reaches, OnPath, Home
<1>3. (\E x \in Slots : Avoids(slot, x))'
  BY DEF Avoids, OnPath, Home
<1>4. (slot \in Table)' /\ Distinct(slot)'
  BY DEF Table, Distinct
<1> QED BY <1>1, <1>2, <1>3, <1>4 DEF TableInv

\* An empty table.
LEMMA TableInvInit == Init => TableInv
<1> SUFFICES ASSUME Init PROVE TableInv
  OBVIOUS
<1>1. slot \in Table /\ \A s \in Slots : slot[s] = Null
  BY DEF Init, Table
<1>2. 0 \in Slots
  BY TableAssumption DEF Slots
<1>3. Distinct(slot) /\ AllReach(slot) /\ Avoids(slot, 0)
  BY <1>1, <1>2 DEF Distinct, AllReach, Avoids
<1> QED BY <1>1, <1>2, <1>3 DEF TableInv, HashOK, Init

\* Every operation keeps the invariant.
LEMMA TableInvStep == TableInv /\ [Next]_vars => TableInv'
<1> SUFFICES ASSUME TableInv, [Next]_vars PROVE TableInv'
  OBVIOUS
<1>1. HashOK /\ slot \in Table /\ Distinct(slot) /\ AllReach(slot)
  BY DEF TableInv
<1>2. PICK x \in Slots : Avoids(slot, x)
  BY DEF TableInv
<1>3. CASE UNCHANGED <<hash, slot>>
  BY <1>1, <1>2, <1>3, TableInvPrimed
<1>4. ASSUME NEW p \in Entries, Add(p)
      PROVE  TableInv'
  <2>1. slot' = AddTo(slot, p) /\ hash' = hash /\ \A s \in Slots : slot[s] # p
    BY <1>4 DEF Add
  <2>2. CASE HasRoom(slot)
    BY <1>1, <2>1, <2>2, AddedIs, TableInvPrimed
  <2>3. CASE ~HasRoom(slot)
    BY <1>1, <1>3, <2>1, <2>3, AddToFull
  <2> QED BY <2>2, <2>3
<1>5. ASSUME NEW n \in Names, Remove(n)
      PROVE  TableInv'
  <2> DEFINE i == At(hash[n], Probe(slot, n))
  <2>1. hash' = hash /\ slot' = IF Found(slot, n) = Null THEN slot ELSE Emptied(slot, i)
    BY <1>5 DEF Remove
  <2>2. CASE Found(slot, n) = Null
    BY <1>3, <2>1, <2>2
  <2>3. CASE Found(slot, n) # Null
    <3>1. i \in Slots /\ slot[i] # Null
      BY <1>1, <2>3, FoundIs
    <3>2. slot' = Emptied(slot, i)
      BY <2>1, <2>3
    <3> HIDE DEF i
    <3> QED BY <1>1, <1>2, <2>1, <3>1, <3>2, EmptiedIs, TableInvPrimed
  <2> QED BY <2>2, <2>3
<1> QED BY <1>3, <1>4, <1>5 DEF Next, Search, vars

\* Whatever is added, searched and removed, each entry is in one slot, no empty
\* slot lies before it, and some slot is on the way to no other entry (ht.c).
THEOREM TableInvHolds == Spec => []TableInv
BY TableInvInit, TableInvStep, PTL DEF Spec

\* Linear probing finds what is in the table: no empty slot is ever left before
\* an entry, after however many insertions and removals (ht.c 95-103).
THEOREM ReachableCorrect == Spec => []Reachable
<1>1. TableInv => Reachable
  <2> SUFFICES ASSUME TableInv, NEW i \in Slots, slot[i] # Null
               PROVE  \E k \in Slots :
                        /\ i = At(hash[NameOf[slot[i]]], k)
                        /\ \A j \in 0..k : slot[At(hash[NameOf[slot[i]]], j)] # Null
    BY DEF Reachable
  <2> DEFINE h == Home(slot, i)
             k == Dist(h, i)
  <2>1. HashOK /\ slot \in Table /\ Reaches(slot, i)
    BY DEF TableInv, AllReach
  <2>2. h \in Slots
    BY <2>1, HomeIs
  <2> HIDE DEF h
  <2>3. k \in Slots /\ i = At(h, k)
    BY <2>2, DistIs
  <2>4. ASSUME NEW j \in 0..k
        PROVE  slot[At(h, j)] # Null
    <3>1. j \in Slots /\ j <= k
      BY <2>3, TableAssumption DEF Slots
    <3>2. At(h, j) \in Slots /\ Dist(h, At(h, j)) = j
      BY <2>2, <3>1, AtDist
    <3> QED BY <2>1, <3>1, <3>2 DEF Reaches, OnPath, h
  <2> HIDE DEF k
  <2> QED BY <2>3, <2>4 DEF h, Home
<1> QED BY <1>1, TableInvHolds, PTL

\* The re-insertion loop ends after every removal, within two turns, and within
\* one if the table was not full (ht.c 97).
THEOREM RehashEndsCorrect == Spec => []RehashEnds
<1>1. TableInv => RehashEnds
  <2> SUFFICES ASSUME TableInv, NEW n \in Names, Found(slot, n) # Null
               PROVE  LET rounds == Rounds(slot, At(hash[n], Probe(slot, n)))
                      IN  /\ ~rounds[2 * Size].on
                          /\ Null \in {slot[i] : i \in Slots} => ~rounds[Size].on
    BY DEF RehashEnds
  <2> DEFINE i == At(hash[n], Probe(slot, n))
  <2>1. HashOK /\ slot \in Table /\ Distinct(slot) /\ AllReach(slot)
    BY DEF TableInv
  <2>2. i \in Slots /\ slot[i] # Null
    BY <2>1, FoundIs
  <2> HIDE DEF i
  <2>3. 2 * Size \in 0..2 * Size /\ Size \in 0..2 * Size
    BY TableAssumption
  <2>4. ~Rounds(slot, i)[2 * Size].on
    <3>1. PICK x \in Slots : Avoids(slot, x)
      BY DEF TableInv
    <3>2. Loop(slot, i, x, 2 * Size, Rounds(slot, i)[2 * Size])
      BY <2>1, <2>2, <2>3, <3>1, LoopHolds
    <3> QED BY <2>1, <2>2, <3>2, LoopEnds
  <2>5. ASSUME NEW y \in Slots, slot[y] = Null
        PROVE  ~Rounds(slot, i)[Size].on
    <3>1. Avoids(slot, y)
      BY <2>1, <2>5, RoomAvoids
    <3>2. Loop(slot, i, y, Size, Rounds(slot, i)[Size])
      BY <2>1, <2>2, <2>3, <3>1, LoopHolds
    <3>3. ~(Size < Dist(i, y))
      BY <2>2, DistOrders, TableAssumption
    <3> QED BY <2>5, <3>2, <3>3 DEF Loop
  <2> QED BY <2>4, <2>5 DEF i
<1> QED BY <1>1, TableInvHolds, PTL

----------------------------------------------------------------------------
(* The refinement.                                                          *)

\* The set that the table stands for.
LEMMA MembersAre == Members = In(slot)
BY DEF Members, In

LEMMA SetInit == Init => Abstract!Init
<1> SUFFICES ASSUME Init PROVE Abstract!Init
  OBVIOUS
<1>1. Members = {}
  BY DEF Init, Members
<1> QED BY <1>1 DEF Init, Abstract!Init

\* hashtable_add is Add of the set.
LEMMA SetAdds ==
  ASSUME TableInv, NEW p \in Entries, Add(p)
  PROVE  Abstract!Add(p)
<1>1. HashOK /\ slot \in Table /\ Distinct(slot) /\ AllReach(slot)
  BY DEF TableInv
<1>2. slot' = AddTo(slot, p) /\ \A s \in Slots : slot[s] # p
  BY DEF Add
<1>3. p \notin Members
  BY <1>2 DEF Members
<1>4. Returns("add", p, IF HasRoom(slot) THEN 0 ELSE 1)
  BY DEF Add, HasRoom
<1>5. HasRoom(slot) <=> Cardinality(Members) < Size
  BY <1>1, CountIs, MembersAre
<1> Abstract!Cardinality(Members) = Cardinality(Members)
  BY Zenon DEF Abstract!Cardinality, Cardinality
<1>6. Members' = In(slot')
  BY DEF Members, In
<1>7. CASE HasRoom(slot)
  <2>1. Members' = Members \cup {p}
    BY <1>1, <1>2, <1>6, <1>7, AddedIs, MembersAre
  <2>2. Returns("add", p, 0)
    BY <1>4, <1>7
  <2> QED BY <1>3, <1>5, <1>7, <2>1, <2>2 DEF Abstract!Add, Abstract!Returns, Returns
<1>8. CASE ~HasRoom(slot)
  <2>1. Members' = Members
    BY <1>1, <1>2, <1>6, <1>8, AddToFull, MembersAre
  <2>2. Returns("add", p, 1)
    BY <1>4, <1>8
  <2> QED BY <1>3, <1>5, <1>8, <2>1, <2>2 DEF Abstract!Add, Abstract!Returns, Returns
<1> QED BY <1>7, <1>8

\* What a probe finds, of the set.
LEMMA FoundOfSet ==
  ASSUME TableInv, NEW n \in Names
  PROVE  \/ Found(slot, n) = Null /\ Abstract!Named(n) = {}
         \/ Found(slot, n) # Null /\ Found(slot, n) \in Abstract!Named(n)
<1>1. HashOK /\ slot \in Table /\ AllReach(slot)
  BY DEF TableInv
<1>2. CASE /\ Found(slot, n) = Null
           /\ \A s \in Slots : slot[s] # Null => NameOf[slot[s]] # n
  BY <1>2 DEF Abstract!Named, Members
<1>3. CASE \E s \in Slots : /\ slot[s] # Null /\ NameOf[slot[s]] = n
                            /\ Found(slot, n) = slot[s]
  BY <1>3 DEF Abstract!Named, Members
<1> QED BY <1>1, <1>2, <1>3, FoundIs

\* hashtable_search is Search of the set.
LEMMA SetSearches ==
  ASSUME TableInv, NEW n \in Names, Search(n)
  PROVE  Abstract!Search(n)
<1>1. Members' = Members
  BY DEF Search, Members
<1>2. Returns("search", n, Found(slot, n))
  BY DEF Search
<1> QED BY <1>1, <1>2, FoundOfSet DEF Abstract!Search, Abstract!Returns, Returns

\* hashtable_remove, with its loop, is Remove of the set.
LEMMA SetRemoves ==
  ASSUME TableInv, NEW n \in Names, Remove(n)
  PROVE  Abstract!Remove(n)
<1> DEFINE i == At(hash[n], Probe(slot, n))
<1>1. HashOK /\ slot \in Table /\ Distinct(slot) /\ AllReach(slot)
  BY DEF TableInv
<1>2. CASE Found(slot, n) = Null
  <2>1. Members' = Members /\ Returns("remove", n, 0)
    BY <1>2 DEF Remove, Members
  <2> QED BY <1>2, <2>1, FoundOfSet DEF Abstract!Remove, Abstract!Returns, Returns
<1>3. CASE Found(slot, n) # Null
  <2>1. slot' = Emptied(slot, i) /\ Returns("remove", n, 1)
    BY <1>3 DEF Remove
  <2>2. i \in Slots /\ slot[i] # Null /\ Found(slot, n) = slot[i]
    BY <1>1, <1>3, FoundIs
  <2> HIDE DEF i
  <2>3. PICK x \in Slots : Avoids(slot, x)
    BY DEF TableInv
  <2>4. In(slot') = In(slot) \ {slot[i]}
    BY <1>1, <2>1, <2>2, <2>3, EmptiedIs
  <2>5. Members' = Members \ {Found(slot, n)}
    BY <2>2, <2>4 DEF Members, In
  <2>6. Found(slot, n) \in Abstract!Named(n)
    BY <1>3, FoundOfSet
  <2> QED BY <2>1, <2>5, <2>6 DEF Abstract!Remove, Abstract!Returns, Returns
<1> QED BY <1>2, <1>3

\* ht.c is a set searched by name, whatever the number of slots and the hash
\* function, however the names collide and with several entries of one name.
THEOREM TableCorrect == Spec => ImplementsNameSet
<1>1. TableInv /\ [Next]_vars => [Abstract!Next]_<<Members, result>>
  <2> SUFFICES ASSUME TableInv, [Next]_vars PROVE [Abstract!Next]_<<Members, result>>
    OBVIOUS
  <2>1. CASE UNCHANGED vars
    BY <2>1 DEF vars, Members
  <2> QED BY <2>1, SetAdds, SetSearches, SetRemoves DEF Next, Abstract!Next
<1> QED BY <1>1, SetInit, TableInvHolds, PTL DEF Spec, ImplementsNameSet, Abstract!Spec
=============================================================================
