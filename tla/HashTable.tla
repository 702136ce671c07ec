----------------------------- MODULE HashTable -----------------------------
(***************************************************************************)
(* The open-addressing table of ht.c: linear probing from the hash of the  *)
(* name, and a removal that empties a slot and then takes every entry of   *)
(* the cluster after it out and adds it again.  FNV-1a modulo TABLE_SIZE   *)
(* is any function from names to slots.  The operations are those of one   *)
(* thread, each whole.                                                     *)
(***************************************************************************)
EXTENDS Integers, FiniteSets, FiniteSetsExt

CONSTANTS
  Entries,   \* client_t structures
  Names,     \* usernames
  NameOf,    \* client_t.username
  Size,      \* TABLE_SIZE
  Null

ASSUME TableAssumption ==
  /\ NameOf \in [Entries -> Names]
  /\ Size \in Nat \ {0}
  /\ Null \notin Entries

VARIABLES
  hash,      \* fnv1a_hash
  slot,      \* hash_table
  result     \* the last call and what it returned

vars == <<hash, slot, result>>

Slots == 0..Size - 1

\* The place k steps after slot i, around the table.
At(i, k) == (i + k) % Size

Returns(op, arg, ret) == result' = [op |-> op, arg |-> arg, ret |-> ret]

\* The probe for name n in table T stops at an empty slot, or at an entry of
\* that name, or (Size) where it began.
ProbeUnnamed(T, n) ==                                  \* mutant: no strncmp
  Min({k \in Slots : T[At(hash[n], k)] # Null} \cup {Size})
Probe(T, n) ==
  Min({k \in Slots : \/ T[At(hash[n], k)] = Null
                       \/ NameOf[T[At(hash[n], k)]] = n} \cup {Size})

\* hashtable_add: the first empty slot, or no change if there is none.
AddTo(T, p) ==
  LET free == {k \in Slots : T[At(hash[NameOf[p]], k)] = Null}
  IN  IF free = {} THEN T
      ELSE [T EXCEPT ![At(hash[NameOf[p]], Min(free))] = p]

\* The entry a probe for n ends at, or Null.
Found(T, n) ==
  IF Probe(T, n) = Size THEN Null ELSE T[At(hash[n], Probe(T, n))]

\* One round of the re-insertion loop, at slot j of r.tab: it ends at a slot
\* that is empty.
ReinsertKeep(r, j) ==                             \* mutant: slot not cleared
  IF r.on /\ r.tab[j] # Null THEN [r EXCEPT !.tab = AddTo(r.tab, r.tab[j])]
                             ELSE [r EXCEPT !.on = FALSE]
Reinsert(r, j) ==
  IF r.on /\ r.tab[j] # Null
  THEN [r EXCEPT !.tab = AddTo([r.tab EXCEPT ![j] = Null], r.tab[j])]
  ELSE [r EXCEPT !.on = FALSE]

\* The loop after slot i was emptied, up to its k-th round.
Rounds(T, i) ==
  LET f[k \in 0..2 * Size] ==
        IF k = 0 THEN [tab |-> [T EXCEPT ![i] = Null], on |-> TRUE]
        ELSE Reinsert(f[k - 1], At(i, k))
  IN  f
EmptiedOnly(T, i) == [T EXCEPT ![i] = Null]       \* mutant: no rehash
Emptied(T, i) == Rounds(T, i)[2 * Size].tab

Init == /\ hash \in [Names -> Slots]
        /\ slot = [i \in Slots |-> Null]
        /\ result = Null

\* Main registers a client_t, once.
Add(p) ==
  /\ \A i \in Slots : slot[i] # p
  /\ slot' = AddTo(slot, p)
  /\ Returns("add", p, IF \E i \in Slots : slot[i] = Null THEN 0 ELSE 1)
  /\ UNCHANGED hash

Search(n) ==
  /\ Returns("search", n, Found(slot, n))
  /\ UNCHANGED <<hash, slot>>

Remove(n) ==
  /\ slot' = IF Found(slot, n) = Null THEN slot
             ELSE Emptied(slot, At(hash[n], Probe(slot, n)))
  /\ Returns("remove", n, IF Found(slot, n) = Null THEN 0 ELSE 1)
  /\ UNCHANGED hash

Next == \/ \E p \in Entries : Add(p)
        \/ \E n \in Names : Search(n) \/ Remove(n)

Spec == Init /\ [][Next]_vars

----------------------------------------------------------------------------
Members == {slot[i] : i \in Slots} \ {Null}

\* No probe for an entry's name is stopped by an empty slot before the entry:
\* what linear probing lives on, and what the re-insertion loop of ht.c 95-103
\* has to restore after every removal.
Reachable ==
  \A i \in Slots : slot[i] # Null =>
    \E k \in Slots :
      /\ i = At(hash[NameOf[slot[i]]], k)
      /\ \A j \in 0..k : slot[At(hash[NameOf[slot[i]]], j)] # Null

\* The loop that ends only at an empty slot (ht.c 97) ends, within two turns of
\* the table even if that was full; if it was not, within one.
RehashEnds ==
  \A n \in Names : Found(slot, n) # Null =>
    LET rounds == Rounds(slot, At(hash[n], Probe(slot, n)))
    IN  ~rounds[2 * Size].on /\ (Null \in {slot[i] : i \in Slots} => ~rounds[Size].on)

\* ht.c is a set searched by name, whatever the hash function, however the
\* names collide and with two entries of one name.
Abstract == INSTANCE NameSet WITH members <- Members, Capacity <- Size
ImplementsNameSet == Abstract!Spec
=============================================================================
