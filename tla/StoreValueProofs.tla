-------------------------- MODULE StoreValueProofs --------------------------
(***************************************************************************)
(* Lemmas about the tables of the store and about a store value: what each *)
(* change of a chain does to the entries a table holds, to its counter and *)
(* to its order; the inductive invariant of a store, and that the changes  *)
(* the calls are made of (rewriting, unlinking and inserting an entry, a   *)
(* rehash step) keep it and do to the contents what they should; and what  *)
(* each call of store.h does, by its contents.                             *)
(***************************************************************************)
EXTENDS StoreTables, SetFacts, TLAPS

(* What the lemmas use of finite sets. *)
StoreFacts ==
  /\ Least /\ CountType /\ IntervalCount /\ SubsetCount /\ AddCount
  /\ RemoveCount /\ UnionCount /\ DifferenceCount /\ PowerCount /\ ImageCount

(* A nonempty set of naturals has a least element, and Min is it. *)
LEMMA MinNat ==
  ASSUME StoreFacts, NEW S \in SUBSET Nat, S # {}
  PROVE  Min(S) \in S /\ \A y \in S : Min(S) <= y
<1>1. \E x \in S : \A y \in S : x <= y
  BY Zenon DEF StoreFacts, Least
<1>2. QED
  BY <1>1, Zenon DEF Min

(* Min of a set of integers with a known least element. *)
LEMMA MinIs ==
  ASSUME NEW S \in SUBSET Int, NEW m \in S, \A y \in S : m <= y
  PROVE  Min(S) = m
<1>1. Min(S) \in S /\ \A y \in S : Min(S) <= y
  BY Zenon DEF Min
<1>2. Min(S) <= m /\ m <= Min(S) /\ Min(S) \in Int /\ m \in Int
  BY <1>1, Zenon
<1>3. QED
  BY <1>2

(* The least element from m on of a set that has m is m. *)
LEMMA MinAbove ==
  ASSUME NEW P \in SUBSET Nat, NEW m \in P
  PROVE  Min({p \in P : p >= m}) = m
<1> DEFINE S == {p \in P : p >= m}
<1>1. \A p \in P : p \in Int
  OBVIOUS
<1>2. m >= m
  OBVIOUS
<1>3. S \in SUBSET Int /\ m \in S
  BY <1>1, <1>2, Zenon
<1>4. \A y \in S : m <= y
  BY <1>1
<1>5. QED
  BY <1>3, <1>4, MinIs, Zenon

(* Powers of two double: counted as subsets of 1..n+1 with and without n+1. *)
LEMMA PowerStep ==
  ASSUME StoreFacts, NEW n \in Nat
  PROVE  2^(n + 1) = 2 * 2^n /\ 2^n \in Nat
<1> DEFINE S == 1 .. n
           A == SUBSET S
           B == {T \cup {n + 1} : T \in A}
           f == [T \in A |-> T \cup {n + 1}]
<1>1. IsFiniteSet(S) /\ Cardinality(S) = n
  BY DEF StoreFacts, IntervalCount
<1>2. IsFiniteSet(1 .. n + 1) /\ Cardinality(1 .. n + 1) = n + 1
  BY DEF StoreFacts, IntervalCount
<1>3. IsFiniteSet(A) /\ Cardinality(A) = 2^n
  BY <1>1, Zenon DEF StoreFacts, PowerCount
<1>4. Cardinality(SUBSET (1 .. n + 1)) = 2^(n + 1)
  BY <1>2, Zenon DEF StoreFacts, PowerCount
<1>5. SUBSET (1 .. n + 1) = A \cup B
  <2>1. 1 .. n + 1 = S \cup {n + 1} /\ n + 1 \notin S
    OBVIOUS
  <2>2. ASSUME NEW U \in SUBSET (1 .. n + 1), U \notin A
        PROVE  U \in B
    <3>1. n + 1 \in U
      BY <2>1, <2>2
    <3>2. U = (U \ {n + 1}) \cup {n + 1} /\ U \ {n + 1} \in A
      BY <2>1, <3>1, Zenon
    <3>3. QED
      BY <3>2, Zenon
  <2>3. A \subseteq SUBSET (1 .. n + 1)
    BY <2>1, Zenon
  <2>4. B \subseteq SUBSET (1 .. n + 1)
    BY <2>1, Zenon
  <2>5. QED
    BY <2>2, <2>3, <2>4, Zenon
<1>6. A \cap B = {}
  BY n + 1 \notin S
<1>7. \A T, U \in A : f[T] = f[U] => T = U
  <2> SUFFICES ASSUME NEW T \in A, NEW U \in A, f[T] = f[U]
               PROVE  T = U
    BY Zenon
  <2>1. n + 1 \notin T /\ n + 1 \notin U
    BY n + 1 \notin S, Zenon
  <2>2. T \cup {n + 1} = U \cup {n + 1}
    OBVIOUS
  <2> HIDE DEF A, f
  <2>3. \A z : z \in T <=> z \in U
    BY <2>1, <2>2, Zenon
  <2>4. QED
    BY <2>3
<1>8. IsFiniteSet(B) /\ Cardinality(B) = 2^n
  <2>1. f = [T \in A |-> f[T]] /\ B = {f[T] : T \in A}
    BY Zenon
  <2> HIDE DEF A, B, f
  <2>2. IsFiniteSet(B) /\ Cardinality(B) = Cardinality(A)
    BY <1>3, <1>7, <2>1 DEF StoreFacts, ImageCount
  <2>3. QED
    BY <1>3, <2>2, Zenon
<1>9. Cardinality(A \cup B) = 2^n + 2^n - Cardinality(A \cap B)
  BY <1>3, <1>8, Zenon DEF StoreFacts, UnionCount
<1>10. Cardinality(A \cap B) = 0
  BY <1>6, Zenon DEF StoreFacts, CountType
<1>11. 2^n \in Nat
  BY <1>3, Zenon DEF StoreFacts, CountType
<1>12. 2^(n + 1) = 2^n + 2^n - 0
  BY <1>4, <1>5, <1>9, <1>10, Zenon
<1>13. \A p \in Nat : p + p - 0 = 2 * p
  OBVIOUS
<1>14. QED
  BY <1>11, <1>12, <1>13, Zenon

IsPow2(n) == n \in Nat \ {0} /\ \E j \in 0 .. n : n = 2^j

(* next_pow2 of twice a power of two is twice that power. *)
LEMMA NextPow2 ==
  ASSUME StoreFacts, NEW n, IsPow2(n)
  PROVE  next_pow2(n * 2) = 2 * n /\ IsPow2(2 * n)
<1> PICK j \in 0 .. n : n = 2^j
  BY DEF IsPow2
<1> n \in Nat \ {0}
  BY DEF IsPow2
<1> DEFINE P == {2^i : i \in 0 .. n * 2}
           S == {p \in P : p >= n * 2}
<1>1. \A i \in Nat : 2^i \in Nat
  BY PowerStep
<1>2. j + 1 \in 0 .. n * 2 /\ j + 1 \in 0 .. 2 * n /\ j \in Nat
  OBVIOUS
<1>3. 2 * n = 2^(j + 1)
  BY <1>2, PowerStep, Zenon
<1>4. P \in SUBSET Nat
  BY <1>1
<1>5. 2 * n \in P
  BY <1>2, <1>3, Zenon
<1>6. 2 * n = n * 2
  OBVIOUS
<1>7. Min(S) = n * 2
  <2> HIDE DEF P
  <2>1. n * 2 \in P
    BY <1>5, <1>6
  <2>2. QED
    BY <1>4, <2>1, MinAbove, Zenon
<1>8. next_pow2(n * 2) = 2 * n
  BY <1>6, <1>7, Zenon DEF next_pow2
<1>9. 2 * n \in Nat \ {0}
  OBVIOUS
<1>10. QED
  BY <1>2, <1>3, <1>8, <1>9, Zenon DEF IsPow2
-----------------------------------------------------------------------------
(* One table in good order: typed, every entry in its bucket, one entry    *)
(* per key, finitely many, and counted.                                    *)
UniqueKeys(E) == \A e, f \in E : e.key = f.key => e = f

TableOK(t) ==
  /\ IsTable(t)
  /\ Placed(t)
  /\ UniqueKeys(Linked(t))
  /\ IsFiniteSet(Linked(t))
  /\ t.used = Cardinality(Linked(t))

(* h & mask selects one of the buckets of a table that has any. *)
LEMMA BucketRange ==
  ASSUME NEW t, IsTable(t), t.size # 0, NEW k \in Keys
  PROVE  Bucket(t, k) \in 0 .. t.size - 1
<1>1. Hash[k] \in Nat /\ t.size \in Nat \ {0}
  BY HashAssumption DEF IsTable
<1>2. QED
  BY <1>1 DEF Bucket

(* A lookup in a table finds what is linked in it under the key. *)
LEMMA FindInTable ==
  ASSUME NEW t, TableOK(t), NEW k \in Keys
  PROVE  find_in_table(t, k) = {e \in Linked(t) : e.key = k}
<1>1. CASE t.size = 0
  BY <1>1 DEF find_in_table, TableOK, IsTable, Linked
<1>2. CASE t.size # 0
  <2>1. Bucket(t, k) \in 0 .. t.size - 1
    BY <1>2, BucketRange, Zenon DEF TableOK
  <2>2. \A e \in Linked(t) : e \in t.buckets[Bucket(t, e.key)]
    BY Zenon DEF TableOK, Placed, Linked
  <2>3. t.buckets[Bucket(t, k)] \subseteq Linked(t)
    BY <2>1, Zenon DEF TableOK, IsTable, Linked
  <2>4. QED
    BY <1>2, <2>2, <2>3, Zenon DEF find_in_table, Chain
<1>3. QED
  BY <1>1, <1>2, Zenon

(* table_init yields a consistent table without entries. *)
LEMMA TableInit ==
  ASSUME StoreFacts, NEW n \in Nat
  PROVE  /\ TableOK(table_init(n))
         /\ Linked(table_init(n)) = {}
         /\ table_init(n).size = n /\ table_init(n).used = 0
         /\ table_init(n).buckets = [i \in 0 .. n - 1 |-> {}]
<1>1. /\ table_init(n).size = n /\ table_init(n).used = 0
      /\ table_init(n).buckets = [i \in 0 .. n - 1 |-> {}]
  BY DEF table_init
<1>2. Linked(table_init(n)) = {}
  BY <1>1 DEF Linked
<1>3. IsTable(table_init(n)) /\ Placed(table_init(n))
  BY Zenon DEF table_init, IsTable, Placed
<1>4. QED
  BY <1>1, <1>2, <1>3, Zenon DEF TableOK, UniqueKeys, StoreFacts, CountType

(* An entry is linked once in its table, in the bucket of its key. *)
LEMMA LinkedAt ==
  ASSUME StoreFacts, NEW t, TableOK(t), NEW e \in Linked(t)
  PROVE  /\ e \in Entry /\ e.key \in Keys
         /\ t.size # 0
         /\ Bucket(t, e.key) \in 0 .. t.size - 1
         /\ e \in t.buckets[Bucket(t, e.key)]
         /\ \A i \in 0 .. t.size - 1 : e \in t.buckets[i] => i = Bucket(t, e.key)
         /\ t.used >= 1 /\ t.used \in Nat
<1>1. PICK i \in DOMAIN t.buckets : e \in t.buckets[i]
  BY DEF Linked
<1>2. i \in 0 .. t.size - 1 /\ t.size \in Nat /\ t.buckets[i] \subseteq Entry
  BY Zenon DEF TableOK, IsTable
<1>3. e \in Entry /\ e.key \in Keys
  BY <1>1, <1>2, Zenon DEF Entry
<1>4. \A j \in 0 .. t.size - 1 : e \in t.buckets[j] => j = Bucket(t, e.key)
  BY Zenon DEF TableOK, Placed, IsTable
<1>5. t.used # 0 /\ t.used \in Nat
  BY Zenon DEF TableOK, IsTable, StoreFacts, CountType
<1>6. QED
  BY <1>1, <1>2, <1>3, <1>4, <1>5

(* Table u holds E, has the size of t, and counts d more entries. *)
Becomes(u, t, E, d) ==
  /\ TableOK(u)
  /\ Linked(u) = E
  /\ u.size = t.size
  /\ u.used = t.used + d

(* Bucket i of t may hold chain c; t then holds E, d entries more. *)
Fits(t, i, c, E, d) ==
  /\ TableOK(t)
  /\ i \in 0 .. t.size - 1
  /\ c \subseteq Entry
  /\ \A e \in c : Bucket(t, e.key) = i
  /\ E = (Linked(t) \ t.buckets[i]) \cup c
  /\ UniqueKeys(E)
  /\ IsFiniteSet(E)
  /\ d \in Int
  /\ Cardinality(E) = Cardinality(Linked(t)) + d

(* One chain and the counter changed together, as every operation on one   *)
(* bucket does, leave a consistent table.                                  *)
LEMMA RechainTable ==
  ASSUME StoreFacts, NEW t, NEW i, NEW c, NEW E, NEW d, Fits(t, i, c, E, d)
  PROVE  Becomes(Rechain(t, i, c, d), t, E, d)
<1> DEFINE u == Rechain(t, i, c, d)
<1> USE DEF Fits
<1>1. IsTable(t)
  BY Zenon DEF TableOK
<1>2. /\ u.size = t.size /\ u.used = t.used + d
      /\ u.buckets = [t.buckets EXCEPT ![i] = c]
  BY Zenon DEF Rechain
<1>3. u.used \in Nat /\ u.used = Cardinality(E)
  BY <1>2, Zenon DEF TableOK, StoreFacts, CountType
<1>4. IsTable(u)
  BY <1>1, <1>3, Zenon DEF IsTable, Rechain
<1> HIDE DEF u
<1>5. DOMAIN t.buckets = 0 .. t.size - 1 /\ DOMAIN u.buckets = 0 .. t.size - 1
  BY <1>1, <1>2, <1>4, Zenon DEF IsTable
<1>6. \A j \in 0 .. t.size - 1 :
        u.buckets[j] = IF j = i THEN c ELSE t.buckets[j]
  BY <1>2, <1>5, Zenon
<1>7. \A j \in 0 .. t.size - 1 : \A e \in t.buckets[j] : j = Bucket(t, e.key)
  BY <1>5, Zenon DEF TableOK, Placed
<1>8. Linked(u) = E
  <2>1. ASSUME NEW e \in E PROVE e \in Linked(u)
    <3>1. CASE e \in c
      BY <1>5, <1>6, <3>1, Zenon DEF Linked
    <3>2. CASE e \in Linked(t) /\ e \notin t.buckets[i]
      <4>1. PICK j \in 0 .. t.size - 1 : e \in t.buckets[j]
        BY <1>5, <3>2, Zenon DEF Linked
      <4>2. e \in u.buckets[j]
        BY <1>6, <3>2, <4>1, Zenon
      <4>3. QED
        BY <1>5, <4>2, Zenon DEF Linked
    <3>3. QED
      BY <2>1, <3>1, <3>2, Zenon
  <2>2. ASSUME NEW e \in Linked(u) PROVE e \in E
    <3>1. PICK j \in 0 .. t.size - 1 : e \in u.buckets[j]
      BY <1>5, Zenon DEF Linked
    <3>2. CASE j = i
      BY <1>6, <3>1, <3>2, Zenon
    <3>3. CASE j # i
      <4>1. e \in t.buckets[j]
        BY <1>6, <3>1, <3>3, Zenon
      <4>2. e \in Linked(t)
        BY <1>5, <4>1, Zenon DEF Linked
      <4>3. e \notin t.buckets[i]
        BY <1>7, <3>3, <4>1, Zenon
      <4>4. QED
        BY <4>2, <4>3, Zenon
    <3>4. QED
      BY <3>2, <3>3, Zenon
  <2>3. QED
    BY <2>1, <2>2, Zenon
<1>9. Placed(u)
  <2>1. \A k : Bucket(u, k) = Bucket(t, k)
    BY <1>2, Zenon DEF Bucket
  <2>2. ASSUME NEW j \in DOMAIN u.buckets, NEW e \in u.buckets[j]
        PROVE  j = Bucket(u, e.key)
    BY <1>5, <1>6, <1>7, <2>1, Zenon
  <2>3. QED
    BY <2>2, Zenon DEF Placed
<1>10. QED
  BY <1>2, <1>3, <1>4, <1>8, <1>9, Zenon DEF TableOK, Becomes, u

(* Linking a new entry in the bucket of its key, as store_set does. *)
LEMMA LinkTable ==
  ASSUME StoreFacts, NEW t, TableOK(t), t.size # 0, NEW e \in Entry,
         \A f \in Linked(t) : f.key # e.key
  PROVE  Becomes(Link(t, e), t, Linked(t) \cup {e}, 1)
<1> DEFINE b == Bucket(t, e.key)
           c == t.buckets[b] \cup {e}
           E == Linked(t) \cup {e}
<1>1. e.key \in Keys
  BY DEF Entry
<1>2. b \in 0 .. t.size - 1
  BY <1>1, BucketRange, Zenon DEF TableOK
<1>3. /\ t.buckets[b] \subseteq Entry /\ t.buckets[b] \subseteq Linked(t)
      /\ \A f \in t.buckets[b] : Bucket(t, f.key) = b
  BY <1>2 DEF TableOK, IsTable, Linked, Placed
<1>4. c \subseteq Entry /\ \A f \in c : Bucket(t, f.key) = b
  BY <1>3, Zenon
<1>5. E = (Linked(t) \ t.buckets[b]) \cup c
  BY <1>3, Zenon
<1>6. UniqueKeys(E)
  BY Zenon DEF TableOK, UniqueKeys
<1>7. IsFiniteSet(E) /\ Cardinality(E) = Cardinality(Linked(t)) + 1
  BY Zenon DEF TableOK, StoreFacts, AddCount
<1> HIDE DEF b, c, E
<1>8. Fits(t, b, c, E, 1)
  BY <1>2, <1>4, <1>5, <1>6, <1>7 DEF Fits
<1>9. QED
  BY <1>8, RechainTable, Zenon DEF Link, Chain, b, c, E

(* Unlinking an entry, as store_del and locate_live do. *)
LEMMA UnlinkTable ==
  ASSUME StoreFacts, NEW t, TableOK(t), NEW e \in Linked(t)
  PROVE  Becomes(Unlink(t, e), t, Linked(t) \ {e}, -1)
<1> DEFINE b == Bucket(t, e.key)
           c == t.buckets[b] \ {e}
           E == Linked(t) \ {e}
<1>1. b \in 0 .. t.size - 1
  BY LinkedAt, Zenon
<1>2. /\ t.buckets[b] \subseteq Entry /\ t.buckets[b] \subseteq Linked(t)
      /\ \A f \in t.buckets[b] : Bucket(t, f.key) = b
  BY <1>1 DEF TableOK, IsTable, Linked, Placed
<1>3. e \in t.buckets[b]
  BY LinkedAt, Zenon
<1>4. c \subseteq Entry /\ \A f \in c : Bucket(t, f.key) = b
  BY <1>2, Zenon
<1>5. E = (Linked(t) \ t.buckets[b]) \cup c
  BY <1>2, <1>3, Zenon
<1>6. UniqueKeys(E)
  BY DEF TableOK, UniqueKeys
<1>7. IsFiniteSet(E) /\ Cardinality(E) = Cardinality(Linked(t)) + (-1)
  BY Zenon DEF TableOK, StoreFacts, CountType, RemoveCount
<1> HIDE DEF b, c, E
<1>8. Fits(t, b, c, E, -1)
  BY <1>1, <1>4, <1>5, <1>6, <1>7 DEF Fits
<1>9. QED
  BY <1>8, RechainTable, Zenon DEF Unlink, Chain, b, c, E

(* Overwriting an entry under its own key: store_set on a key that is      *)
(* there, store_expire, store_incrby.                                      *)
LEMMA RewriteTable ==
  ASSUME StoreFacts, NEW t, TableOK(t), NEW e \in Linked(t), NEW f \in Entry, f.key = e.key
  PROVE  Becomes(Rewrite(t, e, f), t, (Linked(t) \ {e}) \cup {f}, 0)
<1> DEFINE b == Bucket(t, e.key)
           c == (t.buckets[b] \ {e}) \cup {f}
           E == (Linked(t) \ {e}) \cup {f}
<1>1. b \in 0 .. t.size - 1
  BY LinkedAt, Zenon
<1>2. /\ t.buckets[b] \subseteq Entry /\ t.buckets[b] \subseteq Linked(t)
      /\ \A g \in t.buckets[b] : Bucket(t, g.key) = b
  BY <1>1 DEF TableOK, IsTable, Linked, Placed
<1>3. e \in t.buckets[b]
  BY LinkedAt, Zenon
<1>4. c \subseteq Entry /\ \A g \in c : Bucket(t, g.key) = b
  BY <1>2, Zenon
<1>5. f \notin Linked(t) \ {e}
  BY DEF TableOK, UniqueKeys
<1>6. E = (Linked(t) \ t.buckets[b]) \cup c
  BY <1>2, <1>3, Zenon
<1>7. UniqueKeys(E)
  BY Zenon DEF TableOK, UniqueKeys
<1>8. /\ IsFiniteSet(Linked(t) \ {e})
      /\ Cardinality(Linked(t) \ {e}) = Cardinality(Linked(t)) - 1
      /\ Cardinality(Linked(t)) \in Nat
  BY Zenon DEF TableOK, StoreFacts, CountType, RemoveCount
<1>9. /\ IsFiniteSet(E)
      /\ Cardinality(E) = Cardinality(Linked(t) \ {e}) + 1
  BY <1>5, <1>8, Zenon DEF StoreFacts, AddCount
<1>10. Cardinality(E) = Cardinality(Linked(t)) + 0
  BY <1>8, <1>9
<1> HIDE DEF b, c, E
<1>11. Fits(t, b, c, E, 0)
  BY <1>1, <1>4, <1>6, <1>7, <1>9, <1>10 DEF Fits
<1>12. QED
  BY <1>11, RechainTable, Zenon DEF Rewrite, Chain, b, c, E

(* What rehash_step leaves in ht[0] when it has moved the chain of a       *)
(* bucket.                                                                 *)
LEMMA DrainTable ==
  ASSUME StoreFacts, NEW t, TableOK(t), NEW i \in 0 .. t.size - 1
  PROVE  /\ Becomes(Drained(t, i), t, Linked(t) \ t.buckets[i],
                     -Cardinality(t.buckets[i]))
         /\ t.buckets[i] \subseteq Linked(t)
         /\ IsFiniteSet(t.buckets[i])
<1> DEFINE E == Linked(t) \ t.buckets[i]
           n == Cardinality(t.buckets[i])
<1>1. t.buckets[i] \subseteq Linked(t)
  BY Zenon DEF TableOK, IsTable, Linked
<1>2. IsFiniteSet(t.buckets[i]) /\ n \in Nat
  BY <1>1, Zenon DEF TableOK, StoreFacts, CountType, SubsetCount
<1>3. Linked(t) \cap t.buckets[i] = t.buckets[i]
  BY <1>1, Zenon
<1>4. /\ IsFiniteSet(E)
      /\ Cardinality(E) = Cardinality(Linked(t)) - n
      /\ Cardinality(Linked(t)) \in Nat
  <2>1. /\ IsFiniteSet(E)
        /\ Cardinality(E)
             = Cardinality(Linked(t)) - Cardinality(Linked(t) \cap t.buckets[i])
    <3>1. IsFiniteSet(Linked(t))
      BY DEF TableOK
    <3>2. QED
      BY <3>1, Zenon DEF StoreFacts, DifferenceCount
  <2>2. QED
    BY <1>3, <2>1, Zenon DEF TableOK, StoreFacts, CountType
<1>5. UniqueKeys(E)
  BY Zenon DEF TableOK, UniqueKeys
<1>6. E = (Linked(t) \ t.buckets[i]) \cup {}
  OBVIOUS
<1> HIDE DEF E, n
<1>7. -n \in Int /\ Cardinality(E) = Cardinality(Linked(t)) + (-n)
  BY <1>2, <1>4
<1>8. Fits(t, i, {}, E, -n)
  BY <1>4, <1>5, <1>6, <1>7, Zenon DEF Fits
<1>9. QED
  BY <1>1, <1>2, <1>8, RechainTable, Zenon DEF Drained, E, n

(* What rehash_step makes of ht[1] with the chain of that bucket. *)
LEMMA AbsorbTable ==
  ASSUME StoreFacts, NEW t, TableOK(t), t.size # 0,
         NEW c, c \subseteq Entry, IsFiniteSet(c), c \cap Linked(t) = {},
         UniqueKeys(Linked(t) \cup c)
  PROVE  Becomes(Absorbed(t, c), t, Linked(t) \cup c, Cardinality(c))
<1> DEFINE u == Absorbed(t, c)
<1>1. IsTable(t)
  BY Zenon DEF TableOK
<1>2. DOMAIN t.buckets = 0 .. t.size - 1 /\ t.size \in Nat
  BY <1>1, Zenon DEF IsTable
<1>3. /\ u.size = t.size /\ u.used = t.used + Cardinality(c)
      /\ u.buckets = [i \in 0 .. t.size - 1 |->
                        t.buckets[i] \cup {e \in c : Bucket(t, e.key) = i}]
  BY <1>2, Zenon DEF Absorbed
<1>4. /\ IsFiniteSet(Linked(t) \cup c)
      /\ Cardinality(Linked(t) \cup c) = t.used + Cardinality(c)
      /\ Cardinality(Linked(t) \cup c) \in Nat
  <2>1. /\ IsFiniteSet(Linked(t) \cup c)
        /\ Cardinality(Linked(t) \cup c) = Cardinality(Linked(t)) + Cardinality(c)
              - Cardinality(Linked(t) \cap c)
    BY Zenon DEF TableOK, StoreFacts, UnionCount
  <2>2. Cardinality(Linked(t) \cap c) = 0
    BY Zenon DEF StoreFacts, CountType
  <2>3. Cardinality(Linked(t)) \in Nat /\ Cardinality(c) \in Nat
    BY Zenon DEF TableOK, StoreFacts, CountType
  <2>4. QED
    BY <2>1, <2>2, <2>3 DEF TableOK
<1>5. u.buckets \in [0 .. t.size - 1 -> SUBSET Entry]
  BY <1>1, <1>3, Zenon DEF IsTable
<1>6. IsTable(u)
  BY <1>2, <1>3, <1>4, <1>5, Zenon DEF IsTable, Absorbed
<1> HIDE DEF u
<1>7. DOMAIN u.buckets = 0 .. t.size - 1
  BY <1>3, Zenon
<1>8. \A e \in c : Bucket(t, e.key) \in 0 .. t.size - 1
  <2>1. \A e \in c : e.key \in Keys
    BY DEF Entry
  <2>2. QED
    BY <1>1, <2>1, BucketRange, Zenon
<1>9. Linked(u) = Linked(t) \cup c
  <2>1. ASSUME NEW e \in Linked(t) \cup c PROVE e \in Linked(u)
    <3>1. CASE e \in c
      <4>1. e \in u.buckets[Bucket(t, e.key)]
        BY <1>3, <1>8, <3>1, Zenon
      <4>2. QED
        BY <1>7, <1>8, <3>1, <4>1, Zenon DEF Linked
    <3>2. CASE e \in Linked(t)
      <4>1. PICK i \in 0 .. t.size - 1 : e \in t.buckets[i]
        BY <1>2, <3>2, Zenon DEF Linked
      <4>2. e \in u.buckets[i]
        BY <1>3, <4>1, Zenon
      <4>3. QED
        BY <1>7, <4>2, Zenon DEF Linked
    <3>3. QED
      BY <3>1, <3>2, Zenon
  <2>2. ASSUME NEW e \in Linked(u) PROVE e \in Linked(t) \cup c
    <3>1. PICK i \in 0 .. t.size - 1 : e \in u.buckets[i]
      BY <1>7, Zenon DEF Linked
    <3>2. e \in t.buckets[i] \/ e \in c
      BY <1>3, <3>1, Zenon
    <3>3. QED
      BY <1>2, <3>2, Zenon DEF Linked
  <2>3. QED
    BY <2>1, <2>2, Zenon
<1>10. Placed(u)
  <2>1. \A k : Bucket(u, k) = Bucket(t, k)
    BY <1>3, Zenon DEF Bucket
  <2>2. ASSUME NEW i \in DOMAIN u.buckets, NEW e \in u.buckets[i]
        PROVE  i = Bucket(t, e.key)
    BY <1>2, <1>3, <1>7 DEF TableOK, Placed
  <2>3. QED
    BY <2>1, <2>2, Zenon DEF Placed
<1>11. QED
  BY <1>3, <1>4, <1>6, <1>9, <1>10, Zenon DEF TableOK, Becomes, u
-----------------------------------------------------------------------------
(* The inductive invariant, of a store value.  A store is idle or in a     *)
(* rehash; that the buckets below the cursor are empty is said of where    *)
(* ht[0]'s entries belong, so that it does not depend on the buckets.      *)
Shape(st) ==
  /\ st = [ht |-> st.ht, rehash_idx |-> st.rehash_idx]
  /\ st.ht = [t \in 0 .. 1 |-> st.ht[t]]

AtRest(st) ==
  /\ st.rehash_idx = NULL
  /\ st.ht[1] = table_init(0)
  /\ st.ht[0].used < st.ht[0].size

Rehashing(st) ==
  /\ st.rehash_idx \in 0 .. st.ht[0].size - 1
  /\ st.ht[1].size = 2 * st.ht[0].size
  /\ \A e \in Linked(st.ht[0]) : Bucket(st.ht[0], e.key) >= st.rehash_idx
  /\ st.ht[0].used + st.ht[1].used <= st.ht[0].size + st.rehash_idx

StoreInv(st) ==
  /\ Shape(st)
  /\ TableOK(st.ht[0])
  /\ TableOK(st.ht[1])
  /\ Linked(st.ht[0]) \cap Linked(st.ht[1]) = {}
  /\ UniqueKeys(Contents(st))
  /\ IsPow2(st.ht[0].size)
  /\ AtRest(st) \/ Rehashing(st)

(* Putting a table in a store changes that table and nothing else. *)
LEMMA PutTable ==
  ASSUME NEW st, Shape(st), NEW t \in 0 .. 1, NEW u
  PROVE  /\ Shape(WithTable(st, t, u))
         /\ WithTable(st, t, u).rehash_idx = st.rehash_idx
         /\ WithTable(st, t, u).ht[t] = u
         /\ \A v \in 0 .. 1 : v # t => WithTable(st, t, u).ht[v] = st.ht[v]
<1> DEFINE r == WithTable(st, t, u)
<1>1. r = [ht |-> [st.ht EXCEPT ![t] = u], rehash_idx |-> st.rehash_idx]
  BY DEF Shape, WithTable
<1> HIDE DEF r
<1>2. r.ht = [st.ht EXCEPT ![t] = u] /\ r.rehash_idx = st.rehash_idx
  BY <1>1, Zenon
<1>3. r.ht[t] = u /\ \A v \in 0 .. 1 : v # t => r.ht[v] = st.ht[v]
  BY <1>2, Zenon DEF Shape
<1>4. r.ht = [v \in 0 .. 1 |-> r.ht[v]]
  BY <1>2, Zenon DEF Shape
<1>5. QED
  BY <1>1, <1>2, <1>3, <1>4, Zenon DEF Shape, r

(* store_create yields a consistent store without entries. *)
LEMMA CreateInv ==
  ASSUME StoreFacts
  PROVE  StoreInv(store_create) /\ Contents(store_create) = {}
<1> DEFINE st == store_create
<1>1. /\ Shape(st) /\ st.rehash_idx = NULL
      /\ st.ht[0] = table_init(STORE_INITIAL_SIZE)
      /\ st.ht[1] = table_init(0)
  BY DEF store_create, Shape
<1>2. IsPow2(STORE_INITIAL_SIZE) /\ STORE_INITIAL_SIZE \in Nat /\ STORE_INITIAL_SIZE > 0
  BY SizesAssumption DEF IsPow2
<1> HIDE DEF st
<1>3. /\ TableOK(st.ht[0]) /\ Linked(st.ht[0]) = {} /\ st.ht[0].used = 0
      /\ st.ht[0].size = STORE_INITIAL_SIZE
  BY <1>1, <1>2, TableInit, Zenon
<1>4. TableOK(st.ht[1]) /\ Linked(st.ht[1]) = {}
  BY <1>1, TableInit, Zenon
<1>5. Contents(st) = {}
  BY <1>3, <1>4, Zenon DEF Contents
<1>6. AtRest(st)
  BY <1>1, <1>2, <1>3, Zenon DEF AtRest
<1>7. QED
  BY <1>1, <1>2, <1>3, <1>4, <1>5, <1>6, Zenon DEF StoreInv, UniqueKeys, st

(* What the invariant says of the numbers. *)
LEMMA InvNumbers ==
  ASSUME StoreFacts, NEW st, StoreInv(st)
  PROVE  /\ st.ht[0].size \in Nat \ {0} /\ st.ht[0].used \in Nat
         /\ st.ht[1].size \in Nat /\ st.ht[1].used \in Nat
         /\ st.rehash_idx \in Int
         /\ is_rehashing(st) <=> Rehashing(st)
         /\ ~is_rehashing(st) <=> AtRest(st)
         /\ AtRest(st) => Linked(st.ht[1]) = {}
<1>1. /\ st.ht[0].size \in Nat \ {0} /\ st.ht[0].used \in Nat
      /\ st.ht[1].size \in Nat /\ st.ht[1].used \in Nat
  BY Zenon DEF StoreInv, IsPow2, TableOK, IsTable
<1>2. AtRest(st) => Linked(st.ht[1]) = {}
  BY TableInit, Zenon DEF AtRest
<1>3. QED
  BY <1>1, <1>2 DEF StoreInv, AtRest, Rehashing, is_rehashing, NULL

(* A lookup finds exactly the entry held under the key. *)
LEMMA FindSlot ==
  ASSUME StoreFacts, NEW st, StoreInv(st), NEW k \in Keys
  PROVE  LET t == find_slot_either(st, k) IN
         /\ t = NULL <=> \A e \in Contents(st) : e.key # k
         /\ t # NULL =>
              /\ t \in 0 .. 1
              /\ At(st, t, k) \in Linked(st.ht[t])
              /\ At(st, t, k) \in Contents(st)
              /\ At(st, t, k).key = k
              /\ {e \in Contents(st) : e.key = k} = {At(st, t, k)}
<1> DEFINE t == find_slot_either(st, k)
<1>1. /\ find_in_table(st.ht[0], k) = {e \in Linked(st.ht[0]) : e.key = k}
      /\ find_in_table(st.ht[1], k) = {e \in Linked(st.ht[1]) : e.key = k}
  BY FindInTable, Zenon DEF StoreInv
<1>2. ~is_rehashing(st) => Linked(st.ht[1]) = {}
  BY InvNumbers, Zenon
<1>3. t \in {0, 1, NULL} /\ NULL \notin {0, 1}
  BY DEF find_slot_either, NULL
<1>4. t = NULL <=> \A e \in Contents(st) : e.key # k
  BY <1>1, <1>2 DEF find_slot_either, Contents, NULL
<1>5. ASSUME t # NULL
      PROVE  find_in_table(st.ht[t], k) # {} /\ t \in 0 .. 1
  BY <1>3, <1>5 DEF find_slot_either
<1>6. ASSUME t # NULL
      PROVE  At(st, t, k) \in Linked(st.ht[t]) /\ At(st, t, k).key = k
  <2>1. At(st, t, k) \in find_in_table(st.ht[t], k)
    BY <1>5, <1>6, Zenon DEF At
  <2>2. t = 0 \/ t = 1
    BY <1>5, <1>6
  <2>3. QED
    BY <1>1, <2>1, <2>2, Zenon
<1>7. ASSUME t # NULL
      PROVE  At(st, t, k) \in Contents(st)
  BY <1>5, <1>6, <1>7 DEF Contents
<1>8. ASSUME t # NULL
      PROVE  {e \in Contents(st) : e.key = k} = {At(st, t, k)}
  BY <1>6, <1>7, <1>8, Zenon DEF StoreInv, UniqueKeys
<1>9. QED
  BY <1>4, <1>5, <1>6, <1>7, <1>8, Zenon

(* The tables keep their sizes and the rehash its place. *)
SameSizes(r, st) ==
  /\ r.ht[0].size = st.ht[0].size
  /\ r.ht[1].size = st.ht[1].size
  /\ r.rehash_idx = st.rehash_idx

(* Table t of st may become u, which holds E; the store then holds C. *)
Changes(st, t, u, E, d, C) ==
  /\ t \in 0 .. 1
  /\ d \in {-1, 0}
  /\ Becomes(u, st.ht[t], E, d)
  /\ C = (Contents(st) \ Linked(st.ht[t])) \cup E
  /\ UniqueKeys(C)
  /\ \A e \in E : \E f \in Linked(st.ht[t]) : f.key = e.key
  /\ Linked(st.ht[t]) # {}

(* Changing table t so that no key is added to it keeps the invariant. *)
LEMMA ChangeTable ==
  ASSUME StoreFacts, NEW st, StoreInv(st), NEW t, NEW u, NEW E, NEW d, NEW C,
         Changes(st, t, u, E, d, C)
  PROVE  /\ StoreInv(WithTable(st, t, u))
         /\ Contents(WithTable(st, t, u)) = C
         /\ SameSizes(WithTable(st, t, u), st)
<1> USE DEF Changes
<1> DEFINE r == WithTable(st, t, u)
<1>1. /\ Shape(r) /\ r.rehash_idx = st.rehash_idx /\ r.ht[t] = u
      /\ \A v \in 0 .. 1 : v # t => r.ht[v] = st.ht[v]
  BY PutTable DEF StoreInv
<1> HIDE DEF r
<1>2. /\ TableOK(u) /\ Linked(u) = E /\ u.size = st.ht[t].size
      /\ u.used = st.ht[t].used + d
  BY Zenon DEF Becomes
<1>3. /\ TableOK(st.ht[0]) /\ TableOK(st.ht[1])
      /\ Linked(st.ht[0]) \cap Linked(st.ht[1]) = {}
  BY Zenon DEF StoreInv
<1>4. \A v \in 0 .. 1 : v # t => Linked(r.ht[v]) = Linked(st.ht[v])
  BY <1>1, Zenon
<1>5. Linked(r.ht[t]) = E
  BY <1>1, <1>2, Zenon
<1>6. t = 0 \/ t = 1
  OBVIOUS
<1>7. Contents(r) = C
  BY <1>3, <1>4, <1>5, <1>6 DEF Contents
<1>8. SameSizes(r, st)
  BY <1>1, <1>2, <1>6 DEF SameSizes
<1>9. TableOK(r.ht[0]) /\ TableOK(r.ht[1])
  BY <1>1, <1>2, <1>3, <1>6
<1>10. Linked(r.ht[0]) \cap Linked(r.ht[1]) = {}
  <2>1. \A v \in 0 .. 1 : \A e \in E, f \in Linked(st.ht[v]) : v # t => e # f
    <3> SUFFICES ASSUME NEW v \in 0 .. 1, NEW e \in E, e \in Linked(st.ht[v]), v # t
                 PROVE  FALSE
      BY Zenon
    <3>1. PICK f \in Linked(st.ht[t]) : f.key = e.key
      BY Zenon
    <3>2. e \in Contents(st) /\ f \in Contents(st)
      BY <1>6 DEF Contents
    <3>3. e = f
      BY <3>1, <3>2, Zenon DEF StoreInv, UniqueKeys
    <3>4. QED
      BY <1>3, <1>6, <3>3
  <2>2. QED
    BY <1>4, <1>5, <1>6, <2>1
<1>11. CASE AtRest(st)
  <2>1. t = 0
    BY <1>6, <1>11, TableInit, Zenon DEF AtRest
  <2>2. st.ht[0].used + d < st.ht[0].size
    BY <1>11, InvNumbers DEF AtRest
  <2>3. AtRest(r)
    BY <1>1, <1>2, <1>11, <2>1, <2>2 DEF AtRest
  <2>4. QED
    BY <1>1, <1>7, <1>8, <1>9, <1>10, <2>3, Zenon DEF StoreInv, SameSizes, r
<1>12. CASE Rehashing(st)
  <2>1. \A e \in Linked(r.ht[0]) : Bucket(r.ht[0], e.key) >= st.rehash_idx
    <3>1. \A k : Bucket(r.ht[0], k) = Bucket(st.ht[0], k)
      BY <1>8, Zenon DEF SameSizes, Bucket
    <3>2. \A e \in Linked(st.ht[0]) : Bucket(st.ht[0], e.key) >= st.rehash_idx
      BY <1>12, Zenon DEF Rehashing
    <3>3. CASE t = 0
      BY <1>5, <3>1, <3>2, <3>3, Zenon
    <3>4. CASE t = 1
      BY <1>4, <3>1, <3>2, <3>4
    <3>5. QED
      BY <1>6, <3>3, <3>4, Zenon
  <2>2. r.ht[0].used + r.ht[1].used <= r.ht[0].size + r.rehash_idx
    <3>1. r.ht[0].used + r.ht[1].used = st.ht[0].used + st.ht[1].used + d
      BY <1>1, <1>2, <1>6, InvNumbers
    <3>2. st.ht[0].used + st.ht[1].used <= st.ht[0].size + st.rehash_idx
      BY <1>12, Zenon DEF Rehashing
    <3>3. /\ st.ht[0].used + st.ht[1].used \in Int
          /\ st.ht[0].size + st.rehash_idx \in Int
      BY InvNumbers
    <3>4. \A p, q \in Int : p <= q => p + d <= q
      OBVIOUS
    <3>5. QED
      BY <1>8, <3>1, <3>2, <3>3, <3>4, Zenon DEF SameSizes
  <2>3. Rehashing(r)
    BY <1>8, <1>12, <2>1, <2>2, Zenon DEF Rehashing, SameSizes
  <2>4. QED
    BY <1>1, <1>7, <1>8, <1>9, <1>10, <2>3, Zenon DEF StoreInv, SameSizes, r
<1>13. QED
  BY <1>11, <1>12, Zenon DEF StoreInv

(* A store stays consistent when one of its entries is unlinked (store_del *)
(* and the lazy expiry of locate_live).                                    *)
LEMMA UnlinkStore ==
  ASSUME StoreFacts, NEW st, StoreInv(st), NEW t \in 0 .. 1, NEW e \in Linked(st.ht[t])
  PROVE  LET r == WithTable(st, t, Unlink(st.ht[t], e)) IN
         StoreInv(r) /\ Contents(r) = Contents(st) \ {e} /\ SameSizes(r, st)
<1> DEFINE E == Linked(st.ht[t]) \ {e}
           C == (Contents(st) \ Linked(st.ht[t])) \cup E
<1>1. t = 0 \/ t = 1
  OBVIOUS
<1>2. TableOK(st.ht[t])
  BY <1>1, Zenon DEF StoreInv
<1>3. Becomes(Unlink(st.ht[t], e), st.ht[t], E, -1)
  BY <1>2, UnlinkTable, Zenon
<1>4. Linked(st.ht[t]) \subseteq Contents(st)
  BY <1>1, Zenon DEF Contents
<1>5. C = Contents(st) \ {e}
  BY <1>4, Zenon
<1>6. UniqueKeys(C)
  BY <1>5, Zenon DEF StoreInv, UniqueKeys
<1>7. \A f \in E : \E g \in Linked(st.ht[t]) : g.key = f.key
  BY Zenon
<1> HIDE DEF E, C
<1>8. -1 \in {-1, 0} /\ Linked(st.ht[t]) # {}
  OBVIOUS
<1>9. Changes(st, t, Unlink(st.ht[t], e), E, -1, C)
  BY <1>3, <1>6, <1>7, <1>8, Zenon DEF Changes, C
<1>10. QED
  BY <1>5, <1>9, ChangeTable, Zenon

(* A store stays consistent when one of its entries is overwritten. *)
LEMMA RewriteStore ==
  ASSUME StoreFacts, NEW st, StoreInv(st), NEW t \in 0 .. 1, NEW e \in Linked(st.ht[t]),
         NEW f \in Entry, f.key = e.key
  PROVE  LET r == WithTable(st, t, Rewrite(st.ht[t], e, f)) IN
         /\ StoreInv(r)
         /\ Contents(r) = (Contents(st) \ {e}) \cup {f}
         /\ SameSizes(r, st)
<1> DEFINE E == (Linked(st.ht[t]) \ {e}) \cup {f}
           C == (Contents(st) \ Linked(st.ht[t])) \cup E
<1>1. t = 0 \/ t = 1
  OBVIOUS
<1>2. TableOK(st.ht[t])
  BY <1>1, Zenon DEF StoreInv
<1>3. Becomes(Rewrite(st.ht[t], e, f), st.ht[t], E, 0)
  BY <1>2, RewriteTable, Zenon
<1>4. Linked(st.ht[t]) \subseteq Contents(st)
  BY <1>1, Zenon DEF Contents
<1>5. C = (Contents(st) \ {e}) \cup {f}
  BY <1>4, Zenon
<1>6. UniqueKeys(C)
  BY <1>4, <1>5, Zenon DEF StoreInv, UniqueKeys
<1>7. \A g \in E : \E h \in Linked(st.ht[t]) : h.key = g.key
  BY Zenon
<1> HIDE DEF E, C
<1>8. 0 \in {-1, 0} /\ Linked(st.ht[t]) # {}
  BY Zenon
<1>9. Changes(st, t, Rewrite(st.ht[t], e, f), E, 0, C)
  BY <1>3, <1>6, <1>7, <1>8, Zenon DEF Changes, C
<1>10. QED
  BY <1>5, <1>9, ChangeTable, Zenon

(* The fields maybe_start_rehash sets when the load factor has reached 1. *)
LEMMA StartFields ==
  ASSUME StoreFacts, NEW st, Shape(st), ~is_rehashing(st), ~(st.ht[0].used < st.ht[0].size),
         IsPow2(st.ht[0].size)
  PROVE  LET r == maybe_start_rehash(st) IN
         /\ Shape(r) /\ r.rehash_idx = 0 /\ r.ht[0] = st.ht[0]
         /\ r.ht[1] = table_init(2 * st.ht[0].size)
<1> DEFINE r == maybe_start_rehash(st)
           u == table_init(2 * st.ht[0].size)
<1>1. r = [st EXCEPT !.ht[1] = u, !.rehash_idx = 0]
  BY NextPow2, Zenon DEF maybe_start_rehash
<1> HIDE DEF u
<1>2. r = [ht |-> [st.ht EXCEPT ![1] = u], rehash_idx |-> 0]
  BY <1>1, Zenon DEF Shape
<1> HIDE DEF r
<1>3. r.ht = [st.ht EXCEPT ![1] = u] /\ r.rehash_idx = 0
  BY <1>2, Zenon
<1>4. r.ht[0] = st.ht[0] /\ r.ht[1] = u /\ r.ht = [t \in 0 .. 1 |-> r.ht[t]]
  BY <1>3 DEF Shape
<1>5. QED
  BY <1>2, <1>3, <1>4, Zenon DEF Shape, r, u

(* The fields a migration of bucket i sets. *)
LEMMA MigrateFields ==
  ASSUME NEW st, Shape(st), NEW i
  PROVE  LET r == Migrate(st, i) IN
         /\ Shape(r) /\ r.rehash_idx = i + 1
         /\ r.ht[0] = Drained(st.ht[0], i)
         /\ r.ht[1] = Absorbed(st.ht[1], st.ht[0].buckets[i])
<1> DEFINE r == Migrate(st, i)
           u == Drained(st.ht[0], i)
           v == Absorbed(st.ht[1], st.ht[0].buckets[i])
<1>1. r = [st EXCEPT !.ht[0] = u, !.ht[1] = v, !.rehash_idx = i + 1]
  BY DEF Migrate
<1> HIDE DEF u, v
<1>2. r = [ht |-> [st.ht EXCEPT ![0] = u, ![1] = v], rehash_idx |-> i + 1]
  BY <1>1, Zenon DEF Shape
<1> HIDE DEF r
<1>3. r.ht = [st.ht EXCEPT ![0] = u, ![1] = v] /\ r.rehash_idx = i + 1
  BY <1>2, Zenon
<1>4. r.ht[0] = u /\ r.ht[1] = v /\ r.ht = [t \in 0 .. 1 |-> r.ht[t]]
  BY <1>3 DEF Shape
<1>5. QED
  BY <1>2, <1>3, <1>4, Zenon DEF Shape, r, u, v

(* The fields of a store whose cursor alone has moved. *)
LEMMA CursorFields ==
  ASSUME NEW st, Shape(st), NEW i
  PROVE  LET r == [st EXCEPT !.rehash_idx = i] IN
         Shape(r) /\ r.rehash_idx = i /\ r.ht = st.ht
<1>1. [st EXCEPT !.rehash_idx = i] = [ht |-> st.ht, rehash_idx |-> i]
  BY DEF Shape
<1>2. QED
  BY <1>1, Zenon DEF Shape

(* Room for one more entry in the middle of a rehash. *)
Slack(st) ==
  Rehashing(st) =>
    st.ht[0].used + st.ht[1].used < st.ht[0].size + st.rehash_idx

(* An insert keeps a store consistent that has room for it: into ht[1]     *)
(* during a rehash, else into ht[0], starting a rehash when that is full.  *)
LEMMA InsertStore ==
  ASSUME StoreFacts, NEW st, StoreInv(st), Slack(st), NEW e \in Entry,
         \A f \in Contents(st) : f.key # e.key
  PROVE  LET r == Insert(st, e) IN
         /\ StoreInv(r)
         /\ Contents(r) = Contents(st) \cup {e}
         /\ r.ht[0].size = st.ht[0].size
         /\ is_rehashing(st) => r.rehash_idx = st.rehash_idx
<1> DEFINE r == Insert(st, e)
<1>1. /\ Shape(st) /\ TableOK(st.ht[0]) /\ TableOK(st.ht[1])
      /\ Linked(st.ht[0]) \cap Linked(st.ht[1]) = {}
      /\ IsPow2(st.ht[0].size)
  BY Zenon DEF StoreInv
<1>2. UniqueKeys(Contents(st) \cup {e})
  BY Zenon DEF StoreInv, UniqueKeys
<1>3. /\ Linked(st.ht[0]) \subseteq Contents(st)
      /\ Linked(st.ht[1]) \subseteq Contents(st)
      /\ e \notin Contents(st)
  BY Zenon DEF Contents
<1>4. CASE is_rehashing(st)
  <2> DEFINE u == Link(st.ht[1], e)
  <2>1. Rehashing(st)
    BY <1>4, InvNumbers, Zenon
  <2>2. st.ht[1].size # 0
    BY <2>1, InvNumbers DEF Rehashing
  <2>3. /\ TableOK(u) /\ Linked(u) = Linked(st.ht[1]) \cup {e}
        /\ u.size = st.ht[1].size /\ u.used = st.ht[1].used + 1
    BY <1>1, <1>3, <2>2, LinkTable, Zenon DEF Becomes
  <2>4. r = WithTable(st, 1, u)
    BY <1>4 DEF Insert
  <2> HIDE DEF u
  <2>5. /\ Shape(r) /\ r.rehash_idx = st.rehash_idx
        /\ r.ht[0] = st.ht[0] /\ r.ht[1] = u
    BY <1>1, <2>4, PutTable
  <2> HIDE DEF r
  <2>6. Contents(r) = Contents(st) \cup {e}
    BY <2>3, <2>5, Zenon DEF Contents
  <2>7. Linked(r.ht[0]) \cap Linked(r.ht[1]) = {}
    BY <1>1, <1>3, <2>3, <2>5, Zenon
  <2>8. r.ht[0].used + r.ht[1].used <= r.ht[0].size + r.rehash_idx
    BY <2>1, <2>3, <2>5, InvNumbers DEF Slack
  <2>9. Rehashing(r)
    BY <2>1, <2>3, <2>5, <2>8, Zenon DEF Rehashing
  <2>10. QED
    BY <1>1, <1>2, <2>3, <2>5, <2>6, <2>7, <2>9, Zenon DEF StoreInv, r
<1>5. CASE ~is_rehashing(st)
  <2> DEFINE u == Link(st.ht[0], e)
             m == WithTable(st, 0, u)
  <2>1. AtRest(st) /\ Linked(st.ht[1]) = {}
    BY <1>5, InvNumbers, Zenon
  <2>2. /\ TableOK(u) /\ Linked(u) = Linked(st.ht[0]) \cup {e}
        /\ u.size = st.ht[0].size /\ u.used = st.ht[0].used + 1
    BY <1>1, <1>3, InvNumbers, LinkTable, Zenon DEF Becomes
  <2>3. r = maybe_start_rehash(m)
    BY <1>5 DEF Insert
  <2> HIDE DEF u
  <2>4. /\ Shape(m) /\ m.rehash_idx = st.rehash_idx
        /\ m.ht[0] = u /\ m.ht[1] = st.ht[1]
    BY <1>1, PutTable
  <2> HIDE DEF m
  <2>5. ~is_rehashing(m)
    BY <1>5, <2>4, Zenon DEF is_rehashing
  <2>6. CASE u.used < u.size
    <3>1. r = m
      BY <2>3, <2>4, <2>6 DEF maybe_start_rehash
    <3>2. Contents(r) = Contents(st) \cup {e}
      BY <2>2, <2>4, <3>1, Zenon DEF Contents
    <3>3. AtRest(r)
      BY <2>1, <2>4, <2>6, <3>1, Zenon DEF AtRest
    <3>4. Linked(r.ht[0]) \cap Linked(r.ht[1]) = {}
      BY <2>1, <2>4, <3>1, Zenon
    <3> HIDE DEF r
    <3>5. QED
      BY <1>1, <1>2, <1>5, <2>2, <2>4, <3>1, <3>2, <3>3, <3>4, Zenon DEF StoreInv, r
  <2>7. CASE ~(u.used < u.size)
    <3>1. /\ Shape(r) /\ r.rehash_idx = 0 /\ r.ht[0] = u
          /\ r.ht[1] = table_init(2 * u.size)
      BY <1>1, <2>2, <2>3, <2>4, <2>5, <2>7, StartFields, Zenon
    <3> HIDE DEF r
    <3>2. u.size \in Nat \ {0} /\ u.used \in Nat /\ u.used = u.size
      BY <2>1, <2>2, <2>7, InvNumbers DEF AtRest
    <3>3. /\ TableOK(r.ht[1]) /\ Linked(r.ht[1]) = {}
          /\ r.ht[1].size = 2 * u.size /\ r.ht[1].used = 0
      <4> DEFINE n == 2 * u.size
      <4>1. n \in Nat
        BY <3>2
      <4>2. r.ht[1] = table_init(n)
        BY <3>1
      <4> HIDE DEF n
      <4>3. /\ TableOK(r.ht[1]) /\ Linked(r.ht[1]) = {}
            /\ r.ht[1].size = n /\ r.ht[1].used = 0
        BY <4>1, <4>2, TableInit, ZenonT(40)
      <4>4. QED
        BY <4>3, Zenon DEF n
    <3>4. Contents(r) = Contents(st) \cup {e}
      BY <2>1, <2>2, <3>1, <3>3, Zenon DEF Contents
    <3>5. \A f \in Linked(u) : Bucket(u, f.key) >= 0
      BY <2>2, LinkedAt
    <3>6. Rehashing(r)
      BY <3>1, <3>2, <3>3, <3>5 DEF Rehashing
    <3>7. TableOK(r.ht[0]) /\ IsPow2(r.ht[0].size) /\ r.ht[0].size = st.ht[0].size
      BY <1>1, <2>2, <3>1, Zenon DEF StoreInv
    <3>8. StoreInv(r)
      BY <1>2, <3>1, <3>3, <3>4, <3>6, <3>7, Zenon DEF StoreInv
    <3>9. QED
      BY <1>5, <3>4, <3>7, <3>8, Zenon DEF r
  <2>8. QED
    BY <2>6, <2>7, Zenon
<1>6. QED
  BY <1>4, <1>5, Zenon

(* The store between the loop of rehash_step and its test for the end: m   *)
(* holds what st holds, with nothing left below a cursor that has moved.   *)
Advanced(m, st) ==
  /\ Shape(m) /\ TableOK(m.ht[0]) /\ TableOK(m.ht[1])
  /\ Linked(m.ht[0]) \cap Linked(m.ht[1]) = {}
  /\ Contents(m) = Contents(st)
  /\ m.ht[0].size = st.ht[0].size /\ m.ht[1].size = st.ht[1].size
  /\ m.ht[0].used + m.ht[1].used = st.ht[0].used + st.ht[1].used
  /\ m.rehash_idx \in st.rehash_idx + 1 .. st.ht[0].size
  /\ \A e \in Linked(m.ht[0]) : Bucket(m.ht[0], e.key) >= m.rehash_idx

(* A rehash under way is further on, or over with the larger table in      *)
(* place; otherwise none has begun.                                        *)
Moved(r, st) ==
  IF is_rehashing(st)
  THEN \/ r.ht[0].size = st.ht[0].size /\ r.rehash_idx > st.rehash_idx
       \/ r.ht[0].size = st.ht[1].size /\ ~is_rehashing(r)
  ELSE r.ht[0].size = st.ht[0].size /\ ~is_rehashing(r)

(* A rehash step ends in a store that holds the same entries, has room for *)
(* one more and, if st was in a rehash, is further on.                     *)
Stepped(r, st) ==
  /\ StoreInv(r) /\ Slack(r)
  /\ Contents(r) = Contents(st)
  /\ Moved(r, st)

(* The end of a rehash step: the tables are swapped when ht[0] is drained, *)
(* which holds no entry then.                                              *)
LEMMA FinishStore ==
  ASSUME StoreFacts, NEW st, StoreInv(st), is_rehashing(st), NEW m, Advanced(m, st)
  PROVE  Stepped(FinishRehash(m), st)
<1> DEFINE r == FinishRehash(m)
<1> USE DEF Advanced
<1>1. Rehashing(st) /\ IsPow2(st.ht[0].size) /\ UniqueKeys(Contents(st))
  BY InvNumbers, Zenon DEF StoreInv
<1>2. /\ m.ht[0].size \in Nat \ {0} /\ m.ht[1].size = 2 * m.ht[0].size
      /\ m.ht[0].used \in Nat /\ m.ht[1].used \in Nat
      /\ m.rehash_idx \in Nat /\ st.rehash_idx \in Nat
      /\ m.ht[0].used + m.ht[1].used < m.ht[0].size + m.rehash_idx
      /\ m.ht[0].used + m.ht[1].used < m.ht[1].size
      /\ m.rehash_idx > st.rehash_idx
  <2>1. m.ht[0].used \in Nat /\ m.ht[1].used \in Nat
    BY Zenon DEF TableOK, IsTable
  <2>2. /\ st.rehash_idx \in 0 .. st.ht[0].size - 1
        /\ st.ht[1].size = 2 * st.ht[0].size
        /\ st.ht[0].used + st.ht[1].used <= st.ht[0].size + st.rehash_idx
        /\ st.ht[0].size \in Nat \ {0}
        /\ st.ht[0].used \in Nat /\ st.ht[1].used \in Nat
    BY <1>1, InvNumbers, Zenon DEF Rehashing
  <2>3. /\ m.ht[0].size = st.ht[0].size /\ m.ht[1].size = st.ht[1].size
        /\ m.ht[0].used + m.ht[1].used = st.ht[0].used + st.ht[1].used
        /\ m.rehash_idx \in st.rehash_idx + 1 .. st.ht[0].size
    BY Zenon
  <2> HIDE DEF Advanced
  <2>4. QED
    BY <2>1, <2>2, <2>3, SMTT(30)
<1>3. CASE m.rehash_idx >= m.ht[0].size
  <2>1. Linked(m.ht[0]) = {}
    BY <1>2, <1>3, LinkedAt
  <2>2. m.ht[0].used = 0
    BY <2>1, Zenon DEF TableOK, StoreFacts, CountType
  <2>3. r = [ht |-> [t \in 0 .. 1 |-> IF t = 0 THEN m.ht[1] ELSE table_init(0)],
             rehash_idx |-> NULL]
    BY <1>3, Zenon DEF FinishRehash
  <2>4. /\ Shape(r) /\ r.ht[0] = m.ht[1] /\ r.ht[1] = table_init(0)
        /\ r.rehash_idx = NULL
    BY <2>3 DEF Shape
  <2> HIDE DEF r
  <2>5. TableOK(r.ht[1]) /\ Linked(r.ht[1]) = {}
    BY <2>4, TableInit, ZenonT(40)
  <2>6. Contents(r) = Contents(st)
    BY <2>1, <2>4, <2>5, Zenon DEF Contents
  <2>7. IsPow2(r.ht[0].size)
    BY <1>1, <1>2, <2>4, NextPow2, Zenon
  <2>8. AtRest(r) /\ ~Rehashing(r)
    BY <1>2, <2>2, <2>4 DEF AtRest, Rehashing, NULL
  <2>9. StoreInv(r)
    BY <1>1, <2>4, <2>5, <2>6, <2>7, <2>8, Zenon DEF StoreInv
  <2>10. QED
    BY <2>4, <2>6, <2>8, <2>9, Zenon DEF Stepped, Moved, is_rehashing, Slack, r
<1>4. CASE ~(m.rehash_idx >= m.ht[0].size)
  <2>1. r = m
    BY <1>4, Zenon DEF FinishRehash
  <2> HIDE DEF r
  <2>2. Rehashing(r)
    BY <1>2, <1>4, <2>1, SMTT(30) DEF Rehashing
  <2>3. StoreInv(r)
    BY <1>1, <2>1, <2>2, Zenon DEF StoreInv
  <2>4. QED
    BY <1>2, <2>1, <2>3, Zenon DEF Stepped, Moved, Slack, r
<1>5. QED
  BY <1>3, <1>4, Zenon

(* A rehash step keeps the store consistent, keeps what it holds, and      *)
(* moves the cursor on or ends the rehash.                                 *)
LEMMA RehashStep ==
  ASSUME StoreFacts, NEW st, StoreInv(st)
  PROVE  Stepped(rehash_step(st), st)
<1>1. CASE ~is_rehashing(st)
  BY <1>1, InvNumbers, Zenon DEF Stepped, Moved, Slack, rehash_step
<1>2. CASE is_rehashing(st)
  <2> DEFINE w == WindowEnd(st)
  <2>1. /\ Rehashing(st) /\ st.rehash_idx \in 0 .. st.ht[0].size - 1
        /\ st.ht[0].size \in Nat \ {0} /\ st.ht[1].size \in Nat \ {0}
        /\ st.ht[0].used \in Nat /\ st.ht[1].used \in Nat
    BY <1>2, InvNumbers DEF Rehashing
  <2>2. w \in st.rehash_idx + 1 .. st.ht[0].size
    <3> DEFINE a == st.ht[0].size
               b == st.rehash_idx + REHASH_EMPTY_VISITS_LIMIT
    <3>1. a \in Int /\ b \in Int /\ a > st.rehash_idx /\ b > st.rehash_idx
      BY <2>1, SizesAssumption
    <3>2. w = Min({a, b})
      BY DEF WindowEnd
    <3> HIDE DEF a, b, w
    <3>3. Min({a, b}) = IF a <= b THEN a ELSE b
      BY <3>1, MinIs, SMTT(30)
    <3>4. QED
      BY <2>1, <3>1, <3>2, <3>3 DEF a
  <2>3. /\ Shape(st) /\ TableOK(st.ht[0]) /\ TableOK(st.ht[1])
        /\ Linked(st.ht[0]) \cap Linked(st.ht[1]) = {}
        /\ UniqueKeys(Contents(st))
        /\ \A e \in Linked(st.ht[0]) : Bucket(st.ht[0], e.key) >= st.rehash_idx
    BY <2>1, Zenon DEF StoreInv, Rehashing
  <2>4. CASE Filled(st) = {}
    <3> DEFINE m == [st EXCEPT !.rehash_idx = w]
    <3>1. /\ Shape(m) /\ m.rehash_idx = w /\ m.ht[0] = st.ht[0]
          /\ m.ht[1] = st.ht[1]
      BY <2>3, CursorFields, Zenon
    <3>2. rehash_step(st) = FinishRehash(m)
      BY <1>2, <2>4 DEF rehash_step
    <3> HIDE DEF m
    <3>3. ASSUME NEW e \in Linked(st.ht[0])
          PROVE  Bucket(st.ht[0], e.key) >= w
      <4>1. /\ Bucket(st.ht[0], e.key) \in 0 .. st.ht[0].size - 1
            /\ e \in st.ht[0].buckets[Bucket(st.ht[0], e.key)]
        BY <2>3, LinkedAt, Zenon
      <4>2. Bucket(st.ht[0], e.key) \notin st.rehash_idx .. w - 1
        BY <2>4, <4>1, Zenon DEF Filled
      <4> HIDE DEF w
      <4>3. QED
        BY <2>1, <2>2, <2>3, <4>1, <4>2, SMTT(30)
    <3> HIDE DEF w
    <3>4. Advanced(m, st)
      BY <2>2, <2>3, <3>1, <3>3, Zenon DEF Advanced, Contents
    <3>5. QED
      BY <1>2, <3>2, <3>4, FinishStore
  <2>5. CASE Filled(st) # {}
    <3> DEFINE i == Min(Filled(st))
               m == Migrate(st, i)
               c == st.ht[0].buckets[i]
               n == Cardinality(c)
    <3>1. /\ i \in Filled(st) /\ \A j \in Filled(st) : i <= j
      <4>1. Filled(st) \in SUBSET Nat
        BY <2>1, <2>2 DEF Filled
      <4>2. QED
        BY <2>5, <4>1, MinNat
    <3>2. rehash_step(st) = FinishRehash(m)
      BY <1>2, <2>5 DEF rehash_step
    <3>3. /\ Shape(m) /\ m.rehash_idx = i + 1
          /\ m.ht[0] = Drained(st.ht[0], i) /\ m.ht[1] = Absorbed(st.ht[1], c)
      BY <2>3, MigrateFields, Zenon
    <3>4. i \in st.rehash_idx .. w - 1 /\ i \in 0 .. st.ht[0].size - 1
      <4>1. i \in st.rehash_idx .. w - 1
        BY <3>1, Zenon DEF Filled
      <4> HIDE DEF i, w
      <4>2. QED
        BY <2>1, <2>2, <4>1
    <3>5. \A j \in st.rehash_idx .. i - 1 : st.ht[0].buckets[j] = {}
      <4> SUFFICES ASSUME NEW j \in st.rehash_idx .. i - 1, j \notin Filled(st)
                   PROVE  st.ht[0].buckets[j] = {}
        <5> HIDE DEF i
        <5>1. QED
          BY <2>1, <3>1, <3>4
      <4> HIDE DEF i
      <4>1. j \in st.rehash_idx .. w - 1
        <5> HIDE DEF w
        <5>1. QED
          BY <2>1, <2>2, <3>4, SMTT(30)
      <4>2. QED
        BY <4>1, Zenon DEF Filled
    <3> HIDE DEF i, m, w
    <3>6. /\ Becomes(m.ht[0], st.ht[0], Linked(st.ht[0]) \ c, -n)
          /\ c \subseteq Linked(st.ht[0]) /\ IsFiniteSet(c)
      BY <2>3, <3>3, <3>4, DrainTable, ZenonT(40)
    <3>7. n \in Nat
      BY <3>6, Zenon DEF StoreFacts, CountType
    <3>8. \A e \in c : Bucket(st.ht[0], e.key) = i
      BY <2>3, <3>4, <3>6, LinkedAt, Zenon
    <3>9. Becomes(m.ht[1], st.ht[1], Linked(st.ht[1]) \cup c, n)
      <4>1. c \subseteq Entry /\ c \cap Linked(st.ht[1]) = {}
        BY <2>3, <3>6, LinkedAt, Zenon
      <4>2. UniqueKeys(Linked(st.ht[1]) \cup c)
        BY <2>3, <3>6, Zenon DEF UniqueKeys, Contents
      <4>3. st.ht[1].size # 0
        BY <2>1, Zenon
      <4> HIDE DEF c
      <4>4. Becomes(Absorbed(st.ht[1], c), st.ht[1], Linked(st.ht[1]) \cup c,
                    Cardinality(c))
        <5>1. TableOK(st.ht[1]) /\ IsFiniteSet(c)
          BY <2>3, <3>6, Zenon
        <5>2. QED
          BY <4>1, <4>2, <4>3, <5>1, AbsorbTable, Zenon
      <4>5. QED
        BY <3>3, <4>4, Zenon
    <3> HIDE DEF n, c
    <3>10. /\ TableOK(m.ht[0]) /\ Linked(m.ht[0]) = Linked(st.ht[0]) \ c
           /\ m.ht[0].size = st.ht[0].size
           /\ m.ht[0].used = st.ht[0].used - n
           /\ TableOK(m.ht[1]) /\ Linked(m.ht[1]) = Linked(st.ht[1]) \cup c
           /\ m.ht[1].size = st.ht[1].size
           /\ m.ht[1].used = st.ht[1].used + n
      BY <2>1, <3>6, <3>7, <3>9, Zenon DEF Becomes
    <3>11. ASSUME NEW e \in Linked(m.ht[0])
           PROVE  Bucket(m.ht[0], e.key) >= i + 1
      <4>1. e \in Linked(st.ht[0]) /\ e \notin c
        BY <3>10, Zenon
      <4>2. /\ Bucket(st.ht[0], e.key) \in 0 .. st.ht[0].size - 1
            /\ e \in st.ht[0].buckets[Bucket(st.ht[0], e.key)]
        BY <2>3, <4>1, LinkedAt, Zenon
      <4>3. Bucket(st.ht[0], e.key) >= st.rehash_idx
        BY <2>3, <4>1, Zenon
      <4>4. Bucket(st.ht[0], e.key) # i
        BY <4>1, <4>2, Zenon DEF c
      <4>5. Bucket(st.ht[0], e.key) \notin st.rehash_idx .. i - 1
        BY <3>5, <4>2, Zenon
      <4>6. Bucket(m.ht[0], e.key) = Bucket(st.ht[0], e.key)
        BY <3>10, Zenon DEF Bucket
      <4>7. QED
        BY <2>1, <3>4, <4>2, <4>3, <4>4, <4>5, <4>6
    <3>12. Contents(m) = Contents(st)
      BY <3>6, <3>10, Zenon DEF Contents
    <3>13. Linked(m.ht[0]) \cap Linked(m.ht[1]) = {}
      BY <2>3, <3>10, Zenon
    <3>14. m.ht[0].used + m.ht[1].used = st.ht[0].used + st.ht[1].used
      BY <2>1, <3>7, <3>10
    <3>15. m.rehash_idx \in st.rehash_idx + 1 .. st.ht[0].size
      BY <2>1, <3>3, <3>4
    <3>16. \A e \in Linked(m.ht[0]) : Bucket(m.ht[0], e.key) >= m.rehash_idx
      BY <3>3, <3>11, Zenon
    <3>17. Advanced(m, st)
      BY <3>3, <3>10, <3>12, <3>13, <3>14, <3>15, <3>16, Zenon DEF Advanced
    <3>18. QED
      BY <1>2, <3>2, <3>17, FinishStore
  <2>6. QED
    BY <2>4, <2>5, Zenon
<1>3. QED
  BY <1>1, <1>2, Zenon
-----------------------------------------------------------------------------
(* What a call on key k does, said of the contents of a store.             *)
HeldIn(st, k)         == {e \in Contents(st) : e.key = k}
LiveHeldIn(st, k, at) == {e \in HeldIn(st, k) : ~Expired(e, at)}
PurgedIn(st, k, at)   == Contents(st) \ {e \in HeldIn(st, k) : Expired(e, at)}

(* What any call on a key leaves of the growth of the tables: an insert    *)
(* after the rehash step may have begun the next rehash.                   *)
Progress(r, st) ==
  IF is_rehashing(st)
  THEN \/ r.ht[0].size = st.ht[0].size /\ r.rehash_idx > st.rehash_idx
       \/ r.ht[0].size = st.ht[1].size
  ELSE r.ht[0].size = st.ht[0].size

(* The result l of locate_live after a rehash step. *)
Located(l, st, k, at) ==
  /\ StoreInv(l.s)
  /\ Moved(l.s, st)
  /\ Contents(l.s) = PurgedIn(st, k, at)
  /\ l.slot = NULL <=> LiveHeldIn(st, k, at) = {}
  /\ l.slot # NULL =>
       /\ l.slot \in 0 .. 1
       /\ At(l.s, l.slot, k) \in Linked(l.s.ht[l.slot])
       /\ At(l.s, l.slot, k) \in Entry
       /\ At(l.s, l.slot, k).key = k
       /\ HeldIn(st, k) = {At(l.s, l.slot, k)}
       /\ LiveHeldIn(st, k, at) = {At(l.s, l.slot, k)}
       /\ Contents(l.s) = Contents(st)

(* Every entry a store holds has its fields (store_entry_t). *)
LEMMA ContentsEntries ==
  ASSUME StoreFacts, NEW st, StoreInv(st)
  PROVE  Contents(st) \subseteq Entry
<1>1. TableOK(st.ht[0]) /\ TableOK(st.ht[1])
  BY Zenon DEF StoreInv
<1>2. Linked(st.ht[0]) \subseteq Entry /\ Linked(st.ht[1]) \subseteq Entry
  BY <1>1, LinkedAt, Zenon
<1>3. QED
  BY <1>2 DEF Contents

(* Changing entries in place leaves a rehash where the step took it. *)
LEMMA SameMoved ==
  ASSUME NEW r, NEW m, NEW st, SameSizes(r, m), Moved(m, st)
  PROVE  Moved(r, st) /\ Progress(r, st)
BY Zenon DEF SameSizes, Moved, Progress, is_rehashing

(* locate_live finds the live entry of the key, if there is one, and       *)
(* otherwise leaves no entry of the key that had expired.                  *)
LEMMA LocateLive ==
  ASSUME StoreFacts, NEW st, StoreInv(st), NEW k \in Keys, NEW at
  PROVE  Located(locate_live(rehash_step(st), k, at), st, k, at)
<1> DEFINE m == rehash_step(st)
           l == locate_live(m, k, at)
           t == find_slot_either(m, k)
           e == At(m, t, k)
<1>1. StoreInv(m) /\ Contents(m) = Contents(st) /\ Moved(m, st)
  BY RehashStep DEF Stepped
<1> HIDE DEF m
<1>2. /\ t = NULL <=> HeldIn(st, k) = {}
      /\ t # NULL => /\ t \in 0 .. 1 /\ e \in Linked(m.ht[t])
                     /\ e \in Contents(m) /\ e.key = k /\ HeldIn(st, k) = {e}
  BY <1>1, FindSlot, Zenon DEF HeldIn
<1>3. t # NULL => e \in Entry
  BY <1>1, <1>2, ContentsEntries, Zenon
<1>4. CASE t # NULL /\ Expired(e, at)
  <2> DEFINE r == WithTable(m, t, Unlink(m.ht[t], e))
  <2>1. l.s = r /\ l.slot = NULL
    BY <1>4, Zenon DEF locate_live
  <2>2. StoreInv(r) /\ Contents(r) = Contents(m) \ {e} /\ SameSizes(r, m)
    BY <1>1, <1>2, <1>4, UnlinkStore, Zenon
  <2> HIDE DEF r, l, t, e
  <2>3. Moved(r, st)
    BY <1>1, <2>2, SameMoved
  <2>4. LiveHeldIn(st, k, at) = {}
    BY <1>2, <1>4 DEF LiveHeldIn
  <2>5. PurgedIn(st, k, at) = Contents(st) \ {e}
    BY <1>2, <1>4 DEF PurgedIn
  <2>6. QED
    BY <1>1, <2>1, <2>2, <2>3, <2>4, <2>5, Zenon DEF Located, l, m
<1>5. CASE ~(t # NULL /\ Expired(e, at))
  <2>1. l.s = m /\ l.slot = t
    BY <1>5, Zenon DEF locate_live
  <2> HIDE DEF l, t
  <2>2. PurgedIn(st, k, at) = Contents(st)
    BY <1>2, <1>5 DEF PurgedIn
  <2>3. LiveHeldIn(st, k, at) = HeldIn(st, k)
    BY <1>2, <1>5 DEF LiveHeldIn
  <2>4. QED
    BY <1>1, <1>2, <1>3, <2>1, <2>2, <2>3, Zenon DEF Located, l, m
<1>6. QED
  BY <1>4, <1>5

(* The fields of a new entry. *)
LEMMA NewEntryType ==
  ASSUME NEW k \in Keys, NEW v \in Values, NEW x \in Int
  PROVE  NewEntry(k, v, x) \in Entry /\ NewEntry(k, v, x).key = k
BY DEF NewEntry, Entry

(* An insert leaves the rehash where the step before it took it, or starts *)
(* the next one.                                                           *)
LEMMA InsertProgress ==
  ASSUME StoreFacts, NEW r, NEW m, NEW st, Moved(m, st), r.ht[0].size = m.ht[0].size,
         is_rehashing(m) => r.rehash_idx = m.rehash_idx,
         StoreInv(st), StoreInv(m)
  PROVE  Progress(r, st)
<1>1. is_rehashing(st) => st.rehash_idx \in Nat
  BY InvNumbers DEF Rehashing
<1>2. CASE is_rehashing(m)
  BY <1>2, Zenon DEF Moved, Progress
<1>3. CASE ~is_rehashing(m)
  BY <1>1, <1>3 DEF Moved, Progress, is_rehashing, NULL
<1>4. QED
  BY <1>2, <1>3

(* store_set overwrites what is held under the key, expired or not, or     *)
(* adds the new entry.                                                     *)
LEMMA SetLaw ==
  ASSUME StoreFacts, NEW st, StoreInv(st), NEW k \in Keys, NEW v \in Values, NEW x \in Int
  PROVE  LET r == store_set(st, k, v, x) IN
         /\ StoreInv(r.s) /\ Progress(r.s, st)
         /\ Contents(r.s) = (Contents(st) \ HeldIn(st, k)) \cup {NewEntry(k, v, x)}
         /\ r.res = IF HeldIn(st, k) = {} THEN 1 ELSE 0
<1> DEFINE m == rehash_step(st)
           t == find_slot_either(m, k)
           e == At(m, t, k)
           f == NewEntry(k, v, x)
           r == store_set(st, k, v, x)
<1>1. StoreInv(m) /\ Contents(m) = Contents(st) /\ Moved(m, st) /\ Slack(m)
  BY RehashStep DEF Stepped
<1>2. r = IF t # NULL
          THEN [s |-> WithTable(m, t, Rewrite(m.ht[t], e, f)), res |-> 0]
          ELSE [s |-> Insert(m, f), res |-> 1]
  BY Zenon DEF store_set
<1> HIDE DEF m, r
<1>3. /\ t = NULL <=> HeldIn(st, k) = {}
      /\ t # NULL => /\ t \in 0 .. 1 /\ e \in Linked(m.ht[t])
                     /\ e.key = k /\ HeldIn(st, k) = {e}
  BY <1>1, FindSlot, Zenon DEF HeldIn
<1>4. f \in Entry /\ f.key = k
  BY NewEntryType
<1> HIDE DEF f
<1>5. CASE t # NULL
  <2> DEFINE u == WithTable(m, t, Rewrite(m.ht[t], e, f))
  <2>1. StoreInv(u) /\ Contents(u) = (Contents(m) \ {e}) \cup {f} /\ SameSizes(u, m)
    BY <1>1, <1>3, <1>4, <1>5, RewriteStore
  <2>2. r.s = u /\ r.res = 0
    BY <1>2, <1>5, Zenon
  <2> HIDE DEF u, t, e
  <2>3. Progress(u, st)
    BY <1>1, <2>1, SameMoved
  <2>4. QED
    BY <1>1, <1>3, <1>5, <2>1, <2>2, <2>3, ZenonT(40) DEF f, r
<1>6. CASE t = NULL
  <2>1. \A g \in Contents(m) : g.key # f.key
    BY <1>1, <1>3, <1>4, <1>6 DEF HeldIn
  <2> DEFINE u == Insert(m, f)
  <2>2. /\ StoreInv(u) /\ Contents(u) = Contents(m) \cup {f}
        /\ u.ht[0].size = m.ht[0].size
        /\ is_rehashing(m) => u.rehash_idx = m.rehash_idx
    BY <1>1, <1>4, <2>1, InsertStore, Zenon
  <2>3. r.s = u /\ r.res = 1
    BY <1>2, <1>6
  <2> HIDE DEF u, t
  <2>4. Progress(u, st)
    BY <1>1, <2>2, InsertProgress
  <2>5. QED
    BY <1>1, <1>3, <1>6, <2>2, <2>3, <2>4, Zenon DEF f, r
<1>7. QED
  BY <1>5, <1>6, Zenon

(* store_get and store_exists answer from the live entry of the key and    *)
(* drop one that has expired.                                              *)
LEMMA LookupLaw ==
  ASSUME StoreFacts, NEW st, StoreInv(st), NEW k \in Keys, NEW at
  PROVE  LET g == store_get(st, k, at)
             x == store_exists(st, k, at)
             L == LiveHeldIn(st, k, at)
         IN  /\ StoreInv(g.s) /\ Progress(g.s, st)
             /\ Contents(g.s) = PurgedIn(st, k, at)
             /\ x.s = g.s
             /\ g.res = {e.val : e \in L}
             /\ x.res = IF L = {} THEN 0 ELSE 1
<1> DEFINE l == locate_live(rehash_step(st), k, at)
           a == At(l.s, l.slot, k)
           L == LiveHeldIn(st, k, at)
<1>1. Located(l, st, k, at)
  BY LocateLive
<1>2. /\ store_get(st, k, at) =
            [s |-> l.s, res |-> IF l.slot = NULL THEN {} ELSE {a.val}]
      /\ store_exists(st, k, at) =
            [s |-> l.s, res |-> IF l.slot = NULL THEN 0 ELSE 1]
  BY Zenon DEF store_get, store_exists
<1> HIDE DEF l
<1>3. /\ StoreInv(l.s) /\ Moved(l.s, st) /\ Contents(l.s) = PurgedIn(st, k, at)
      /\ l.slot = NULL <=> L = {}
      /\ l.slot # NULL => L = {a}
  BY <1>1, Zenon DEF Located
<1>4. Progress(l.s, st)
  BY <1>3, Zenon DEF Moved, Progress
<1> HIDE DEF a, L
<1>5. CASE l.slot = NULL
  BY <1>2, <1>3, <1>4, <1>5, SMTT(30) DEF L
<1>6. CASE l.slot # NULL
  BY <1>2, <1>3, <1>4, <1>6 DEF L
<1>7. QED
  BY <1>5, <1>6, Zenon

(* store_ttl_ms does too, and reckons with its second reading of the clock. *)
LEMMA TtlLaw ==
  ASSUME StoreFacts, NEW st, StoreInv(st), NEW k \in Keys, NEW at, NEW later
  PROVE  LET r == store_ttl_ms(st, k, at, later)
             L == LiveHeldIn(st, k, at)
         IN  /\ StoreInv(r.s) /\ Progress(r.s, st)
             /\ Contents(r.s) = PurgedIn(st, k, at)
             /\ L = {} => r.res = {-2}
             /\ L # {} => r.res = {Remaining(e, later) : e \in L}
<1> DEFINE l == locate_live(rehash_step(st), k, at)
           a == At(l.s, l.slot, k)
           L == LiveHeldIn(st, k, at)
<1>1. Located(l, st, k, at)
  BY LocateLive
<1>2. store_ttl_ms(st, k, at, later) =
        [s |-> l.s, res |-> IF l.slot = NULL THEN {-2} ELSE {Remaining(a, later)}]
  BY Zenon DEF store_ttl_ms
<1> HIDE DEF l
<1>3. /\ StoreInv(l.s) /\ Moved(l.s, st) /\ Contents(l.s) = PurgedIn(st, k, at)
      /\ l.slot = NULL <=> L = {}
      /\ l.slot # NULL => L = {a}
  BY <1>1, Zenon DEF Located
<1>4. Progress(l.s, st)
  BY <1>3, Zenon DEF Moved, Progress
<1> HIDE DEF a, L
<1>5. L = {a} => {Remaining(e, later) : e \in L} = {Remaining(a, later)}
  BY Zenon
<1>6. QED
  BY <1>2, <1>3, <1>4, <1>5, SMTT(30) DEF L

(* store_del removes what is held under the key, expired or not. *)
LEMMA DelLaw ==
  ASSUME StoreFacts, NEW st, StoreInv(st), NEW k \in Keys
  PROVE  LET r == store_del(st, k) IN
         /\ StoreInv(r.s) /\ Progress(r.s, st)
         /\ Contents(r.s) = Contents(st) \ HeldIn(st, k)
         /\ r.res = IF HeldIn(st, k) = {} THEN 0 ELSE 1
<1> DEFINE m == rehash_step(st)
           t == find_slot_either(m, k)
           e == At(m, t, k)
           r == store_del(st, k)
<1>1. StoreInv(m) /\ Contents(m) = Contents(st) /\ Moved(m, st)
  BY RehashStep DEF Stepped
<1>2. r = IF t = NULL THEN [s |-> m, res |-> 0]
          ELSE [s |-> WithTable(m, t, Unlink(m.ht[t], e)), res |-> 1]
  BY Zenon DEF store_del
<1> HIDE DEF m, r
<1>3. /\ t = NULL <=> HeldIn(st, k) = {}
      /\ t # NULL => /\ t \in 0 .. 1 /\ e \in Linked(m.ht[t])
                     /\ HeldIn(st, k) = {e}
  BY <1>1, FindSlot, Zenon DEF HeldIn
<1>4. CASE t # NULL
  <2> DEFINE u == WithTable(m, t, Unlink(m.ht[t], e))
  <2>1. StoreInv(u) /\ Contents(u) = Contents(m) \ {e} /\ SameSizes(u, m)
    BY <1>1, <1>3, <1>4, UnlinkStore, Zenon
  <2>2. r.s = u /\ r.res = 1
    BY <1>2, <1>4
  <2> HIDE DEF u, t, e
  <2>3. Progress(u, st)
    BY <1>1, <2>1, SameMoved
  <2>4. QED
    BY <1>1, <1>3, <1>4, <2>1, <2>2, <2>3, SMTT(30) DEF r
<1>5. CASE t = NULL
  <2>1. Progress(m, st)
    BY <1>1, Zenon DEF Moved, Progress
  <2> HIDE DEF t
  <2>2. QED
    BY <1>1, <1>2, <1>3, <1>5, <2>1, SMTT(30) DEF r
<1>6. QED
  BY <1>4, <1>5, Zenon

(* Rewriting the live entry that locate_live found, as store_expire and    *)
(* store_incrby do.                                                        *)
LEMMA RewriteLive ==
  ASSUME StoreFacts, NEW st, StoreInv(st), NEW k \in Keys, NEW at, NEW l,
         Located(l, st, k, at), l.slot # NULL, NEW f \in Entry, f.key = k
  PROVE  LET r == WithTable(l.s, l.slot,
                    Rewrite(l.s.ht[l.slot], At(l.s, l.slot, k), f))
         IN  /\ StoreInv(r) /\ Progress(r, st)
             /\ Contents(r) = (Contents(st) \ HeldIn(st, k)) \cup {f}
<1> DEFINE a == At(l.s, l.slot, k)
           r == WithTable(l.s, l.slot, Rewrite(l.s.ht[l.slot], a, f))
<1>1. /\ StoreInv(l.s) /\ Moved(l.s, st) /\ Contents(l.s) = Contents(st)
      /\ l.slot \in 0 .. 1 /\ a \in Linked(l.s.ht[l.slot]) /\ a.key = k
      /\ HeldIn(st, k) = {a}
  BY ZenonT(40) DEF Located
<1> HIDE DEF a
<1>2. /\ StoreInv(r) /\ Contents(r) = (Contents(l.s) \ {a}) \cup {f}
      /\ SameSizes(r, l.s)
  <2>1. f.key = a.key
    BY <1>1, Zenon
  <2>2. QED
    BY <1>1, <2>1, RewriteStore
<1> HIDE DEF r
<1>3. Progress(r, st)
  BY <1>1, <1>2, SameMoved
<1>4. QED
  BY <1>1, <1>2, <1>3, Zenon DEF a, r

(* store_expire changes the expiry of a live entry and nothing else. *)
LEMMA ExpireLaw ==
  ASSUME StoreFacts, NEW st, StoreInv(st), NEW k \in Keys, NEW x \in Int, NEW at
  PROVE  LET r == store_expire(st, k, x, at)
             L == LiveHeldIn(st, k, at)
         IN  /\ StoreInv(r.s) /\ Progress(r.s, st)
             /\ Contents(r.s) = (Contents(st) \ HeldIn(st, k))
                                  \cup {NewEntry(k, e.val, x) : e \in L}
             /\ r.res = IF L = {} THEN 0 ELSE 1
<1> DEFINE l == locate_live(rehash_step(st), k, at)
           a == At(l.s, l.slot, k)
           f == NewEntry(k, a.val, x)
           u == WithTable(l.s, l.slot, Rewrite(l.s.ht[l.slot], a, f))
           L == LiveHeldIn(st, k, at)
           r == store_expire(st, k, x, at)
<1>1. Located(l, st, k, at)
  BY LocateLive
<1>2. r = IF l.slot = NULL THEN [s |-> l.s, res |-> 0] ELSE [s |-> u, res |-> 1]
  BY ZenonT(40) DEF store_expire
<1> HIDE DEF l, r
<1>3. CASE l.slot = NULL
  <2>1. /\ StoreInv(l.s) /\ Moved(l.s, st) /\ L = {}
        /\ Contents(l.s) = PurgedIn(st, k, at)
    BY <1>1, <1>3 DEF Located
  <2>2. Progress(l.s, st)
    BY <2>1, Zenon DEF Moved, Progress
  <2>3. PurgedIn(st, k, at) = Contents(st) \ HeldIn(st, k)
    BY <2>1 DEF PurgedIn, LiveHeldIn
  <2>4. QED
    BY <1>2, <1>3, <2>1, <2>2, <2>3, SMTT(30) DEF r
<1>4. CASE l.slot # NULL
  <2>1. a \in Entry /\ L = {a}
    BY <1>1, <1>4, Zenon DEF Located
  <2>2. a.val \in Values
    BY <2>1 DEF Entry
  <2>3. f \in Entry /\ f.key = k
    BY <2>2, NewEntryType
  <2>4. {NewEntry(k, e.val, x) : e \in L} = {f}
    BY <2>1
  <2> HIDE DEF f
  <2>5. /\ StoreInv(u) /\ Progress(u, st)
        /\ Contents(u) = (Contents(st) \ HeldIn(st, k)) \cup {f}
    BY <1>1, <1>4, <2>3, RewriteLive, SMTT(30)
  <2>6. r.s = u /\ r.res = 1
    BY <1>2, <1>4
  <2> HIDE DEF u, L
  <2>7. QED
    BY <2>1, <2>4, <2>5, <2>6, Zenon DEF r, L
<1>5. QED
  BY <1>3, <1>4, Zenon

(* The test made before the addition is exact, at both ends of the range   *)
(* (store_incrby's overflow check).                                        *)
LEMMA OverflowExact ==
  ASSUME NEW n \in Int64, NEW d \in Int64
  PROVE  WouldOverflow(n, d) <=> n + d \notin Int64
BY Int64Assumption DEF WouldOverflow, Int64

(* A call that follows the lookup's rehash step with a store_set. *)
LEMMA ProgressTwice ==
  ASSUME StoreFacts, NEW st, NEW m, NEW r, StoreInv(st), StoreInv(m), StoreInv(r),
         Moved(m, st), Progress(r, m)
  PROVE  Progress(r, st)
<1>1. CASE ~is_rehashing(m)
  <2>1. r.ht[0].size = m.ht[0].size
    BY <1>1 DEF Progress
  <2>2. is_rehashing(st) => st.rehash_idx \in Nat /\ m.rehash_idx = NULL
    BY <1>1, InvNumbers, SMTT(30) DEF Rehashing, is_rehashing
  <2>3. QED
    BY <1>1, <2>1, <2>2 DEF Moved, Progress, NULL
<1>2. CASE is_rehashing(m)
  <2>1. /\ is_rehashing(st) /\ m.ht[0].size = st.ht[0].size
        /\ m.rehash_idx > st.rehash_idx
    BY <1>2, Zenon DEF Moved
  <2>2. /\ m.ht[1].size = 2 * m.ht[0].size /\ st.ht[1].size = 2 * st.ht[0].size
        /\ m.rehash_idx \in Int /\ st.rehash_idx \in Int
    BY <1>2, <2>1, InvNumbers, Zenon DEF Rehashing
  <2>3. CASE r.ht[0].size = m.ht[0].size /\ r.rehash_idx > m.rehash_idx
    <3>1. r.rehash_idx \in Int
      BY InvNumbers, Zenon
    <3>2. r.rehash_idx > st.rehash_idx
      BY <2>1, <2>2, <2>3, <3>1, SMTT(30)
    <3>3. QED
      BY <2>1, <2>3, <3>2, Zenon DEF Progress
  <2>4. CASE r.ht[0].size = m.ht[1].size
    BY <2>1, <2>2, <2>4, Zenon DEF Progress
  <2>5. QED
    BY <1>2, <2>3, <2>4, Zenon DEF Progress
<1>3. QED
  BY <1>1, <1>2

(* The numbers an increment may start from, and the expiry it keeps, given *)
(* the live entries L of the key: 0 and none for a key that is absent.     *)
NumbersOf(L) == IF L = {} THEN {0}
                ELSE {ParseLL[e.val] : e \in {f \in L : f.val \in DOMAIN ParseLL}}
KeptOf(L)    == IF L = {} THEN {0} ELSE {e.expire_at_ms : e \in L}

(* An answer r of store_incrby: the exact sum is stored, or the number is  *)
(* left alone and r says why.                                              *)
Incremented(r, st, k, d, at) ==
  LET N == NumbersOf(LiveHeldIn(st, k, at))
      X == KeptOf(LiveHeldIn(st, k, at))
  IN  \/ /\ N = {}
         /\ Contents(r.s) = PurgedIn(st, k, at)
         /\ r.res = <<"not_integer">>
      \/ \E n \in N :
           /\ n + d \notin Int64
           /\ Contents(r.s) = PurgedIn(st, k, at)
           /\ r.res = <<"overflow">>
      \/ \E n \in N, x \in X :
           /\ n + d \in Int64
           /\ Contents(r.s) = (Contents(st) \ HeldIn(st, k))
                                \cup {NewEntry(k, FormatLL[n + d], x)}
           /\ r.res = <<"ok", n + d>>

LEMMA IncrLaw ==
  ASSUME StoreFacts, NEW st, StoreInv(st), NEW k \in Keys, NEW d \in Int64, NEW at
  PROVE  LET r == store_incrby(st, k, d, at) IN
         StoreInv(r.s) /\ Progress(r.s, st) /\ Incremented(r, st, k, d, at)
<1> DEFINE l == locate_live(rehash_step(st), k, at)
           a == At(l.s, l.slot, k)
           L == LiveHeldIn(st, k, at)
           n == IF l.slot = NULL THEN 0 ELSE ParseLL[a.val]
           v == FormatLL[n + d]
           u == WithTable(l.s, l.slot,
                  Rewrite(l.s.ht[l.slot], a, NewEntry(k, v, a.expire_at_ms)))
           w == store_set(l.s, k, v, 0).s
           r == store_incrby(st, k, d, at)
<1>1. Located(l, st, k, at)
  BY LocateLive, SMTT(30)
<1>2. r = IF l.slot # NULL /\ a.val \notin DOMAIN ParseLL
          THEN [s |-> l.s, res |-> <<"not_integer">>]
          ELSE IF WouldOverflow(n, d)
          THEN [s |-> l.s, res |-> <<"overflow">>]
          ELSE [s |-> IF l.slot = NULL THEN w ELSE u, res |-> <<"ok", n + d>>]
  BY ZenonT(40) DEF store_incrby
<1> HIDE DEF l, r, u, w
<1>3. /\ StoreInv(l.s) /\ Moved(l.s, st) /\ Contents(l.s) = PurgedIn(st, k, at)
      /\ l.slot = NULL <=> L = {}
      /\ l.slot # NULL => L = {a} /\ a \in Entry /\ HeldIn(st, k) = {a}
  BY <1>1, Zenon DEF Located
<1>4. Progress(l.s, st)
  BY <1>3, Zenon DEF Moved, Progress
<1> HIDE DEF a, L
<1>5. CASE l.slot # NULL /\ a.val \notin DOMAIN ParseLL
  <2>1. NumbersOf(L) = {}
    BY <1>3, <1>5 DEF NumbersOf
  <2>2. r.s = l.s /\ r.res = <<"not_integer">>
    BY <1>2, <1>5, Zenon
  <2>3. QED
    BY <1>3, <1>4, <2>1, <2>2, ZenonT(40) DEF L, r, Incremented
<1>6. CASE ~(l.slot # NULL /\ a.val \notin DOMAIN ParseLL)
  <2>1. n \in Int64 /\ n \in NumbersOf(L)
    BY <1>3, <1>6, Int64Assumption, NumbersAssumption, SMTT(30) DEF NumbersOf
  <2>2. WouldOverflow(n, d) <=> n + d \notin Int64
    BY <2>1, OverflowExact, SMTT(30)
  <2>3. CASE WouldOverflow(n, d)
    <3> HIDE DEF n
    <3>1. r.s = l.s /\ r.res = <<"overflow">>
      BY <1>2, <1>6, <2>3, SMTT(30)
    <3>2. QED
      BY <1>3, <1>4, <2>1, <2>2, <2>3, <3>1, Zenon DEF L, r, Incremented
  <2>4. CASE ~WouldOverflow(n, d)
    <3>1. n + d \in Int64
      BY <2>2, <2>4
    <3>2. v \in Values
      <4> HIDE DEF n
      <4>1. QED
        BY <3>1, NumbersAssumption, SMTT(30)
    <3> HIDE DEF n, v
    <3>3. CASE l.slot = NULL
      <4>1. r.s = w /\ r.res = <<"ok", n + d>>
        BY <1>2, <1>6, <2>4, <3>3, SMTT(30)
      <4>2. /\ StoreInv(w) /\ Progress(w, l.s)
            /\ Contents(w) = (Contents(l.s) \ HeldIn(l.s, k))
                               \cup {NewEntry(k, v, 0)}
        <5>1. 0 \in Int
          OBVIOUS
        <5>2. StoreInv(l.s)
          BY <1>3, Zenon
        <5>3. LET q == store_set(l.s, k, v, 0) IN
              /\ StoreInv(q.s) /\ Progress(q.s, l.s)
              /\ Contents(q.s) = (Contents(l.s) \ HeldIn(l.s, k))
                                   \cup {NewEntry(k, v, 0)}
              /\ q.res = IF HeldIn(l.s, k) = {} THEN 1 ELSE 0
          BY <3>2, <5>1, <5>2, SetLaw, Zenon
        <5>4. QED
          BY <5>3, Zenon DEF w
      <4>3. Progress(w, st)
        BY <1>3, <4>2, ProgressTwice
      <4>4. L = {}
        BY <1>3, <3>3
      <4>5. Contents(l.s) \ HeldIn(l.s, k) = Contents(st) \ HeldIn(st, k)
        BY <1>3 DEF HeldIn, PurgedIn
      <4>6. 0 \in KeptOf(L)
        BY <4>4, SMTT(30) DEF KeptOf
      <4>7. QED
        BY <2>1, <3>1, <4>1, <4>2, <4>3, <4>5, <4>6, Zenon DEF L, r, v, Incremented
    <3>4. CASE l.slot # NULL
      <4> DEFINE x == a.expire_at_ms
                 f == NewEntry(k, v, x)
      <4>1. r.s = u /\ r.res = <<"ok", n + d>>
        BY <1>2, <1>6, <2>4, <3>4, SMTT(30)
      <4>2. x \in KeptOf(L) /\ x \in Int
        BY <1>3, <3>4 DEF KeptOf, Entry
      <4>3. f \in Entry /\ f.key = k
        <5> HIDE DEF x
        <5>1. QED
          BY <3>2, <4>2, NewEntryType, SMTT(30)
      <4>4. u = WithTable(l.s, l.slot, Rewrite(l.s.ht[l.slot], At(l.s, l.slot, k), f))
        BY ZenonT(40) DEF u, a, v
      <4> HIDE DEF f
      <4>5. /\ StoreInv(u) /\ Progress(u, st)
            /\ Contents(u) = (Contents(st) \ HeldIn(st, k)) \cup {f}
        BY <1>1, <3>4, <4>3, <4>4, RewriteLive, SMTT(30)
      <4> HIDE DEF x
      <4>6. QED
        BY <2>1, <3>1, <4>1, <4>2, <4>5, Zenon DEF L, r, v, f, Incremented
    <3>5. QED
      BY <3>3, <3>4, Zenon
  <2>5. QED
    BY <2>3, <2>4, Zenon
<1>7. QED
  BY <1>5, <1>6, Zenon

(* store_size adds the two counters; between them they count the contents. *)
LEMMA SizeLaw ==
  ASSUME StoreFacts, NEW st, StoreInv(st)
  PROVE  /\ store_size(st) = Cardinality(Contents(st))
         /\ store_flush(st).s = store_create
         /\ store_flush(st).res = Cardinality(Contents(st))
<1>1. /\ IsFiniteSet(Linked(st.ht[0])) /\ IsFiniteSet(Linked(st.ht[1]))
      /\ st.ht[0].used = Cardinality(Linked(st.ht[0]))
      /\ st.ht[1].used = Cardinality(Linked(st.ht[1]))
      /\ Linked(st.ht[0]) \cap Linked(st.ht[1]) = {}
  BY Zenon DEF StoreInv, TableOK
<1>2. Cardinality(Contents(st)) = Cardinality(Linked(st.ht[0]))
        + Cardinality(Linked(st.ht[1]))
        - Cardinality(Linked(st.ht[0]) \cap Linked(st.ht[1]))
  BY <1>1, Zenon DEF Contents, StoreFacts, UnionCount
<1>3. /\ Cardinality(Linked(st.ht[0])) \in Nat
      /\ Cardinality(Linked(st.ht[1])) \in Nat
      /\ Cardinality(Linked(st.ht[0]) \cap Linked(st.ht[1])) = 0
  BY <1>1, Zenon DEF StoreFacts, CountType
<1>4. store_size(st) = Cardinality(Contents(st))
  BY <1>1, <1>2, <1>3 DEF store_size
<1>5. QED
  BY <1>4 DEF store_flush

(* store_foreach visits each live entry once, whichever table it is in. *)
LEMMA ForeachLaw ==
  ASSUME StoreFacts, NEW st, StoreInv(st), NEW at
  PROVE  LET live == {e \in Contents(st) : ~Expired(e, at)} IN
         /\ store_foreach(st, at).res = live
         /\ store_foreach(st, at).visits = Cardinality(live)
<1> DEFINE A == LiveLinked(st.ht[0], at)
           B == LiveLinked(st.ht[1], at)
           live == {e \in Contents(st) : ~Expired(e, at)}
<1>1. /\ IsFiniteSet(Linked(st.ht[0])) /\ IsFiniteSet(Linked(st.ht[1]))
      /\ Linked(st.ht[0]) \cap Linked(st.ht[1]) = {}
  BY Zenon DEF StoreInv, TableOK
<1>2. A \subseteq Linked(st.ht[0]) /\ B \subseteq Linked(st.ht[1])
  BY DEF LiveLinked
<1>3. IsFiniteSet(A) /\ IsFiniteSet(B) /\ A \cap B = {}
  BY <1>1, <1>2 DEF StoreFacts, SubsetCount
<1>4. live = A \cup B
  BY DEF LiveLinked, Contents
<1>5. /\ store_foreach(st, at).res = A \cup B
      /\ store_foreach(st, at).visits = Cardinality(A) + Cardinality(B)
  BY Zenon DEF store_foreach
<1> HIDE DEF A, B
<1>6. Cardinality(A \cup B) = Cardinality(A) + Cardinality(B) - Cardinality(A \cap B)
  BY <1>3 DEF StoreFacts, UnionCount
<1>7. /\ Cardinality(A) \in Nat /\ Cardinality(B) \in Nat
      /\ Cardinality(A \cap B) = 0
  BY <1>3, ZenonT(40) DEF StoreFacts, CountType
<1>8. Cardinality(A \cup B) = Cardinality(A) + Cardinality(B)
  BY <1>6, <1>7
<1>9. QED
  BY <1>4, <1>5, <1>8, SMTT(30)
=============================================================================
