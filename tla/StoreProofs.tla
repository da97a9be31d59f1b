---------------------------- MODULE StoreProofs ----------------------------
(***************************************************************************)
(* Theorems about Store, for every finite set of keys, every hash          *)
(* function, every initial size that is a power of two and every visit     *)
(* limit: its invariants, that rehashes move on, and that it implements    *)
(* the dictionary of KVStore.                                              *)
(***************************************************************************)
EXTENDS Store, StoreValueProofs

-----------------------------------------------------------------------------
Ops == {"create", "set", "get", "exists", "del", "expire", "ttl", "incrby",
        "flush", "size", "foreach"}

(* The inductive invariant of the state machine. *)
IInv == StoreInv(s) /\ now \in Times /\ ret.op \in Ops

(* The dictionary's operators, of the contents of the tables. *)
LEMMA Dictionary ==
  /\ KV!Int64 = Int64
  /\ \A S : KV!Cardinality(S) = Cardinality(S)
  /\ \A k, v, x : KV!NewEntry(k, v, x) = NewEntry(k, v, x)
  /\ \A e, at : KV!Expired(e, at) = Expired(e, at)
  /\ \A e, at : KV!Remaining(e, at) = Remaining(e, at)
  /\ \A k : KV!Held(k) = HeldIn(s, k)
  /\ \A k : KV!LiveHeld(k) = LiveHeldIn(s, k, now)
  /\ \A k : KV!Purged(k) = PurgedIn(s, k, now)
  /\ \A k : KV!Numbers(k) = NumbersOf(LiveHeldIn(s, k, now))
  /\ \A k : KV!Kept(k) = KeptOf(LiveHeldIn(s, k, now))
<1>1. KV!Int64 = Int64
  BY DEF KV!Int64, Int64
<1>2. \A k, v, x : KV!NewEntry(k, v, x) = NewEntry(k, v, x)
  BY DEF KV!NewEntry, NewEntry
<1>3. \A e, at : KV!Expired(e, at) = Expired(e, at)
  BY Zenon DEF KV!Expired, Expired
<1>4. \A e, at : KV!Remaining(e, at) = Remaining(e, at)
  BY DEF KV!Remaining, Remaining
<1>5. \A k : KV!Held(k) = HeldIn(s, k)
  BY DEF KV!Held, HeldIn
<1>6. \A k : KV!LiveHeld(k) = LiveHeldIn(s, k, now)
  BY <1>3, <1>5, Zenon DEF KV!LiveHeld, LiveHeldIn
<1>7. \A k : KV!Purged(k) = PurgedIn(s, k, now)
  BY <1>3, <1>5, Zenon DEF KV!Purged, PurgedIn
<1>8. \A k : KV!Numbers(k) = NumbersOf(LiveHeldIn(s, k, now))
  BY <1>6, Zenon DEF KV!Numbers, NumbersOf
<1>9. \A k : KV!Kept(k) = KeptOf(LiveHeldIn(s, k, now))
  BY <1>6, Zenon DEF KV!Kept, KeptOf
<1>10. \A S : KV!Cardinality(S) = Cardinality(S)
  BY Zenon DEF KV!Cardinality, Cardinality
<1>11. QED
  BY <1>1, <1>2, <1>3, <1>4, <1>5, <1>6, <1>7, <1>8, <1>9, <1>10, SMTT(30)

(* A call on a key keeps the invariant, moves a rehash on, and is the call *)
(* of the same name on the dictionary that the two tables stand for.       *)
LEMMA KeyCallStep ==
  ASSUME StoreFacts, IInv, KeyCall
  PROVE  IInv' /\ Progress(s', s) /\ KV!Next
<1> USE DEF IInv, Ops
<1> USE DEF KV!Returns
<1>1. ASSUME NEW k \in Keys, NEW v \in Values, NEW x \in Expiries, Set(k, v, x)
      PROVE  IInv' /\ Progress(s', s) /\ KV!Next
  <2>1. x \in Int
    BY ClockAssumption
  <2>2. /\ StoreInv(s') /\ Progress(s', s)
        /\ Contents(s)' = (Contents(s) \ HeldIn(s, k)) \cup {NewEntry(k, v, x)}
        /\ ret' = [op |-> "set", key |-> k,
                   res |-> IF HeldIn(s, k) = {} THEN 1 ELSE 0]
        /\ now' = now
    BY <1>1, <2>1, SetLaw DEF Set, Call
  <2>3. KV!Set(k, v, x)
    BY <2>2, Dictionary, Zenon DEF KV!Set
  <2>4. QED
    BY <2>2, <2>3, Zenon DEF KV!Next
<1>2. ASSUME NEW k \in Keys, Get(k)
      PROVE  IInv' /\ Progress(s', s) /\ KV!Next
  <2>1. /\ StoreInv(s') /\ Progress(s', s)
        /\ Contents(s)' = PurgedIn(s, k, now)
        /\ ret' = [op |-> "get", key |-> k,
                   res |-> {e.val : e \in LiveHeldIn(s, k, now)}]
        /\ now' = now
    BY <1>2, LookupLaw, Zenon DEF Get, Call
  <2>2. KV!Get(k)
    BY <2>1, Dictionary, Zenon DEF KV!Get
  <2>3. QED
    BY <2>1, <2>2, Zenon DEF KV!Next
<1>3. ASSUME NEW k \in Keys, Exists(k)
      PROVE  IInv' /\ Progress(s', s) /\ KV!Next
  <2>1. /\ StoreInv(s') /\ Progress(s', s)
        /\ Contents(s)' = PurgedIn(s, k, now)
        /\ ret' = [op |-> "exists", key |-> k,
                   res |-> IF LiveHeldIn(s, k, now) = {} THEN 0 ELSE 1]
        /\ now' = now
    BY <1>3, LookupLaw DEF Exists, Call
  <2>2. KV!Exists(k)
    BY <2>1, Dictionary, Zenon DEF KV!Exists
  <2>3. QED
    BY <2>1, <2>2, Zenon DEF KV!Next
<1>4. ASSUME NEW k \in Keys, Del(k)
      PROVE  IInv' /\ Progress(s', s) /\ KV!Next
  <2>1. /\ StoreInv(s') /\ Progress(s', s)
        /\ Contents(s)' = Contents(s) \ HeldIn(s, k)
        /\ ret' = [op |-> "del", key |-> k,
                   res |-> IF HeldIn(s, k) = {} THEN 0 ELSE 1]
        /\ now' = now
    BY <1>4, DelLaw, Zenon DEF Del, Call
  <2>2. KV!Del(k)
    BY <2>1, Dictionary, Zenon DEF KV!Del
  <2>3. QED
    BY <2>1, <2>2, Zenon DEF KV!Next
<1>5. ASSUME NEW k \in Keys, NEW x \in Expiries, Expire(k, x)
      PROVE  IInv' /\ Progress(s', s) /\ KV!Next
  <2>1. x \in Int
    BY ClockAssumption, Zenon
  <2>2. /\ StoreInv(s') /\ Progress(s', s)
        /\ Contents(s)' = (Contents(s) \ HeldIn(s, k))
              \cup {NewEntry(k, e.val, x) : e \in LiveHeldIn(s, k, now)}
        /\ ret' = [op |-> "expire", key |-> k,
                   res |-> IF LiveHeldIn(s, k, now) = {} THEN 0 ELSE 1]
        /\ now' = now
    <3> DEFINE r == store_expire(s, k, x, now)
    <3>1. /\ s' = r.s /\ now' = now
          /\ ret' = [op |-> "expire", key |-> k, res |-> r.res]
      BY <1>5, Zenon DEF Expire, Call
    <3>2. /\ StoreInv(r.s) /\ Progress(r.s, s)
          /\ Contents(r.s) = (Contents(s) \ HeldIn(s, k))
               \cup {NewEntry(k, e.val, x) : e \in LiveHeldIn(s, k, now)}
          /\ r.res = IF LiveHeldIn(s, k, now) = {} THEN 0 ELSE 1
      BY <2>1, ExpireLaw, Zenon
    <3> HIDE DEF r
    <3>3. QED
      BY <3>1, <3>2, Zenon
  <2>3. KV!Expire(k, x)
    BY <2>2, Dictionary, Zenon DEF KV!Expire
  <2>4. QED
    BY <2>2, <2>3, Zenon DEF KV!Next
<1>6. ASSUME NEW k \in Keys, NEW later \in Times, Ttl(k, later)
      PROVE  IInv' /\ Progress(s', s) /\ KV!Next
  <2>1. /\ StoreInv(s') /\ Progress(s', s)
        /\ Contents(s)' = PurgedIn(s, k, now)
        /\ ret' = [op |-> "ttl", key |-> k,
                   res |-> IF LiveHeldIn(s, k, now) = {} THEN {-2}
                           ELSE {Remaining(e, later) : e \in LiveHeldIn(s, k, now)}]
        /\ now' = later
    <3> DEFINE r == store_ttl_ms(s, k, now, later)
    <3>1. /\ s' = r.s /\ now' = later
          /\ ret' = [op |-> "ttl", key |-> k, res |-> r.res]
      BY <1>6, Zenon DEF Ttl, Call
    <3>2. /\ StoreInv(r.s) /\ Progress(r.s, s)
          /\ Contents(r.s) = PurgedIn(s, k, now)
          /\ LiveHeldIn(s, k, now) = {} => r.res = {-2}
          /\ LiveHeldIn(s, k, now) # {} =>
               r.res = {Remaining(e, later) : e \in LiveHeldIn(s, k, now)}
      BY TtlLaw
    <3> HIDE DEF r
    <3>3. QED
      BY <3>1, <3>2, Zenon
  <2>2. KV!Ttl(k, later)
    BY <2>1, Dictionary, Zenon DEF KV!Ttl
  <2>3. QED
    BY <2>1, <2>2, Zenon DEF KV!Next
<1>7. ASSUME NEW k \in Keys, NEW d \in Int64, IncrBy(k, d)
      PROVE  IInv' /\ Progress(s', s) /\ KV!Next
  <2> DEFINE r == store_incrby(s, k, d, now)
             N == NumbersOf(LiveHeldIn(s, k, now))
             X == KeptOf(LiveHeldIn(s, k, now))
  <2>1. /\ s' = r.s /\ now' = now
        /\ ret' = [op |-> "incrby", key |-> k, res |-> r.res]
    BY <1>7, Zenon DEF IncrBy, Call
  <2>2. StoreInv(s)
    OBVIOUS
  <2>3. /\ StoreInv(r.s) /\ Progress(r.s, s)
        /\ Incremented(r, s, k, d, now)
    BY <2>2, IncrLaw, Zenon
  <2>4. KV!Numbers(k) = N /\ KV!Kept(k) = X
    BY Dictionary, Zenon
  <2> HIDE DEF r, N, X
  <2>5. Contents(s)' = Contents(r.s)
    BY <2>1, Zenon
  <2>6. KV!IncrBy(k, d)
    BY <2>1, <2>3, <2>4, <2>5, Dictionary, Zenon DEF KV!IncrBy, Incremented, N, X
  <2>7. QED
    BY <2>1, <2>3, <2>6, Dictionary, Zenon DEF KV!Next
<1>8. QED
  BY <1>1, <1>2, <1>3, <1>4, <1>5, <1>6, <1>7, Zenon DEF KeyCall

(* Any step keeps the invariant and is a step of the dictionary. *)
LEMMA AnyStep ==
  ASSUME StoreFacts, IInv, [Next]_vars
  PROVE  IInv' /\ [KV!Next]_KV!vars
<1> USE DEF IInv
<1>1. CASE KeyCall
  BY <1>1, KeyCallStep
<1>2. CASE Flush
  <2>1. /\ s' = store_create /\ now' = now
        /\ ret' = [op |-> "flush", res |-> Cardinality(Contents(s))]
    BY <1>2, SizeLaw, Zenon DEF Flush
  <2>2. StoreInv(s') /\ Contents(s)' = {}
    BY <2>1, CreateInv
  <2>3. KV!Flush
    BY <2>1, <2>2, Dictionary, Zenon DEF KV!Flush
  <2>4. QED
    BY <2>1, <2>2, <2>3 DEF KV!Next, Ops
<1>3. CASE Size
  <2>1. /\ s' = s /\ now' = now
        /\ ret' = [op |-> "size", res |-> Cardinality(Contents(s))]
    BY <1>3, SizeLaw DEF Size
  <2>2. KV!Size
    BY <2>1, Dictionary, Zenon DEF KV!Size
  <2>3. QED
    BY <2>1, <2>2, Zenon DEF KV!Next, Ops
<1>4. CASE Foreach
  <2> DEFINE live == {e \in Contents(s) : ~Expired(e, now)}
  <2>1. /\ s' = s /\ now' = now
        /\ ret' = [op |-> "foreach", res |-> live, visits |-> Cardinality(live)]
    BY <1>4, ForeachLaw, Zenon DEF Foreach
  <2>2. live = {e \in Contents(s) : ~KV!Expired(e, now)}
    BY Dictionary, ZenonT(40)
  <2> HIDE DEF live
  <2>3. KV!Foreach
    BY <2>1, <2>2, Dictionary, Zenon DEF KV!Foreach
  <2>4. QED
    BY <2>1, <2>3, Zenon DEF KV!Next, Ops
<1>5. CASE Tick
  <2>1. KV!Tick
    BY <1>5 DEF Tick, KV!Tick
  <2>2. QED
    BY <1>5, <2>1 DEF Tick, KV!Next
<1>6. CASE UNCHANGED vars
  BY <1>6 DEF vars, KV!vars
<1>7. QED
  BY <1>1, <1>2, <1>3, <1>4, <1>5, <1>6 DEF Next

(* The state in which store_create leaves the store. *)
LEMMA InitInv ==
  ASSUME StoreFacts
  PROVE  Init => IInv /\ KV!Init
<1> SUFFICES ASSUME Init PROVE IInv /\ KV!Init
  OBVIOUS
<1>1. StoreInv(s) /\ Contents(s) = {}
  BY CreateInv DEF Init
<1>2. QED
  BY <1>1 DEF Init, IInv, Ops, KV!Init

(* Each invariant of Store follows from the inductive one. *)
LEMMA InvImplies ==
  ASSUME StoreFacts, IInv
  PROVE  TypeOK /\ Reachable /\ OneEntryPerKey /\ UsedExact /\ LoadFactor
<1>1. /\ StoreInv(s) /\ now \in Times /\ ret.op \in Ops
      /\ Shape(s) /\ TableOK(s.ht[0]) /\ TableOK(s.ht[1])
      /\ \A t \in 0 .. 1 : t = 0 \/ t = 1
  BY DEF IInv, StoreInv
<1>2. TypeOK
  <2>1. s.rehash_idx \in {NULL} \cup (0 .. s.ht[0].size - 1)
    BY <1>1, Zenon DEF StoreInv, AtRest, Rehashing
  <2>2. \A t \in 0 .. 1 : IsTable(s.ht[t])
    BY <1>1, Zenon DEF TableOK
  <2>3. QED
    BY <1>1, <2>1, <2>2, Zenon DEF TypeOK, Shape, Ops
<1>3. Reachable
  <2>1. \A t \in 0 .. 1 : Placed(s.ht[t])
    BY <1>1, Zenon DEF TableOK
  <2>2. ASSUME is_rehashing(s), NEW i \in 0 .. s.rehash_idx - 1
        PROVE  s.ht[0].buckets[i] = {}
    <3>1. /\ s.rehash_idx \in 0 .. s.ht[0].size - 1 /\ s.ht[0].size \in Nat
          /\ \A e \in Linked(s.ht[0]) : Bucket(s.ht[0], e.key) >= s.rehash_idx
      BY <1>1, <2>2, InvNumbers, Zenon DEF Rehashing
    <3>2. i \in 0 .. s.ht[0].size - 1 /\ ~(i >= s.rehash_idx)
      BY <3>1, SMTT(30)
    <3>3. \A e \in s.ht[0].buckets[i] :
            e \in Linked(s.ht[0]) /\ i = Bucket(s.ht[0], e.key)
      BY <1>1, <3>2, ZenonT(40) DEF TableOK, IsTable, Placed, Linked
    <3>4. QED
      BY <3>1, <3>2, <3>3, Zenon
  <2>3. ~is_rehashing(s) => s.ht[1] = table_init(0)
    BY <1>1, InvNumbers, Zenon DEF AtRest
  <2>4. QED
    BY <2>1, <2>2, <2>3, Zenon DEF Reachable
<1>4. OneEntryPerKey
  <2> SUFFICES ASSUME NEW t \in 0 .. 1, NEW u \in 0 .. 1, NEW e \in Linked(s.ht[t]),
                      NEW f \in Linked(s.ht[u]), e.key = f.key
               PROVE  t = u /\ e = f
    BY Zenon DEF OneEntryPerKey
  <2>1. e \in Contents(s) /\ f \in Contents(s)
    BY <1>1, Zenon DEF Contents
  <2>2. e = f
    BY <1>1, <2>1, Zenon DEF StoreInv, UniqueKeys
  <2>3. Linked(s.ht[0]) \cap Linked(s.ht[1]) = {}
    BY <1>1, Zenon DEF StoreInv
  <2>4. QED
    BY <1>1, <2>2, <2>3
<1>5. UsedExact
  BY <1>1, Zenon DEF UsedExact, TableOK
<1>6. LoadFactor
  BY <1>1, InvNumbers, Zenon DEF LoadFactor, AtRest, Rehashing
<1>7. QED
  BY <1>2, <1>3, <1>4, <1>5, <1>6, SMTT(30)

-----------------------------------------------------------------------------
(* A live key whose entry was there before, with a clock that has not gone *)
(* back, was live before.                                                  *)
LEMMA StaysLive ==
  ASSUME StoreFacts, NEW st, StoreInv(st), NEW e \in Contents(st), NEW at \in Int,
         NEW later \in Int, later >= at, ~Expired(e, later)
  PROVE  e.key \in LiveKeys(st, at)
<1>1. e.expire_at_ms \in Int
  BY ContentsEntries DEF Entry
<1>2. ~Expired(e, at)
  BY <1>1 DEF Expired
<1>3. QED
  BY <1>2 DEF LiveKeys

(* What NoResurrection says of a step and a key. *)
NotRevived(k) ==
  /\ k \notin LiveKeys(s, now)
  /\ k \in LiveKeys(s', now')
  => now' < now \/ (ret'.op \in {"set", "incrby"} /\ ret'.key = k)

(* It is enough that a key that comes to life, with a clock that has not   *)
(* gone back, has an entry that was there before or is a live key's.       *)
LEMMA KeptEntries ==
  ASSUME StoreFacts, IInv, now' \in Times, NEW k,
         \A e \in Contents(s') : e.key = k =>
            e \in Contents(s) \/ k \in LiveKeys(s, now)
  PROVE  NotRevived(k)
<1> SUFFICES ASSUME k \notin LiveKeys(s, now), k \in LiveKeys(s', now'),
                    ~(now' < now)
             PROVE  FALSE
  BY Zenon DEF NotRevived
<1>1. PICK e \in Contents(s') : e.key = k /\ ~Expired(e, now')
  BY Zenon DEF LiveKeys
<1>2. e \in Contents(s)
  BY <1>1
<1>3. now \in Int /\ now' \in Int /\ now' >= now
  BY ClockAssumption DEF IInv
<1>4. QED
  BY <1>1, <1>2, <1>3, StaysLive DEF IInv

(* Every call and every tick of the clock. *)
LEMMA NothingRevived ==
  ASSUME StoreFacts, IInv, Next, NEW k \in Keys
  PROVE  NotRevived(k)
<1>1. KV!Next \/ UNCHANGED KV!vars
  BY AnyStep DEF Next
<1>2. IInv' /\ now' \in Times
  BY AnyStep DEF IInv
<1>3. \A j : KV!Purged(j) \subseteq Contents(s)
  BY DEF KV!Purged
<1>4. CASE Contents(s') \subseteq Contents(s)
  BY <1>2, <1>4, KeptEntries
<1>5. ASSUME NEW j, NEW e, e.key = j,
             Contents(s') = (Contents(s) \ KV!Held(j)) \cup {e},
             ret'.op \in {"set", "incrby"}, ret'.key = j
      PROVE  NotRevived(k)
  <2>1. CASE k = j
    BY <1>5, <2>1 DEF NotRevived
  <2>2. CASE k # j
    <3>1. \A f \in Contents(s') : f.key = k => f \in Contents(s)
      BY <1>5, <2>2
    <3>2. QED
      BY <1>2, <3>1, KeptEntries
  <2>3. QED
    BY <2>1, <2>2
<1>6. ASSUME NEW j, NEW v, NEW x, KV!Set(j, v, x)
      PROVE  NotRevived(k)
  <2> DEFINE e == NewEntry(j, v, x)
  <2>1. e.key = j
    BY Zenon DEF NewEntry
  <2>2. /\ Contents(s') = (Contents(s) \ KV!Held(j)) \cup {e}
        /\ ret'.op = "set" /\ ret'.key = j
    BY <1>6, Dictionary, Zenon DEF KV!Set, KV!Returns
  <2> HIDE DEF e
  <2>3. QED
    BY <1>5, <2>1, <2>2
<1>7. ASSUME NEW j, NEW d, KV!IncrBy(j, d)
      PROVE  NotRevived(k)
  <2>1. ret'.op = "incrby" /\ ret'.key = j
    BY <1>7 DEF KV!IncrBy, KV!Returns
  <2>2. \/ Contents(s') \subseteq Contents(s)
        \/ \E e : e.key = j /\ Contents(s') = (Contents(s) \ KV!Held(j)) \cup {e}
    <3>1. \/ Contents(s') = KV!Purged(j)
          \/ \E n, x : Contents(s') =
               (Contents(s) \ KV!Held(j)) \cup {NewEntry(j, FormatLL[n + d], x)}
      BY <1>7, Dictionary, ZenonT(40) DEF KV!IncrBy
    <3>2. \A v, x : NewEntry(j, v, x).key = j
      BY Zenon DEF NewEntry
    <3>3. QED
      BY <1>3, <3>1, <3>2, SMTT(30)
  <2>3. QED
    BY <1>4, <1>5, <2>1, <2>2, SMTT(30)
<1>8. ASSUME NEW j, NEW x, KV!Expire(j, x)
      PROVE  NotRevived(k)
  <2>1. Contents(s') = (Contents(s) \ KV!Held(j))
                         \cup {NewEntry(j, e.val, x) : e \in LiveHeldIn(s, j, now)}
    BY <1>8, Dictionary, Zenon DEF KV!Expire
  <2>2. \A e : NewEntry(j, e.val, x).key = j
    BY Zenon DEF NewEntry
  <2>3. \A e \in LiveHeldIn(s, j, now) : j \in LiveKeys(s, now)
    BY Zenon DEF LiveHeldIn, HeldIn, LiveKeys
  <2>4. \A f \in Contents(s') : f.key = k =>
          f \in Contents(s) \/ k \in LiveKeys(s, now)
    BY <2>1, <2>2, <2>3
  <2>5. QED
    BY <1>2, <2>4, KeptEntries, SMTT(30)
<1>9. CASE \/ \E j \in Keys : KV!Get(j) \/ KV!Exists(j) \/ KV!Del(j)
           \/ \E j \in Keys, later \in Times : KV!Ttl(j, later)
           \/ KV!Flush \/ KV!Size \/ KV!Foreach \/ KV!Tick
           \/ UNCHANGED KV!vars
  <2>1. Contents(s') \subseteq Contents(s)
    BY <1>3, <1>9, ZenonT(40) DEF KV!Get, KV!Exists, KV!Del, KV!Ttl, KV!Flush, KV!Size,
                      KV!Foreach, KV!Tick, KV!vars
  <2>2. QED
    BY <1>4, <2>1, SMTT(30)
<1>10. QED
  BY <1>1, <1>6, <1>7, <1>8, <1>9 DEF KV!Next

-----------------------------------------------------------------------------
(* The facts about finite sets, from the library. *)
INSTANCE FiniteSetTheorems

LEMMA StoreFactsHold == StoreFacts
<1>1. Least
  <2>1. IsWellFoundedOn(OpToRel(<, Nat), Nat)
    BY NatLessThanWellFounded, Zenon
  <2>2. \A S \in SUBSET Nat : S # {} =>
          \E x \in S : \A y \in S : ~ (<<y, x>> \in OpToRel(<, Nat))
    BY <2>1, WFMin, ZenonT(40)
  <2>3. \A x, y \in Nat : y < x => <<y, x>> \in OpToRel(<, Nat)
    BY Zenon DEF OpToRel
  <2>4. \A S \in SUBSET Nat : S # {} => \E x \in S : \A y \in S : ~ (y < x)
    BY <2>2, <2>3, Zenon
  <2>5. \A x, y \in Nat : ~ (y < x) => x <= y
    OBVIOUS
  <2>6. QED
    BY <2>4, <2>5, ZenonT(40) DEF Least
<1>2. CountType
  BY FS_EmptySet, FS_CardinalityType DEF CountType
<1>3. IntervalCount
  BY FS_Interval DEF IntervalCount
<1>4. SubsetCount
  BY FS_Subset DEF SubsetCount
<1>5. AddCount
  BY FS_AddElement DEF AddCount
<1>6. RemoveCount
  BY FS_RemoveElement DEF RemoveCount
<1>7. UnionCount
  BY FS_Union DEF UnionCount
<1>8. DifferenceCount
  BY FS_Difference DEF DifferenceCount
<1>9. PowerCount
  BY FS_SUBSET DEF PowerCount
<1>10. ImageCount
  <2> SUFFICES ASSUME NEW S, NEW T, NEW f, IsFiniteSet(S),
                      T = {f[x] : x \in S},
                      f = [x \in S |-> f[x]],
                      \A x, y \in S : f[x] = f[y] => x = y
               PROVE  IsFiniteSet(T) /\ Cardinality(T) = Cardinality(S)
    BY DEF ImageCount
  <2>1. f \in [S -> T]
    OBVIOUS
  <2>2. \A y \in T : \E x \in S : f[x] = y
    BY Zenon
  <2>3. f \in Bijection(S, T)
    BY <2>1, <2>2, Zenon DEF Bijection, Injection, Surjection, IsInjective
  <2>4. QED
    BY <2>3, FS_Bijection, ZenonT(40) DEF ExistsBijection
<1>11. QED
  BY ONLY <1>1, <1>2, <1>3, <1>4, <1>5, <1>6, <1>7, <1>8, <1>9, <1>10, ZenonT(40)
     DEF StoreFacts

(* The inductive invariant holds. *)
THEOREM Invariance == Spec => []IInv
<1>1. Init => IInv
  BY StoreFactsHold, InitInv
<1>2. IInv /\ [Next]_vars => IInv'
  BY StoreFactsHold, AnyStep
<1>3. QED
  BY <1>1, <1>2, PTL DEF Spec

(* The store's state always has its type: no counter wraps below zero and  *)
(* the cursor of a rehash is a bucket of the table being drained.          *)
THEOREM TypeCorrect == Spec => []TypeOK
BY StoreFactsHold, Invariance, InvImplies, PTL

(* Every entry stays where a lookup of its key finds it, through every     *)
(* migration, insert and swap of the tables.                               *)
THEOREM EntriesReachable == Spec => []Reachable
BY StoreFactsHold, Invariance, InvImplies, PTL

(* No key is ever held twice, in one table or across the two. *)
THEOREM KeysUnique == Spec => []OneEntryPerKey
BY StoreFactsHold, Invariance, InvImplies, PTL

(* The counters that decide growth, and that store_size adds up, are the   *)
(* numbers of linked entries.                                              *)
THEOREM CountersExact == Spec => []UsedExact
BY StoreFactsHold, Invariance, InvImplies, PTL

(* A rehash ends before the next can be due, however inserts and rehash    *)
(* steps alternate.                                                        *)
THEOREM GrowthKeepsUp == Spec => []LoadFactor
BY StoreFactsHold, Invariance, InvImplies, PTL

(* Every call that names a key moves a rehash on: none goes on for longer  *)
(* than the drained table has buckets.                                     *)
THEOREM RehashesMoveOn == Spec => RehashProgress
<1>1. IInv /\ [Next]_vars => [is_rehashing(s) /\ ~RehashMoved => ~KeyCall]_vars
  BY StoreFactsHold, KeyCallStep DEF Progress, RehashMoved
<1>2. QED
  BY <1>1, Invariance, PTL DEF Spec, RehashProgress

(* The store with its two tables and lazy migration implements the         *)
(* dictionary of KVStore, call for call and result for result.             *)
THEOREM Refinement == Spec => RefinesKVStore
<1>1. Init => KV!Init
  BY StoreFactsHold, InitInv
<1>2. IInv /\ [Next]_vars => [KV!Next]_KV!vars
  BY StoreFactsHold, AnyStep
<1>3. QED
  BY <1>1, <1>2, Invariance, PTL DEF Spec, RefinesKVStore, KV!Spec
(* A key that has gone, deleted or expired, comes back only by a SET or an *)
(* INCRBY of that key or by a clock that steps back: no call on another    *)
(* key, no EXPIRE and no migration revives an entry.                       *)
THEOREM GoneStaysGone == Spec => NoResurrection
<1>1. IInv /\ [Next]_vars => [\A k \in Keys : NotRevived(k)]_vars
  BY StoreFactsHold, NothingRevived
<1>2. QED
  BY <1>1, Invariance, PTL DEF Spec, NoResurrection, NotRevived
=============================================================================
