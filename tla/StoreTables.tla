---------------------------- MODULE StoreTables ----------------------------
(***************************************************************************)
(* The two hash tables of src/store.c and the operations on them, as       *)
(* operators on a store value [ht, rehash_idx].  A chain is the set of the *)
(* entries linked in it: what a lookup finds, and what a migration moves,  *)
(* does not depend on the order of a chain that holds each key once.       *)
(* `used' is the counter the code keeps, never derived from the chains.    *)
(***************************************************************************)
EXTENDS StoreData, FiniteSetsExt

CONSTANTS
  Hash,                       \* fnv1a_hash, on Keys
  STORE_INITIAL_SIZE,         \* 4 in the code
  REHASH_EMPTY_VISITS_LIMIT   \* 10 in the code

ASSUME HashAssumption == Hash \in [Keys -> Nat]

ASSUME SizesAssumption ==
  /\ \E n \in 0 .. STORE_INITIAL_SIZE : STORE_INITIAL_SIZE = 2^n
  /\ STORE_INITIAL_SIZE \in Nat \ {0}
  /\ REHASH_EMPTY_VISITS_LIMIT \in Nat \ {0}

NULL == -1   \* no slot found; also rehash_idx outside a rehash

\* The least power of two that is at least n.
next_pow2(n) == Min({p \in {2^i : i \in 0 .. n} : p >= n})

table_init(size) ==
  [buckets |-> [i \in 0 .. size - 1 |-> {}], size |-> size, used |-> 0]

store_create ==
  [ht |-> [t \in 0 .. 1 |-> table_init(IF t = 0 THEN STORE_INITIAL_SIZE ELSE 0)],
   rehash_idx |-> NULL]

is_rehashing(s) == s.rehash_idx # NULL

\* h & mask, for the power-of-two sizes the tables have.
Bucket(t, k) == Hash[k] % t.size
Chain(t, k)  == t.buckets[Bucket(t, k)]

\* The entry of k in a table, as a set of at most one.
find_in_table(t, k) ==
  IF t.size = 0 THEN {} ELSE {e \in Chain(t, k) : e.key = k}

\* The table that a lookup of k finds it in, or NULL.
find_slot_either(s, k) ==
  IF find_in_table(s.ht[0], k) # {} THEN 0
  ELSE IF is_rehashing(s) /\ find_in_table(s.ht[1], k) # {} THEN 1
  ELSE NULL

At(s, t, k) == CHOOSE e \in find_in_table(s.ht[t], k) : TRUE

\* Table t with another chain in bucket i and its counter moved by d.
Rechain(t, i, chain, d) ==
  [buckets |-> [t.buckets EXCEPT ![i] = chain],
   size    |-> t.size,
   used    |-> t.used + d]

\* Entry e put into, taken out of, or rewritten as f in the chain of its key.
Link(t, e)       == Rechain(t, Bucket(t, e.key), Chain(t, e.key) \cup {e}, 1)
Unlink(t, e)     == Rechain(t, Bucket(t, e.key), Chain(t, e.key) \ {e}, -1)
Rewrite(t, e, f) ==
  Rechain(t, Bucket(t, e.key), (Chain(t, e.key) \ {e}) \cup {f}, 0)

\* Store s with table t put in place of its own.
WithTable(s, t, table) == [s EXCEPT !.ht[t] = table]

\* The store after the lookup, and the table k is live in or NULL.
locate_live(s, k, at) ==
  LET t == find_slot_either(s, k) IN
  IF t # NULL /\ Expired(At(s, t, k), at)
  THEN [s |-> WithTable(s, t, Unlink(s.ht[t], At(s, t, k))), slot |-> NULL]
  ELSE [s |-> s, slot |-> t]
-----------------------------------------------------------------------------
\* Mutant of Drained: `used' is not decremented for what is moved.
DrainedUncounted(t, i) == Rechain(t, i, {}, 0)

\* A table without the chain of bucket i, and a table with it.
Drained(t, i) == Rechain(t, i, {}, -Cardinality(t.buckets[i]))

Absorbed(t, chain) ==
  [buckets |-> [i \in DOMAIN t.buckets |->
                  t.buckets[i] \cup {e \in chain : Bucket(t, e.key) = i}],
   size    |-> t.size,
   used    |-> t.used + Cardinality(chain)]

\* The whole chain of bucket i of ht[0] relinked into ht[1].
Migrate(s, i) ==
  [s EXCEPT !.ht[0] = Drained(@, i),
            !.ht[1] = Absorbed(@, s.ht[0].buckets[i]),
            !.rehash_idx = i + 1]

\* Mutant of FinishRehash: one bucket too many is waited for.
FinishRehashLate(s) ==
  IF s.rehash_idx > s.ht[0].size
  THEN [ht |-> [t \in 0 .. 1 |-> IF t = 0 THEN s.ht[1] ELSE table_init(0)],
        rehash_idx |-> NULL]
  ELSE s

\* ht[0] is drained: ht[1] takes its place and the rehash is over.
FinishRehash(s) ==
  IF s.rehash_idx >= s.ht[0].size
  THEN [ht |-> [t \in 0 .. 1 |-> IF t = 0 THEN s.ht[1] ELSE table_init(0)],
        rehash_idx |-> NULL]
  ELSE s

\* One step visits buckets from the cursor up to the end of its window, and
\* looks for one with entries.
WindowEnd(s) == Min({s.ht[0].size, s.rehash_idx + REHASH_EMPTY_VISITS_LIMIT})

Filled(s) ==
  {i \in s.rehash_idx .. WindowEnd(s) - 1 : s.ht[0].buckets[i] # {}}

\* Mutant of rehash_step: a window of empty buckets is not passed.
rehash_stepStuck(s) ==
  IF ~is_rehashing(s) THEN s
  ELSE FinishRehash(IF Filled(s) = {} THEN s ELSE Migrate(s, Min(Filled(s))))

\* Empty buckets are skipped, up to the limit; the first one with entries is
\* migrated and ends the step.
rehash_step(s) ==
  IF ~is_rehashing(s) THEN s
  ELSE FinishRehash(
         IF Filled(s) = {}
         THEN [s EXCEPT !.rehash_idx = WindowEnd(s)]
         ELSE Migrate(s, Min(Filled(s))))

\* Mutant of maybe_start_rehash: growth starts one entry late.
maybe_start_rehashLate(s) ==
  IF is_rehashing(s) \/ s.ht[0].used <= s.ht[0].size THEN s
  ELSE [s EXCEPT !.ht[1] = table_init(next_pow2(s.ht[0].size * 2)),
                 !.rehash_idx = 0]

maybe_start_rehash(s) ==
  IF is_rehashing(s) \/ s.ht[0].used < s.ht[0].size THEN s
  ELSE [s EXCEPT !.ht[1] = table_init(next_pow2(s.ht[0].size * 2)),
                 !.rehash_idx = 0]
-----------------------------------------------------------------------------
\* Each call yields the store it leaves and what it returns.

\* Mutant of Insert: new entries go to ht[0] during a rehash too.
InsertInOld(s, e) == maybe_start_rehash(WithTable(s, 0, Link(s.ht[0], e)))

Insert(s, e) ==
  IF is_rehashing(s) THEN WithTable(s, 1, Link(s.ht[1], e))
  ELSE maybe_start_rehash(WithTable(s, 0, Link(s.ht[0], e)))

\* Mutant of store_set: only ht[0] is searched for the key.
store_setOneTable(s0, k, v, x) ==
  LET s == rehash_step(s0) IN
  IF find_in_table(s.ht[0], k) # {}
  THEN [s |-> WithTable(s, 0, Rewrite(s.ht[0], At(s, 0, k), NewEntry(k, v, x))),
        res |-> 0]
  ELSE [s |-> Insert(s, NewEntry(k, v, x)), res |-> 1]

\* An entry found under k is overwritten whether or not it has expired.
store_set(s0, k, v, x) ==
  LET s == rehash_step(s0)
      t == find_slot_either(s, k)
  IN  IF t # NULL
      THEN [s |-> WithTable(s, t,
                    Rewrite(s.ht[t], At(s, t, k), NewEntry(k, v, x))),
            res |-> 0]
      ELSE [s |-> Insert(s, NewEntry(k, v, x)), res |-> 1]

store_get(s0, k, at) ==
  LET l == locate_live(rehash_step(s0), k, at) IN
  [s |-> l.s, res |-> IF l.slot = NULL THEN {} ELSE {At(l.s, l.slot, k).val}]

\* Mutant of store_exists: an expired entry still counts as present.
store_existsExpired(s0, k, at) ==
  LET s == rehash_step(s0) IN
  [s |-> s, res |-> IF find_slot_either(s, k) = NULL THEN 0 ELSE 1]

store_exists(s0, k, at) ==
  LET l == locate_live(rehash_step(s0), k, at) IN
  [s |-> l.s, res |-> IF l.slot = NULL THEN 0 ELSE 1]

store_del(s0, k) ==
  LET s == rehash_step(s0)
      t == find_slot_either(s, k)
  IN  IF t = NULL THEN [s |-> s, res |-> 0]
      ELSE [s |-> WithTable(s, t, Unlink(s.ht[t], At(s, t, k))), res |-> 1]

\* Mutant of store_expire: the entry is taken without the expiry test.
store_expireExpired(s0, k, x, at) ==
  LET s == rehash_step(s0)
      t == find_slot_either(s, k)
  IN  IF t = NULL THEN [s |-> s, res |-> 0]
      ELSE [s |-> WithTable(s, t, Rewrite(s.ht[t], At(s, t, k),
                                          NewEntry(k, At(s, t, k).val, x))),
            res |-> 1]

store_expire(s0, k, x, at) ==
  LET l == locate_live(rehash_step(s0), k, at) IN
  IF l.slot = NULL THEN [s |-> l.s, res |-> 0]
  ELSE LET e == At(l.s, l.slot, k) IN
       [s |-> WithTable(l.s, l.slot,
                Rewrite(l.s.ht[l.slot], e, NewEntry(k, e.val, x))),
        res |-> 1]

\* The clock is read a second time, after the lookup.
store_ttl_ms(s0, k, at, later) ==
  LET l == locate_live(rehash_step(s0), k, at) IN
  [s |-> l.s, res |-> IF l.slot = NULL THEN {-2}
                      ELSE {Remaining(At(l.s, l.slot, k), later)}]

\* Mutant: a sum that is INT64_MAX itself is refused.
WouldOverflowEarly(current, d) ==
  \/ d > 0 /\ current >= INT64_MAX - d
  \/ d < 0 /\ current < INT64_MIN - d

\* The overflow test, made before the addition.
WouldOverflow(current, d) ==
  \/ d > 0 /\ current > INT64_MAX - d
  \/ d < 0 /\ current < INT64_MIN - d

\* A missing key is created by a nested store_set, which takes a rehash step
\* of its own.
store_incrby(s0, k, d, at) ==
  LET l       == locate_live(rehash_step(s0), k, at)
      e       == At(l.s, l.slot, k)
      current == IF l.slot = NULL THEN 0 ELSE ParseLL[e.val]
  IN  IF l.slot # NULL /\ e.val \notin DOMAIN ParseLL
      THEN [s |-> l.s, res |-> <<"not_integer">>]
      ELSE IF WouldOverflow(current, d)
      THEN [s |-> l.s, res |-> <<"overflow">>]
      ELSE [s |-> IF l.slot = NULL
                  THEN store_set(l.s, k, FormatLL[current + d], 0).s
                  ELSE WithTable(l.s, l.slot, Rewrite(l.s.ht[l.slot], e,
                         NewEntry(k, FormatLL[current + d], e.expire_at_ms))),
            res |-> <<"ok", current + d>>]

store_size(s) == s.ht[0].used + s.ht[1].used

store_flush(s) == [s |-> store_create, res |-> store_size(s)]

\* The entries linked in a table.
Linked(t) == UNION {t.buckets[i] : i \in DOMAIN t.buckets}

LiveLinked(t, at) == {e \in Linked(t) : ~Expired(e, at)}

\* Both tables are walked; a callback for each entry that is not expired.
store_foreach(s, at) ==
  [res    |-> LiveLinked(s.ht[0], at) \cup LiveLinked(s.ht[1], at),
   visits |-> Cardinality(LiveLinked(s.ht[0], at))
                + Cardinality(LiveLinked(s.ht[1], at))]
-----------------------------------------------------------------------------
IsTable(t) ==
  t \in [buckets : [0 .. t.size - 1 -> SUBSET Entry], size : Nat, used : Nat]

\* Each entry is in the bucket its hash selects.
Placed(t) ==
  \A i \in DOMAIN t.buckets : \A e \in t.buckets[i] : i = Bucket(t, e.key)

\* The entries a store holds, in whichever table.
Contents(st) == Linked(st.ht[0]) \cup Linked(st.ht[1])
=============================================================================
