------------------------------- MODULE Store -------------------------------
(***************************************************************************)
(* The store of src/store.c as a state machine: one action for each public *)
(* call, made in any order by callers that take turns (the store has no    *)
(* lock of its own), and a clock that may step either way between calls.   *)
(***************************************************************************)
EXTENDS StoreTables

VARIABLES
  s,     \* the store: its two tables and the rehash cursor
  now,   \* what CLOCK_REALTIME reads, in milliseconds
  ret    \* the last call made and what it returned

vars == <<s, now, ret>>

Init ==
  /\ s = store_create
  /\ now \in Times
  /\ ret = [op |-> "create"]

\* The effect of a call on key k that yields r.
Call(op, k, r) ==
  /\ s' = r.s
  /\ ret' = [op |-> op, key |-> k, res |-> r.res]

Set(k, v, x) == Call("set", k, store_set(s, k, v, x)) /\ UNCHANGED now
Get(k)       == Call("get", k, store_get(s, k, now)) /\ UNCHANGED now
Exists(k)    == Call("exists", k, store_exists(s, k, now)) /\ UNCHANGED now
Del(k)       == Call("del", k, store_del(s, k)) /\ UNCHANGED now
Expire(k, x) == Call("expire", k, store_expire(s, k, x, now)) /\ UNCHANGED now
IncrBy(k, d) == Call("incrby", k, store_incrby(s, k, d, now)) /\ UNCHANGED now

\* The clock may move between the two readings store_ttl_ms takes of it.
Ttl(k, later) ==
  /\ Call("ttl", k, store_ttl_ms(s, k, now, later))
  /\ now' = later

Flush ==
  /\ s' = store_flush(s).s
  /\ ret' = [op |-> "flush", res |-> store_flush(s).res]
  /\ UNCHANGED now

Size ==
  /\ ret' = [op |-> "size", res |-> store_size(s)]
  /\ UNCHANGED <<s, now>>

Foreach ==
  LET f == store_foreach(s, now) IN
  /\ ret' = [op |-> "foreach", res |-> f.res, visits |-> f.visits]
  /\ UNCHANGED <<s, now>>

Tick ==
  /\ now' \in Times \ {now}
  /\ UNCHANGED <<s, ret>>

\* The calls that name a key: each of them begins with a rehash step.
KeyCall ==
  \/ \E k \in Keys, v \in Values, x \in Expiries : Set(k, v, x)
  \/ \E k \in Keys : Get(k) \/ Exists(k) \/ Del(k)
  \/ \E k \in Keys, x \in Expiries : Expire(k, x)
  \/ \E k \in Keys, later \in Times : Ttl(k, later)
  \/ \E k \in Keys, d \in Int64 : IncrBy(k, d)

Next == KeyCall \/ Flush \/ Size \/ Foreach \/ Tick

Spec == Init /\ [][Next]_vars
-----------------------------------------------------------------------------
(* Type correctness.  In particular no `used' counter, a size_t that       *)
(* locate_live, store_del and rehash_step decrement, ever wraps below zero *)
(* and the cursor is -1 or a bucket of ht[0].                              *)
TypeOK ==
  /\ s = [ht |-> s.ht, rehash_idx |-> s.rehash_idx]
  /\ s.ht = [t \in 0 .. 1 |-> s.ht[t]]
  /\ \A t \in 0 .. 1 : IsTable(s.ht[t])
  /\ s.rehash_idx \in {NULL} \cup (0 .. s.ht[0].size - 1)
  /\ now \in Times
  /\ ret.op \in {"create", "set", "get", "exists", "del", "expire", "ttl",
                 "incrby", "flush", "size", "foreach"}

(* Every entry is linked where a lookup of its key will look: in the       *)
(* bucket its hash selects in its own table, and during a rehash never in  *)
(* a bucket of ht[0] that the cursor has passed.  Migration, insertion     *)
(* into ht[1] and the swap of the tables all have to agree on this, or a   *)
(* key is in memory but no call can find it.                               *)
Reachable ==
  /\ \A t \in 0 .. 1 : Placed(s.ht[t])
  /\ is_rehashing(s) =>
       \A i \in 0 .. s.rehash_idx - 1 : s.ht[0].buckets[i] = {}
  /\ ~is_rehashing(s) => s.ht[1] = table_init(0)

(* During a rehash keys sit in either table but never in both, and never   *)
(* twice in one: what store_foreach relies on to visit each key once       *)
(* (store.c:396).                                                          *)
OneEntryPerKey ==
  \A t, u \in 0 .. 1 : \A e \in Linked(s.ht[t]), f \in Linked(s.ht[u]) :
    e.key = f.key => t = u /\ e = f

(* The `used' counters are exactly the numbers of linked entries, through  *)
(* inserts, deletes, lazy expiry, migration and the swap of the tables.    *)
UsedExact ==
  \A t \in 0 .. 1 : s.ht[t].used = Cardinality(Linked(s.ht[t]))

(* Growth keeps ahead of inserts.  Outside a rehash the load factor is     *)
(* below 1; during one ht[1] is twice ht[0] and the entries of both tables *)
(* never outnumber ht[0]'s buckets plus the buckets already migrated, so   *)
(* the table that takes over is never full and a second growth is never    *)
(* due while one is under way (maybe_start_rehash returns early then).     *)
LoadFactor ==
  IF is_rehashing(s)
  THEN /\ s.ht[1].size = 2 * s.ht[0].size
       /\ s.ht[0].used + s.ht[1].used <= s.ht[0].size + s.rehash_idx
  ELSE s.ht[0].used < s.ht[0].size

\* The cursor has gone up, or the tables have been swapped and the store is
\* out of the rehash or at the start of the next.
RehashMoved ==
  \/ s'.ht[0].size = s.ht[0].size /\ s'.rehash_idx > s.rehash_idx
  \/ s'.ht[0].size = s.ht[1].size

(* No call that names a key leaves a rehash under way where it was, so one *)
(* of n buckets is over after at most n such calls ("a rehash always       *)
(* completes", store.c:145).                                               *)
RehashProgress == [][is_rehashing(s) /\ ~RehashMoved => ~KeyCall]_vars

LiveKeys(st, at) == {e.key : e \in {f \in Contents(st) : ~Expired(f, at)}}

(* A key a client sees as gone stays gone: only SET or INCRBY of that key, *)
(* or a clock that steps back, makes a key live that was not.  An expired  *)
(* entry left in a chain is not brought back by EXPIRE, by a migration or  *)
(* by a call on a colliding key.                                           *)
NoResurrection ==
  [][\A k \in Keys :
       /\ k \notin LiveKeys(s, now)
       /\ k \in LiveKeys(s', now')
       => now' < now \/ (ret'.op \in {"set", "incrby"} /\ ret'.key = k)]_vars

KV == INSTANCE KVStore WITH entries <- Contents(s)

(* The two tables, the cursor and the lazy migration are invisible: every  *)
(* call returns, and leaves behind, what the plain dictionary of KVStore   *)
(* would, whatever the rehash is doing.                                    *)
RefinesKVStore == KV!Spec
=============================================================================
