------------------------------ MODULE KVStore ------------------------------
(***************************************************************************)
(* What the store promises its callers, with no tables, chains or cursor:  *)
(* a dictionary, kept as a set of entries with at most one entry per key,  *)
(* whose expired entries go away when a lookup meets them.  Until then an  *)
(* expired entry still counts (Size, Flush) and can still be deleted or    *)
(* overwritten as a present one (Del, Set).                                *)
(***************************************************************************)
EXTENDS StoreData

VARIABLES
  entries,   \* the entries held
  now,       \* what the clock reads
  ret        \* the last call and what it returned

vars == <<entries, now, ret>>

Held(k)     == {e \in entries : e.key = k}
LiveHeld(k) == {e \in Held(k) : ~Expired(e, now)}

\* The dictionary once a lookup of k has dropped k's expired entry.
Purged(k) == entries \ {e \in Held(k) : Expired(e, now)}

Returns(op, k, r) == ret' = [op |-> op, key |-> k, res |-> r]

Init ==
  /\ entries = {}
  /\ now \in Times
  /\ ret = [op |-> "create"]

Set(k, v, x) ==
  /\ entries' = (entries \ Held(k)) \cup {NewEntry(k, v, x)}
  /\ Returns("set", k, IF Held(k) = {} THEN 1 ELSE 0)
  /\ UNCHANGED now

Get(k) ==
  /\ entries' = Purged(k)
  /\ Returns("get", k, {e.val : e \in LiveHeld(k)})
  /\ UNCHANGED now

Exists(k) ==
  /\ entries' = Purged(k)
  /\ Returns("exists", k, IF LiveHeld(k) = {} THEN 0 ELSE 1)
  /\ UNCHANGED now

Del(k) ==
  /\ entries' = entries \ Held(k)
  /\ Returns("del", k, IF Held(k) = {} THEN 0 ELSE 1)
  /\ UNCHANGED now

Expire(k, x) ==
  /\ entries' = (entries \ Held(k))
                  \cup {NewEntry(k, e.val, x) : e \in LiveHeld(k)}
  /\ Returns("expire", k, IF LiveHeld(k) = {} THEN 0 ELSE 1)
  /\ UNCHANGED now

\* The answer is reckoned with a later reading of the clock than the one
\* that decided whether the entry is live.
Ttl(k, later) ==
  /\ entries' = Purged(k)
  /\ Returns("ttl", k, IF LiveHeld(k) = {}
                       THEN {-2}
                       ELSE {Remaining(e, later) : e \in LiveHeld(k)})
  /\ now' = later

\* The number a key stands for in an increment: its own, or 0 for a key that
\* is absent; no number at all when its value does not read as one.
Numbers(k) == IF LiveHeld(k) = {} THEN {0}
              ELSE {ParseLL[e.val] : e \in {f \in LiveHeld(k) :
                                                f.val \in DOMAIN ParseLL}}

Kept(k) == IF LiveHeld(k) = {} THEN {0}
           ELSE {e.expire_at_ms : e \in LiveHeld(k)}

IncrBy(k, d) ==
  /\ \/ /\ Numbers(k) = {}
        /\ entries' = Purged(k)
        /\ Returns("incrby", k, <<"not_integer">>)
     \/ \E n \in Numbers(k) :
          /\ n + d \notin Int64
          /\ entries' = Purged(k)
          /\ Returns("incrby", k, <<"overflow">>)
     \/ \E n \in Numbers(k), x \in Kept(k) :
          /\ n + d \in Int64
          /\ entries' = (entries \ Held(k))
                          \cup {NewEntry(k, FormatLL[n + d], x)}
          /\ Returns("incrby", k, <<"ok", n + d>>)
  /\ UNCHANGED now

Flush ==
  /\ entries' = {}
  /\ ret' = [op |-> "flush", res |-> Cardinality(entries)]
  /\ UNCHANGED now

Size ==
  /\ ret' = [op |-> "size", res |-> Cardinality(entries)]
  /\ UNCHANGED <<entries, now>>

\* One visit for each live entry, none for an expired one.
Foreach ==
  LET live == {e \in entries : ~Expired(e, now)} IN
  /\ ret' = [op |-> "foreach", res |-> live, visits |-> Cardinality(live)]
  /\ UNCHANGED <<entries, now>>

Tick ==
  /\ now' \in Times \ {now}
  /\ UNCHANGED <<entries, ret>>

Next ==
  \/ \E k \in Keys, v \in Values, x \in Expiries : Set(k, v, x)
  \/ \E k \in Keys : Get(k) \/ Exists(k) \/ Del(k)
  \/ \E k \in Keys, x \in Expiries : Expire(k, x)
  \/ \E k \in Keys, later \in Times : Ttl(k, later)
  \/ \E k \in Keys, d \in Int64 : IncrBy(k, d)
  \/ Flush
  \/ Size
  \/ Foreach
  \/ Tick

Spec == Init /\ [][Next]_vars
=============================================================================
