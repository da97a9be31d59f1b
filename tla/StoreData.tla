----------------------------- MODULE StoreData -----------------------------
(***************************************************************************)
(* The data that the store keeps and the inputs its callers hand it.  A    *)
(* byte string is an element of Keys or Values; what matters about a value *)
(* is whether it reads as an integer and as which one.                     *)
(***************************************************************************)
EXTENDS Integers, FiniteSets

CONSTANTS
  Keys,        \* the keys callers use
  Values,      \* the byte strings callers store
  ParseLL,     \* the values that read as an int64, each with its number;
               \* several values may read as one number ("1", "+1", "01")
  FormatLL,    \* each int64 with the value that "%lld" writes for it
  INT64_MIN,   \* the range of int64_t
  INT64_MAX,
  Expiries,    \* the expire_at_ms arguments callers pass; 0 is "no expiry"
  Times        \* the readings of CLOCK_REALTIME, in milliseconds

Int64 == INT64_MIN .. INT64_MAX

ASSUME KeysAssumption == IsFiniteSet(Keys)

ASSUME Int64Assumption ==
  INT64_MIN \in Int /\ INT64_MAX \in Int /\ 0 \in Int64

ASSUME NumbersAssumption ==
  /\ DOMAIN ParseLL \subseteq Values
  /\ ParseLL \in [DOMAIN ParseLL -> Int64]
  /\ FormatLL \in [Int64 -> DOMAIN ParseLL]
  /\ \A n \in Int64 : ParseLL[FormatLL[n]] = n

ASSUME ClockAssumption ==
  Times \subseteq Int /\ Times # {} /\ Expiries \subseteq Int

\* A store_entry_t; its place in a chain belongs to the tables.
Entry == [key : Keys, val : Values, expire_at_ms : Int]

NewEntry(k, v, x) == [key |-> k, val |-> v, expire_at_ms |-> x]

\* The test locate_live makes of an entry against the clock.
Expired(e, at) == e.expire_at_ms # 0 /\ e.expire_at_ms <= at

\* What store_ttl_ms answers for a live entry when its clock reads `at'.
Remaining(e, at) ==
  IF e.expire_at_ms = 0 THEN -1
  ELSE IF e.expire_at_ms - at > 0 THEN e.expire_at_ms - at ELSE 0
=============================================================================
