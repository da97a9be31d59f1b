------------------------------ MODULE CmdProofs ------------------------------
(***************************************************************************)
(* Proofs about the commands of src/cmd.c, for any commands over any keys  *)
(* and values: what every handler leaves behind, how far each loop over    *)
(* keys has come, and from it what the five properties of Cmd say.  What a *)
(* store call does is taken from the laws of StoreValueProofs.             *)
(***************************************************************************)
EXTENDS Cmd, StoreValueProofs

(* The store as every call finds it: its tables are well formed, and each  *)
(* deadline kept is the one promised, as far as an int64 can hold it.      *)
Base ==
  /\ StoreInv(s)
  /\ now \in Times
  /\ due \in [Keys -> SUBSET Int]
  /\ \A k \in Keys : \A a, b \in due[k] : a = b
  /\ \A e \in Contents(s) : e.expire_at_ms = ExpireAt(due[e.key])

(* A command that is over has its reply. *)
Replied(argv, items) ==
  IF argv = <<>> THEN items = <<>> ELSE items # <<>> /\ OneValue(items)

(* What a loop finds when it begins: E is what the store holds. *)
Held0(E) == E \subseteq Entry /\ IsFiniteSet(E) /\ UniqueKeys(E)

(* Only entries with an expiry are gone from E. *)
Lapsed(E, C) == C \subseteq E /\ \A e \in E \ C : e.expire_at_ms # 0

(* The entries of E under the keys that arguments 2 to i - 1 name. *)
Reached(argv, i, E) == {e \in E : \E j \in 2 .. i - 1 : argv[j] = e.key}

(* How many of the arguments 2 to i - 1 name a key of E. *)
Hits(argv, i, E) == Cardinality({j \in 2 .. i - 1 : Held(E, argv[j]) # {}})

(* How far a loop has come that is about to look at argument i, when it    *)
(* has counted n and written `items', began with E and has left C.         *)
DelSoFar(argv, i, n, items, E, C) ==
  /\ items = <<>>
  /\ n = Cardinality(Reached(argv, i, E))
  /\ C = E \ Reached(argv, i, E)

ExistsSoFar(argv, i, n, items, E, C) ==
  /\ items = <<>>
  /\ Lapsed(E, C)
  /\ n \in Int
  /\ Hits(argv, i, {e \in E : e.expire_at_ms = 0}) <= n
  /\ n <= Hits(argv, i, E)

(* The items that MGET writes. *)
MgetItem(argv) ==
  {resp_reply_bulk_string(v) : v \in Values}
    \cup {resp_reply_null_bulk, resp_reply_array_header(Len(argv) - 1)}

MgetSoFar(argv, i, items, E, C) ==
  /\ Lapsed(E, C)
  /\ items \in Seq(MgetItem(argv)) /\ Len(items) = i - 1
  /\ items[1] = resp_reply_array_header(Len(argv) - 1)
  /\ \A j \in 2 .. i - 1 : Fetched(items[j], E, argv[j])

(* The arguments 2 to i - 1 that MSET has taken for keys, and of those the *)
(* ones that it has not met again since.                                   *)
Met(i) == {j \in 2 .. i - 1 : j % 2 = 0}
Latest(argv, i) == {j \in Met(i) : \A m \in Met(i) : argv[m] = argv[j] => m <= j}

MsetSoFar(argv, i, items, E, C) ==
  /\ items = <<>>
  /\ i % 2 = 0
  /\ \A j \in Met(i) : \E m \in Latest(argv, i) : argv[m] = argv[j]
  /\ C = {e \in E : \A j \in Met(i) : argv[j] # e.key}
           \cup {NewEntry(argv[j], argv[j + 1], 0) : j \in Latest(argv, i)}

(* The deadline that EXPIRE has computed is a number, and one. *)
ExpireSoFar(argv, x, items) ==
  /\ items = <<>>
  /\ Len(argv) = 3
  /\ x \in SUBSET Int /\ x # {} /\ \A a, b \in x : a = b

(* The loop of the command argv, whichever it is. *)
SoFar(argv, i, n, x, items, E, C) ==
  \/ arg_eq_ci(argv[1], "DEL") /\ DelSoFar(argv, i, n, items, E, C)
  \/ arg_eq_ci(argv[1], "EXISTS") /\ ExistsSoFar(argv, i, n, items, E, C)
  \/ arg_eq_ci(argv[1], "MGET") /\ MgetSoFar(argv, i, items, E, C)
  \/ /\ arg_eq_ci(argv[1], "MSET") /\ Len(argv) % 2 = 1
     /\ MsetSoFar(argv, i, items, E, C)
  \/ arg_eq_ci(argv[1], "EXPIRE") /\ ExpireSoFar(argv, x, items)

Looping ==
  /\ cmd = [argv |-> cmd.argv, i |-> cmd.i, n |-> cmd.n, x |-> cmd.x,
            before |-> cmd.before]
  /\ out = [argv |-> cmd.argv, items |-> out.items]
  /\ cmd.argv \in Commands
  /\ cmd.i \in 2 .. Len(cmd.argv)
  /\ Held0(cmd.before)
  /\ SoFar(cmd.argv, cmd.i, cmd.n, cmd.x, out.items, cmd.before, Contents(s))

(* The inductive invariant. *)
Inv ==
  /\ Base
  /\ cmd = Idle => Replied(out.argv, out.items)
  /\ cmd # Idle => Looping

(* What a step may do, besides keeping the invariant: the three action     *)
(* properties of Cmd, for one step.                                        *)
ReplyStep == cmd' = Idle => Replied(out'.argv, out'.items)

(* Nothing is lost of E that had not expired, and nothing is new. *)
Untouched(E) ==
  Contents(s') \subseteq E /\ \A e \in E \ Contents(s') : Expired(e, now)

ErrorStep ==
  out' # out /\ resp_reply_error \in Range(out'.items) =>
    Untouched(IF cmd = Idle THEN Contents(s) ELSE cmd.before)

Good == Inv' /\ ReplyStep /\ ErrorStep /\ LoopStep
-----------------------------------------------------------------------------
(* What the store holds can be taken for the start of a loop. *)
LEMMA HeldNow ==
  ASSUME StoreFacts, NEW st, StoreInv(st)
  PROVE  Held0(Contents(st))
<1>1. /\ UniqueKeys(Contents(st))
      /\ IsFiniteSet(Linked(st.ht[0])) /\ IsFiniteSet(Linked(st.ht[1]))
  BY Zenon DEF StoreInv, TableOK
<1>2. IsFiniteSet(Contents(st))
  BY <1>1, Zenon DEF Contents, StoreFacts, UnionCount
<1>3. QED
  BY <1>1, <1>2, ContentsEntries, Zenon DEF Held0

(* A deadline the code computes is an int64, whatever was asked for. *)
LEMMA DeadlineType ==
  ASSUME NEW d \in SUBSET Int, \A a, b \in d : a = b
  PROVE  /\ ExpireAt(d) \in Int
         /\ d = {} => ExpireAt(d) = 0
         /\ \A n \in Int64 : d = {n} => ExpireAt(d) = n
<1>1. ASSUME NEW n \in Int
      PROVE  Wrap(n) \in Int /\ (n \in Int64 => Wrap(n) = n)
  <2> DEFINE w == INT64_MAX - INT64_MIN + 1
             p == n - INT64_MIN
  <2>1. /\ w \in Nat \ {0} /\ p \in Int
        /\ n \in Int64 => p \in 0 .. w - 1
    BY Int64Assumption DEF Int64
  <2>2. p % w \in Int /\ (p \in 0 .. w - 1 => p % w = p)
    BY ONLY <2>1
  <2>3. Wrap(n) = (p % w) + INT64_MIN
    BY Zenon DEF Wrap
  <2> HIDE DEF w
  <2>4. QED
    BY <2>1, <2>2, <2>3, Int64Assumption
<1> DEFINE c == CHOOSE n \in d : TRUE
<1>3. d # {} => c \in d
  BY Zenon
<1>4. ExpireAt(d) = IF d = {} THEN 0 ELSE Wrap(c)
  BY Zenon DEF ExpireAt
<1> HIDE DEF c
<1>5. \A n : d = {n} => c = n
  BY <1>3, Zenon
<1>6. ExpireAt(d) \in Int
  <2>1. CASE d = {}
    BY <1>4, <2>1
  <2>2. CASE d # {}
    BY <1>1, <1>3, <1>4, <2>2, Zenon
  <2>3. QED
    BY <2>1, <2>2, Zenon
<1>7. \A n \in Int64 : d = {n} => ExpireAt(d) = n
  BY <1>1, <1>4, <1>5
<1>8. QED
  BY <1>4, <1>6, <1>7, Zenon

(* A store call keeps the promises: an entry left behind is an old one,    *)
(* or is under the key of the call with the deadline that is noted for it. *)
Promised(r, k, d) ==
  \A e \in Contents(r.s) :
    \/ e \in Contents(s) /\ (e.key = k => d = due[k])
    \/ e.key = k /\ e.expire_at_ms = ExpireAt(d)

LEMMA CallKeeps ==
  ASSUME StoreFacts, Base, NEW r, NEW k \in Keys, NEW d \in SUBSET Int,
         \A a, b \in d : a = b, StoreInv(r.s), Promised(r, k, d),
         Call(r, k, d), now' \in Times
  PROVE  Base'
<1>1. s' = r.s /\ StoreInv(s')
  BY Zenon DEF Call
<1>2. due' = [j \in Keys |-> IF \A e \in Contents(r.s) : e.key # j THEN {}
                              ELSE IF j = k THEN d ELSE due[j]]
  BY Zenon DEF Call
<1>3. due \in [Keys -> SUBSET Int] /\ \A j \in Keys : \A a, b \in due[j] : a = b
  BY Zenon DEF Base
<1>4. due' \in [Keys -> SUBSET Int]
  BY <1>2, <1>3
<1>5. \A j \in Keys : \A a, b \in due'[j] : a = b
  BY <1>2, <1>3, Zenon
<1>6. ASSUME NEW e \in Contents(r.s)
      PROVE  e.expire_at_ms = ExpireAt(due'[e.key])
  <2>1. e.key \in Keys
    BY ContentsEntries DEF Entry
  <2>2. due'[e.key] = IF e.key = k THEN d ELSE due[e.key]
    BY <1>2, <2>1, Zenon
  <2>3. CASE e \in Contents(s) /\ (e.key = k => d = due[k])
    <3>1. e.expire_at_ms = ExpireAt(due[e.key])
      BY <2>3, Zenon DEF Base
    <3>2. QED
      BY <2>2, <2>3, <3>1, Zenon
  <2>4. CASE e.key = k /\ e.expire_at_ms = ExpireAt(d)
    BY <2>2, <2>4, Zenon
  <2>5. QED
    BY <2>3, <2>4, Zenon DEF Promised
<1>7. \A e \in Contents(s') : e.expire_at_ms = ExpireAt(due'[e.key])
  BY <1>1, <1>6, Zenon
<1>8. QED
  BY <1>1, <1>4, <1>5, <1>7, Zenon DEF Base

LEMMA SameBase ==
  ASSUME Base, UNCHANGED <<s, due>>, now' \in Times
  PROVE  Base'
<1>1. s' = s /\ due' = due
  OBVIOUS
<1>2. /\ StoreInv(s') /\ due' \in [Keys -> SUBSET Int]
      /\ \A k \in Keys : \A a, b \in due'[k] : a = b
  BY <1>1, Zenon DEF Base
<1>3. \A e \in Contents(s') : e.expire_at_ms = ExpireAt(due'[e.key])
  BY <1>1, Zenon DEF Base
<1>4. QED
  BY <1>2, <1>3, Zenon DEF Base
-----------------------------------------------------------------------------
(* The handlers without a loop.  Each answers in the step it begins in. *)
LEMMA Immediate ==
  ASSUME Inv, cmd = Idle, Base', NEW argv, NEW items, Answer(argv, items),
         Replied(argv, items),
         resp_reply_error \in Range(items) => Untouched(Contents(s))
  PROVE  Good
<1>1. cmd' = Idle /\ out'.argv = argv /\ out'.items = items
  BY DEF Answer
<1>2. Inv'
  BY <1>1, Zenon DEF Inv, Idle
<1>3. ReplyStep /\ LoopStep
  BY <1>1, Zenon DEF ReplyStep, LoopStep
<1>4. ErrorStep
  BY <1>1, Zenon DEF ErrorStep
<1>5. QED
  BY <1>2, <1>3, <1>4, Zenon DEF Good

(* One item that opens no array is a whole reply. *)
LEMMA OneItem ==
  ASSUME NEW argv, argv # <<>>, NEW x, x.type # "array"
  PROVE  Replied(argv, <<x>>)
<1>1. <<x>> # <<>> /\ <<x>>[1] = x /\ Len(<<x>>) = 1
  OBVIOUS
<1>2. QED
  BY <1>1, Zenon DEF Replied, OneValue

(* A handler that makes no store call. *)
LEMMA Quiet ==
  ASSUME Inv, cmd = Idle, NEW argv, NEW items, Answer(argv, items), NoCall,
         Replied(argv, items)
  PROVE  Good
<1>1. s' = s /\ now' = now /\ due' = due
  BY Zenon DEF NoCall
<1>2. Base'
  BY <1>1, SameBase, Zenon DEF Inv, Base
<1>3. Untouched(Contents(s))
  BY <1>1, Zenon DEF Untouched
<1>4. QED
  BY <1>2, <1>3, Immediate, Zenon

LEMMA Refused ==
  ASSUME Inv, cmd = Idle, NEW argv, argv # <<>>, Refuse(argv)
  PROVE  Good
<1>1. resp_reply_error.type # "array"
  BY DEF resp_reply_error
<1>2. QED
  BY <1>1, OneItem, Quiet, Zenon DEF Refuse

(* A handler that makes one store call and answers it with one item. *)
LEMMA Called ==
  ASSUME StoreFacts, Inv, cmd = Idle, NEW argv, argv # <<>>,
         NEW r, NEW k \in Keys, NEW d \in SUBSET Int, \A a, b \in d : a = b,
         StoreInv(r.s), Promised(r, k, d), Call(r, k, d), now' \in Times,
         NEW x, x.type # "array", Answer(argv, <<x>>),
         x.type = "error" => Untouched(Contents(s))
  PROVE  Good
<1>1. Base'
  BY CallKeeps, Zenon DEF Inv
<1>2. resp_reply_error \in Range(<<x>>) => x.type = "error"
  BY DEF Range, resp_reply_error
<1>3. QED
  BY <1>1, <1>2, OneItem, Immediate, Zenon

(* The replies that are one item. *)
LEMMA ItemTypes ==
  /\ resp_reply_simple_string.type = "simple"
  /\ resp_reply_error.type = "error"
  /\ resp_reply_null_bulk.type = "null"
  /\ \A n : resp_reply_integer(n).type = "integer" /\ resp_reply_integer(n).n = n
  /\ \A v : resp_reply_bulk_string(v).type = "bulk"
  /\ \A v : Found(v).type \in {"null", "bulk"}
  /\ \A n : resp_reply_array_header(n).type = "array" /\ resp_reply_array_header(n).n = n
BY DEF resp_reply_simple_string, resp_reply_error, resp_reply_null_bulk,
  resp_reply_integer, resp_reply_bulk_string, Found, resp_reply_array_header

(* What the handlers take from their arguments. *)
LEMMA ArgvShape ==
  ASSUME NEW argv \in Commands
  PROVE  /\ Len(argv) \in Nat
         /\ DOMAIN argv = 1 .. Len(argv)
         /\ argv = <<>> <=> Len(argv) = 0
<1>1. argv \in Seq(Range(argv))
  BY CommandsAssumption, Zenon
<1>2. QED
  BY <1>1

LEMMA KeyArg ==
  ASSUME NEW argv \in Commands, Len(argv) >= 2,
         Upper(argv[1]) \in {"SET", "GET", "EXPIRE", "TTL", "PTTL",
                             "INCR", "DECR", "INCRBY", "DECRBY"}
  PROVE  argv[2] \in Keys
<1>1. 2 \in 2 .. Len(argv)
  BY ArgvShape
<1>2. 2 \in KeyPlaces(argv)
  BY <1>1, Zenon DEF KeyPlaces
<1>3. QED
  BY <1>2, CommandsAssumption, Zenon

LEMMA ParseIs ==
  ASSUME NEW arg
  PROVE  /\ parse_strict_ll(arg) \in SUBSET Int64
         /\ \A a, b \in parse_strict_ll(arg) : a = b
<1>1. \A a \in DOMAIN ParseLL : ParseLL[a] \in Int64
  BY NumbersAssumption
<1>2. QED
  BY <1>1, Zenon DEF parse_strict_ll

(* What a call leaves of the key's promise. *)
LEMMA PromiseNew ==
  ASSUME NEW r, NEW k, NEW d, NEW X,
         Contents(r.s) = (Contents(s) \ HeldIn(s, k)) \cup X,
         \A e \in X : e.key = k /\ e.expire_at_ms = ExpireAt(d)
  PROVE  Promised(r, k, d)
BY Zenon DEF Promised, HeldIn

LEMMA PromiseKept ==
  ASSUME NEW r, NEW k, NEW d, NEW at, Contents(r.s) = PurgedIn(s, k, at),
         d = due[k] \/ LiveHeldIn(s, k, at) = {}
  PROVE  Promised(r, k, d)
BY Zenon DEF Promised, HeldIn, LiveHeldIn, PurgedIn

LEMMA PurgeUntouched ==
  ASSUME NEW k, Contents(s') = PurgedIn(s, k, now)
  PROVE  Untouched(Contents(s))
BY Zenon DEF Untouched, PurgedIn
-----------------------------------------------------------------------------
(* SET, with an expiry or without (src/cmd.c, cmd_set). *)
LEMMA SetDeadlineIs ==
  ASSUME now \in Times, NEW opt, NEW n \in SUBSET Int64, \A a, b \in n : a = b
  PROVE  /\ SetDeadline(opt, n) \in SUBSET Int
         /\ \A a, b \in SetDeadline(opt, n) : a = b
<1> DEFINE u == IF arg_eq_ci(opt, "EX") THEN MsPerSec ELSE 1
           m == {j \in n : j > 0 /\ Upper(opt) \in {"EX", "PX"}}
<1>1. SetDeadline(opt, n) = {now + i * u : i \in m}
  BY Zenon DEF SetDeadline
<1>2. /\ u \in Int /\ now \in Int
      /\ m \subseteq n /\ \A i \in n : i \in Int
  <2>1. \A i \in Int64 : i \in Int
    BY Int64Assumption DEF Int64
  <2>2. MsPerSec \in Int /\ now \in Int /\ 1 \in Int
    BY CmdAssumption, ClockAssumption
  <2>3. QED
    BY <2>1, <2>2, Zenon
<1> HIDE DEF u, m
<1>3. \A i \in m : now + i * u \in Int
  BY <1>2
<1>4. QED
  BY <1>1, <1>2, <1>3, Zenon

LEMMA SetGood ==
  ASSUME StoreFacts, Inv, cmd = Idle, NEW argv \in Commands, argv # <<>>,
         arg_eq_ci(argv[1], "SET"), cmd_set(argv)
  PROVE  Good
<1> DEFINE d == IF Len(argv) = 5 THEN SetDeadline(argv[4], parse_strict_ll(argv[5]))
                ELSE {}
           k == argv[2]
           r == store_set(s, k, argv[3], ExpireAt(d))
<1>1. d \in SUBSET Int /\ \A a, b \in d : a = b
  BY SetDeadlineIs, ParseIs, Zenon DEF Inv, Base
<1>2. \/ Refuse(argv)
      \/ /\ Len(argv) \in {3, 5} /\ Call(r, k, d)
         /\ Answer(argv, <<resp_reply_simple_string>>) /\ now' = now
  BY Zenon DEF cmd_set
<1> HIDE DEF d
<1>3. CASE Refuse(argv)
  BY <1>3, Refused, Zenon
<1>4. CASE /\ Len(argv) \in {3, 5} /\ Call(r, k, d)
           /\ Answer(argv, <<resp_reply_simple_string>>) /\ now' = now
  <2>1. Upper(argv[1]) = "SET" /\ Len(argv) >= 2
    BY <1>4 DEF arg_eq_ci
  <2>2. k \in Keys
    BY <2>1, KeyArg, Zenon
  <2>3. 3 \in ValuePlaces(argv)
    BY <1>4, <2>1 DEF ValuePlaces
  <2>4. argv[3] \in Values
    BY <2>3, CommandsAssumption, Zenon
  <2>5. ExpireAt(d) \in Int
    BY <1>1, DeadlineType, Zenon
  <2>6. /\ StoreInv(r.s) /\ Progress(r.s, s)
        /\ Contents(r.s) = (Contents(s) \ HeldIn(s, k))
                             \cup {NewEntry(k, argv[3], ExpireAt(d))}
        /\ r.res = IF HeldIn(s, k) = {} THEN 1 ELSE 0
    <3> HIDE DEF k
    <3>1. StoreInv(s)
      BY Zenon DEF Inv, Base
    <3>2. QED
      BY <2>2, <2>4, <2>5, <3>1, SetLaw, Zenon
  <2>7. /\ NewEntry(k, argv[3], ExpireAt(d)).key = k
        /\ NewEntry(k, argv[3], ExpireAt(d)).expire_at_ms = ExpireAt(d)
    BY DEF NewEntry
  <2> HIDE DEF k, r
  <2>8. \A e \in {NewEntry(k, argv[3], ExpireAt(d))} :
          e.key = k /\ e.expire_at_ms = ExpireAt(d)
    BY <2>7, Zenon
  <2>9. Promised(r, k, d)
    BY <2>6, <2>8, PromiseNew, Zenon
  <2>10. resp_reply_simple_string.type # "array" /\ resp_reply_simple_string.type # "error"
    BY ItemTypes
  <2>11. now' \in Times
    BY <1>4, Zenon DEF Inv, Base
  <2>12. QED
    BY <1>1, <1>4, <2>2, <2>6, <2>9, <2>10, <2>11, Called, Zenon
<1>5. QED
  BY <1>2, <1>3, <1>4, Zenon

(* GET (src/cmd.c, cmd_get). *)
LEMMA GetGood ==
  ASSUME StoreFacts, Inv, cmd = Idle, NEW argv \in Commands, argv # <<>>,
         arg_eq_ci(argv[1], "GET"), cmd_get(argv)
  PROVE  Good
<1> DEFINE k == argv[2]
           r == store_get(s, k, now)
           L == LiveHeldIn(s, k, now)
           q == store_exists(s, k, now)
<1>1. \/ Refuse(argv)
      \/ /\ Len(argv) = 2 /\ Call(r, k, due[k])
         /\ Answer(argv, <<Found(r.res)>>) /\ now' = now
  BY Zenon DEF cmd_get
<1>2. CASE Refuse(argv)
  BY <1>2, Refused, Zenon
<1>3. CASE /\ Len(argv) = 2 /\ Call(r, k, due[k])
           /\ Answer(argv, <<Found(r.res)>>) /\ now' = now
  <2>1. Upper(argv[1]) = "GET" /\ Len(argv) >= 2
    BY <1>3 DEF arg_eq_ci
  <2>2. k \in Keys
    BY <2>1, KeyArg, Zenon
  <2> HIDE DEF k
  <2>3. StoreInv(s) /\ now' \in Times
    BY <1>3, Zenon DEF Inv, Base
  <2>4. /\ StoreInv(r.s) /\ Progress(r.s, s)
        /\ Contents(r.s) = PurgedIn(s, k, now)
        /\ q.s = r.s
        /\ r.res = {e.val : e \in L}
        /\ q.res = IF L = {} THEN 0 ELSE 1
    BY <2>2, <2>3, LookupLaw, Zenon
  <2>5. due[k] \in SUBSET Int /\ \A a, b \in due[k] : a = b
    BY <2>2 DEF Inv, Base
  <2> HIDE DEF r, L
  <2>6. Promised(r, k, due[k])
    BY <2>4, PromiseKept, Zenon
  <2>7. Found(r.res).type # "array" /\ Found(r.res).type # "error"
    BY ItemTypes
  <2>8. QED
    BY <1>3, <2>2, <2>3, <2>4, <2>5, <2>6, <2>7, Called, Zenon
<1>4. QED
  BY <1>1, <1>2, <1>3, Zenon

(* TTL and PTTL (src/cmd.c, cmd_ttl_generic). *)
LEMMA TtlGood ==
  ASSUME StoreFacts, Inv, cmd = Idle, NEW argv \in Commands, argv # <<>>,
         Upper(argv[1]) \in {"TTL", "PTTL"}, NEW unit, cmd_ttl_generic(argv, unit)
  PROVE  Good
<1> DEFINE k == argv[2]
           r(later) == store_ttl_ms(s, k, now, later)
           ms(later) == CHOOSE t \in r(later).res : TRUE
           n(later) == IF ms(later) < 0 THEN ms(later)
                       ELSE (ms(later) + unit - 1) \div unit
           L == LiveHeldIn(s, k, now)
<1>1. \/ Refuse(argv)
      \/ Len(argv) = 2 /\ \E later \in Times :
            /\ Call(r(later), k, due[k])
            /\ Answer(argv, <<resp_reply_integer(n(later))>>)
            /\ now' = later
  BY Zenon DEF cmd_ttl_generic
<1>2. CASE Refuse(argv)
  BY <1>2, Refused, Zenon
<1>3. ASSUME Len(argv) = 2, NEW later \in Times, Call(r(later), k, due[k]),
             Answer(argv, <<resp_reply_integer(n(later))>>), now' = later
      PROVE  Good
  <2>1. Upper(argv[1]) \in {"TTL", "PTTL"} /\ Len(argv) >= 2
    BY <1>3
  <2>2. k \in Keys
    BY <2>1, KeyArg, Zenon
  <2> HIDE DEF k
  <2>3. StoreInv(s) /\ now' \in Times
    BY <1>3, Zenon DEF Inv, Base
  <2>4. /\ StoreInv(r(later).s) /\ Progress(r(later).s, s)
        /\ Contents(r(later).s) = PurgedIn(s, k, now)
        /\ L = {} => r(later).res = {-2}
        /\ L # {} => r(later).res = {Remaining(e, later) : e \in L}
    BY <2>2, <2>3, TtlLaw, ZenonT(40)
  <2>5. due[k] \in SUBSET Int /\ \A a, b \in due[k] : a = b
    BY <2>2 DEF Inv, Base
  <2> HIDE DEF r, n, L
  <2>6. Promised(r(later), k, due[k])
    BY <2>4, PromiseKept, Zenon
  <2>7. /\ resp_reply_integer(n(later)).type # "array"
        /\ resp_reply_integer(n(later)).type # "error"
    BY ItemTypes
  <2>8. QED
    BY <1>3, <2>2, <2>3, <2>4, <2>5, <2>6, <2>7, Called, Zenon
<1>4. QED
  BY <1>1, <1>2, <1>3, Zenon

(* INCR, DECR, INCRBY and DECRBY: what a live key keeps, what an absent    *)
(* one is given, and what is left when the increment is refused            *)
(* (src/cmd.c, reply_incr_result; src/store.c, store_incrby).              *)
LEMMA IncrPromise ==
  ASSUME StoreFacts, Base, NEW k \in Keys, NEW d, NEW r,
         Incremented(r, s, k, d, now), NEW x,
         x = IF LiveHeldIn(s, k, now) # {} THEN due[k] ELSE {}
  PROVE  /\ Promised(r, k, x)
         /\ \/ \E n : r.res = <<"ok", n>>
            \/ /\ r.res \in {<<"not_integer">>, <<"overflow">>}
               /\ Contents(r.s) = PurgedIn(s, k, now)
<1> DEFINE L == LiveHeldIn(s, k, now)
           N == NumbersOf(L)
           X == KeptOf(L)
<1>1. \/ /\ Contents(r.s) = PurgedIn(s, k, now)
         /\ r.res \in {<<"not_integer">>, <<"overflow">>}
      \/ \E n \in N, y \in X :
           /\ Contents(r.s) = (Contents(s) \ HeldIn(s, k))
                                \cup {NewEntry(k, FormatLL[n + d], y)}
           /\ r.res = <<"ok", n + d>>
  BY Zenon DEF Incremented
<1>2. CASE /\ Contents(r.s) = PurgedIn(s, k, now)
           /\ r.res \in {<<"not_integer">>, <<"overflow">>}
  <2>1. x = due[k] \/ LiveHeldIn(s, k, now) = {}
    BY Zenon
  <2>2. QED
    BY <1>2, <2>1, PromiseKept, Zenon
<1>3. ASSUME NEW n \in N, NEW y \in X,
             Contents(r.s) = (Contents(s) \ HeldIn(s, k))
                               \cup {NewEntry(k, FormatLL[n + d], y)},
             r.res = <<"ok", n + d>>
      PROVE  Promised(r, k, x)
  <2>1. y = ExpireAt(x)
    <3>1. CASE L = {}
      BY <3>1, Zenon DEF KeptOf, ExpireAt
    <3>2. CASE L # {}
      <4>1. PICK e \in L : y = e.expire_at_ms
        BY <3>2, Zenon DEF KeptOf
      <4>2. e \in Contents(s) /\ e.key = k
        BY <4>1, Zenon DEF LiveHeldIn, HeldIn
      <4>3. e.expire_at_ms = ExpireAt(due[e.key])
        BY <4>2, Zenon DEF Base
      <4>4. QED
        BY <3>2, <4>1, <4>2, <4>3, Zenon
    <3>3. QED
      BY <3>1, <3>2, Zenon
  <2> DEFINE f == NewEntry(k, FormatLL[n + d], y)
  <2>2. f.key = k /\ f.expire_at_ms = y
    BY DEF NewEntry
  <2> HIDE DEF f
  <2>3. \A e \in {f} : e.key = k /\ e.expire_at_ms = ExpireAt(x)
    BY <2>1, <2>2, Zenon
  <2>4. Contents(r.s) = (Contents(s) \ HeldIn(s, k)) \cup {f}
    BY <1>3, Zenon DEF f
  <2>5. QED
    BY <2>3, <2>4, PromiseNew, Zenon
<1>4. QED
  BY <1>1, <1>2, <1>3, Zenon

LEMMA IncrGood ==
  ASSUME StoreFacts, Inv, cmd = Idle, NEW argv \in Commands, argv # <<>>,
         Upper(argv[1]) \in {"INCR", "DECR", "INCRBY", "DECRBY"}, Len(argv) >= 2,
         NEW d \in Int64, IncrBy(argv, d)
  PROVE  Good
<1> DEFINE k == argv[2]
           r == store_incrby(s, k, d, now)
           x == IF LiveHeldIn(s, k, now) # {} THEN due[k] ELSE {}
<1>1. (\E e \in Contents(s) : e.key = k /\ ~Expired(e, now))
        <=> LiveHeldIn(s, k, now) # {}
  BY Zenon DEF LiveHeldIn, HeldIn
<1>2. Call(r, k, x) /\ Answer(argv, reply_incr_result(r.res)) /\ now' = now
  BY <1>1, Zenon DEF IncrBy
<1>3. k \in Keys
  BY KeyArg, Zenon
<1> HIDE DEF k
<1>4. Base /\ StoreInv(s) /\ now' \in Times
  BY <1>2, Zenon DEF Inv, Base
<1>5. StoreInv(r.s) /\ Progress(r.s, s) /\ Incremented(r, s, k, d, now)
  BY <1>3, <1>4, IncrLaw, Zenon
<1> HIDE DEF r
<1>6. due[k] \in SUBSET Int /\ \A a, b \in due[k] : a = b
  BY <1>3 DEF Inv, Base
<1>7. x \in SUBSET Int /\ \A a, b \in x : a = b
  BY <1>6, Zenon
<1>8. /\ Promised(r, k, x)
      /\ \/ \E n : r.res = <<"ok", n>>
         \/ /\ r.res \in {<<"not_integer">>, <<"overflow">>}
            /\ Contents(r.s) = PurgedIn(s, k, now)
  BY <1>3, <1>4, <1>5, IncrPromise, Zenon
<1> HIDE DEF x
<1>9. CASE \E n : r.res = <<"ok", n>>
  <2>1. PICK n : r.res = <<"ok", n>>
    BY <1>9, Zenon
  <2>2. reply_incr_result(r.res) = <<resp_reply_integer(n)>>
    BY <2>1 DEF reply_incr_result
  <2>3. resp_reply_integer(n).type # "array" /\ resp_reply_integer(n).type # "error"
    BY ItemTypes
  <2>4. Answer(argv, <<resp_reply_integer(n)>>)
    BY <1>2, <2>2, Zenon
  <2>5. QED
    BY <1>2, <1>3, <1>4, <1>5, <1>7, <1>8, <2>3, <2>4, Called, Zenon
<1>10. CASE /\ r.res \in {<<"not_integer">>, <<"overflow">>}
            /\ Contents(r.s) = PurgedIn(s, k, now)
  <2>1. r.res[1] # "ok"
    BY <1>10
  <2>2. Answer(argv, <<resp_reply_error>>)
    BY <1>2, <2>1, Zenon DEF reply_incr_result
  <2>3. Contents(s') = PurgedIn(s, k, now)
    BY <1>2, <1>10, Zenon DEF Call
  <2>4. Untouched(Contents(s))
    BY <2>3, PurgeUntouched, Zenon
  <2>5. resp_reply_error.type # "array"
    BY ItemTypes
  <2>6. QED
    BY <1>2, <1>3, <1>4, <1>5, <1>7, <1>8, <2>2, <2>4, <2>5, Called, Zenon
<1>11. QED
  BY <1>8, <1>9, <1>10, Zenon

LEMMA IncrOneGood ==
  ASSUME StoreFacts, Inv, cmd = Idle, NEW argv \in Commands, argv # <<>>,
         \/ arg_eq_ci(argv[1], "INCR") /\ cmd_incr(argv)
         \/ arg_eq_ci(argv[1], "DECR") /\ cmd_decr(argv)
  PROVE  Good
<1>1. 1 \in Int64 /\ -1 \in Int64
  BY RangeAssumption, Int64Assumption DEF Int64
<1>2. CASE Refuse(argv)
  BY <1>2, Refused, Zenon
<1>3. CASE /\ Len(argv) = 2 /\ Upper(argv[1]) \in {"INCR", "DECR"}
           /\ IncrBy(argv, 1) \/ IncrBy(argv, -1)
  <2>1. Len(argv) >= 2
    BY <1>3
  <2>2. QED
    BY <1>1, <1>3, <2>1, IncrGood, Zenon
<1>4. QED
  BY <1>2, <1>3, Zenon DEF arg_eq_ci, cmd_incr, cmd_decr

LEMMA IncrByGood ==
  ASSUME StoreFacts, Inv, cmd = Idle, NEW argv \in Commands, argv # <<>>,
         \/ arg_eq_ci(argv[1], "INCRBY") /\ cmd_incrby(argv)
         \/ arg_eq_ci(argv[1], "DECRBY") /\ cmd_decrby(argv)
  PROVE  Good
<1> DEFINE delta == IF Len(argv) = 3 THEN parse_strict_ll(argv[3]) ELSE {}
<1>1. delta \in SUBSET Int64 /\ \A a, b \in delta : a = b
  BY ParseIs, Zenon
<1>2. CASE Refuse(argv)
  BY <1>2, Refused, Zenon
<1>3. /\ Upper(argv[1]) \in {"INCRBY", "DECRBY"}
      /\ \/ Refuse(argv)
         \/ delta # {} /\ \E d \in delta : IncrBy(argv, 1 * d)
         \/ delta # {} /\ delta # {INT64_MIN} /\ \E d \in delta : IncrBy(argv, (-1) * d)
  <2>1. ASSUME NEW sign, cmd_incrby_generic(argv, sign)
        PROVE  \/ Refuse(argv)
               \/ /\ delta # {} /\ ~(sign = -1 /\ delta = {INT64_MIN})
                  /\ \E d \in delta : IncrBy(argv, sign * d)
    BY <2>1, Zenon DEF cmd_incrby_generic
  <2> HIDE DEF delta
  <2>2. CASE arg_eq_ci(argv[1], "INCRBY") /\ cmd_incrby(argv)
    BY <2>1, <2>2, Zenon DEF arg_eq_ci, cmd_incrby
  <2>3. CASE arg_eq_ci(argv[1], "DECRBY") /\ cmd_decrby(argv)
    BY <2>1, <2>3, Zenon DEF arg_eq_ci, cmd_decrby
  <2>4. QED
    BY <2>2, <2>3, Zenon
<1>4. delta # {} => Len(argv) >= 2
  OBVIOUS
<1> HIDE DEF delta
<1>5. ASSUME NEW d \in delta, IncrBy(argv, 1 * d)
      PROVE  Good
  <2>1. 1 * d \in Int64
    BY <1>1, Int64Assumption DEF Int64
  <2>2. QED
    BY <1>3, <1>4, <1>5, <2>1, IncrGood, Zenon
<1>6. ASSUME NEW d \in delta, delta # {INT64_MIN}, IncrBy(argv, (-1) * d)
      PROVE  Good
  <2>1. d # INT64_MIN /\ d \in Int64
    BY <1>1, <1>6, Zenon
  <2>2. (-1) * d \in Int64
    BY <2>1, RangeAssumption, Int64Assumption DEF Int64
  <2>3. QED
    BY <1>3, <1>4, <1>6, <2>2, IncrGood, Zenon
<1>7. QED
  BY <1>2, <1>3, <1>5, <1>6, Zenon

(* The handlers that make no store call and answer with one item. *)
LEMMA PlainGood ==
  ASSUME Inv, cmd = Idle, NEW argv, argv # <<>>,
         \/ cmd_ping(argv) \/ cmd_echo(argv) \/ cmd_dbsize(argv) \/ cmd_lastsave(argv)
  PROVE  Good
<1>1. CASE Refuse(argv)
  BY <1>1, Refused, Zenon
<1>2. ASSUME NEW x, x.type # "array", Answer(argv, <<x>>), NoCall
      PROVE  Good
  BY <1>2, OneItem, Quiet, Zenon
<1>3. /\ resp_reply_simple_string.type # "array"
      /\ \A n : resp_reply_integer(n).type # "array"
      /\ \A v : resp_reply_bulk_string(v).type # "array"
  BY ItemTypes
<1>4. CASE cmd_ping(argv)
  BY <1>1, <1>2, <1>3, <1>4, Zenon DEF cmd_ping
<1>5. CASE cmd_echo(argv)
  BY <1>1, <1>2, <1>3, <1>5, Zenon DEF cmd_echo
<1>6. CASE cmd_dbsize(argv) \/ cmd_lastsave(argv)
  BY <1>1, <1>2, <1>3, <1>6, Zenon DEF cmd_dbsize, cmd_lastsave
<1>7. QED
  BY <1>4, <1>5, <1>6, Zenon

(* SAVE and BGSAVE note a time and leave the store alone. *)
LEMMA SaveGood ==
  ASSUME Inv, cmd = Idle, NEW argv, argv # <<>>, cmd_save(argv) \/ cmd_bgsave(argv)
  PROVE  Good
<1>1. CASE Refuse(argv)
  BY <1>1, Refused, Zenon
<1>2. CASE Saves(argv)
  <2>1. /\ Answer(argv, <<resp_reply_simple_string>>)
        /\ s' = s /\ now' = now /\ due' = due
    BY <1>2, Zenon DEF Saves
  <2>2. Base'
    BY <2>1, SameBase, Zenon DEF Inv, Base
  <2>3. Untouched(Contents(s))
    BY <2>1, Zenon DEF Untouched
  <2>4. resp_reply_simple_string.type # "array"
    BY ItemTypes
  <2>5. QED
    BY <2>1, <2>2, <2>3, <2>4, OneItem, Immediate, Zenon
<1>3. QED
  BY <1>1, <1>2, Zenon DEF cmd_save, cmd_bgsave

(* FLUSHDB leaves an empty store and no promise. *)
LEMMA FlushGood ==
  ASSUME StoreFacts, Inv, cmd = Idle, NEW argv, argv # <<>>, cmd_flushdb(argv)
  PROVE  Good
<1>1. CASE Refuse(argv)
  BY <1>1, Refused, Zenon
<1>2. CASE /\ s' = store_flush(s).s /\ due' = [k \in Keys |-> {}] /\ now' = now
           /\ Answer(argv, <<resp_reply_simple_string>>)
  <2>1. store_flush(s).s = store_create
    BY DEF store_flush
  <2>2. StoreInv(s') /\ Contents(s') = {}
    BY <1>2, <2>1, CreateInv, Zenon
  <2>3. due' \in [Keys -> SUBSET Int] /\ \A k \in Keys : due'[k] = {}
    BY <1>2
  <2>4. now' \in Times
    BY <1>2, Zenon DEF Inv, Base
  <2>5. Base'
    BY <2>2, <2>3, <2>4, Zenon DEF Base
  <2>6. /\ resp_reply_simple_string.type # "array"
        /\ ~(resp_reply_error \in Range(<<resp_reply_simple_string>>))
    BY ItemTypes DEF Range
  <2>7. QED
    BY <1>2, <2>5, <2>6, OneItem, Immediate, Zenon
<1>3. QED
  BY <1>1, <1>2, Zenon DEF cmd_flushdb

(* KEYS: the header counts the items that follow it. *)
LEMMA KeysGood ==
  ASSUME StoreFacts, Inv, cmd = Idle, NEW argv, argv # <<>>, cmd_keys(argv)
  PROVE  Good
<1> DEFINE f == store_foreach(s, now)
           order == CHOOSE o \in Surjection(1 .. f.visits, {e.key : e \in f.res}) : TRUE
           items == [i \in 1 .. f.visits |-> resp_reply_bulk_string(order[i])]
           h == resp_reply_array_header(f.visits)
           live == {e \in Contents(s) : ~Expired(e, now)}
<1>1. CASE Refuse(argv)
  BY <1>1, Refused, Zenon
<1>2. CASE Answer(argv, <<h>> \o items) /\ NoCall
  <2>1. StoreInv(s)
    BY Zenon DEF Inv, Base
  <2>2. f.visits = Cardinality(live)
    BY <2>1, ForeachLaw, Zenon
  <2>3. IsFiniteSet(Contents(s)) /\ live \subseteq Contents(s)
    BY <2>1, HeldNow, Zenon DEF Held0
  <2>4. f.visits \in Nat
    BY <2>2, <2>3, Zenon DEF StoreFacts, SubsetCount, CountType
  <2> DEFINE v == f.visits
             all == <<h>> \o items
  <2> HIDE DEF f, order
  <2>5. items \in Seq({resp_reply_bulk_string(order[i]) : i \in 1 .. v})
    BY <2>4
  <2>6. Len(items) = v /\ \A i \in 1 .. v : items[i].type = "bulk"
    BY <2>4, ItemTypes
  <2>7. h.type = "array" /\ h.n = v
    BY ItemTypes, Zenon
  <2> HIDE DEF items, h
  <2>8. /\ all # <<>> /\ Len(all) = 1 + v /\ all[1] = h
        /\ \A i \in 2 .. 1 + v : all[i] = items[i - 1]
    BY <2>4, <2>5, <2>6
  <2>9. \A i \in 2 .. 1 + v : i - 1 \in 1 .. v
    BY <2>4
  <2> HIDE DEF all, v
  <2>10. Replied(argv, all)
    <3>1. all[1].type = "array" /\ Len(all) = 1 + all[1].n
      BY <2>7, <2>8, Zenon
    <3>2. \A i \in 2 .. Len(all) : all[i].type = "bulk"
      BY <2>6, <2>8, <2>9, Zenon
    <3>3. QED
      BY <2>8, <3>1, <3>2, Zenon DEF Replied, OneValue
  <2>11. QED
    BY <1>2, <2>10, Quiet, Zenon DEF all
<1>3. QED
  <2>1. keys_collect(f) = [count |-> f.visits, items |-> items]
    BY Zenon DEF keys_collect
  <2> HIDE DEF items, f
  <2>2. keys_collect(f).count = f.visits /\ keys_collect(f).items = items
    BY <2>1
  <2>3. <<resp_reply_array_header(keys_collect(f).count)>> \o keys_collect(f).items
          = <<h>> \o items
    BY <2>2
  <2>4. \/ Refuse(argv)
        \/ Answer(argv, <<resp_reply_array_header(keys_collect(f).count)>>
                          \o keys_collect(f).items) /\ NoCall
    BY Zenon DEF cmd_keys, f
  <2>5. QED
    BY <1>1, <1>2, <2>3, <2>4, Zenon
-----------------------------------------------------------------------------
(* The handlers with a loop, and EXPIRE, which computes its deadline first.*)
(* A step that leaves a loop under way, at its beginning or further on.    *)
LEMMA LoopOn ==
  ASSUME Base', NEW argv \in Commands, NEW i \in 2 .. Len(argv), NEW n, NEW x,
         NEW items, NEW E, Held0(E), Loop(argv, i, n, x, E),
         out' = [argv |-> argv, items |-> items],
         ~(resp_reply_error \in Range(items)),
         SoFar(argv, i, n, x, items, E, Contents(s'))
  PROVE  Good
<1>1. cmd' = [argv |-> argv, i |-> i, n |-> n, x |-> x, before |-> E]
  BY Zenon DEF Loop
<1>2. /\ cmd'.argv = argv /\ cmd'.i = i /\ cmd'.n = n /\ cmd'.x = x
      /\ cmd'.before = E /\ out'.argv = argv /\ out'.items = items
  BY <1>1
<1>3. argv # <<>> /\ Idle.argv = <<>>
  BY ArgvShape DEF Idle
<1>4. cmd' # Idle
  BY <1>2, <1>3, Zenon
<1>5. /\ cmd' = [argv |-> cmd'.argv, i |-> cmd'.i, n |-> cmd'.n, x |-> cmd'.x,
                 before |-> cmd'.before]
      /\ out' = [argv |-> cmd'.argv, items |-> out'.items]
  BY <1>1, <1>2, Zenon
<1>6. /\ cmd'.argv \in Commands /\ cmd'.i \in 2 .. Len(cmd'.argv) /\ Held0(cmd'.before)
      /\ SoFar(cmd'.argv, cmd'.i, cmd'.n, cmd'.x, out'.items, cmd'.before, Contents(s'))
  BY <1>2, Zenon
<1>7. Looping'
  BY <1>5, <1>6, Zenon DEF Looping
<1>8. Inv'
  BY <1>4, <1>7, Zenon DEF Inv, Idle
<1>9. QED
  BY <1>2, <1>4, <1>8, Zenon DEF Good, ReplyStep, ErrorStep, LoopStep

(* A step that ends a loop. *)
LEMMA LoopEnds ==
  ASSUME Base', cmd # Idle, NEW items, Answer(cmd.argv, items),
         Replied(cmd.argv, items), ~(resp_reply_error \in Range(items)),
         In("DEL") => DelExact(cmd.argv, items, cmd.before, Contents(s')),
         In("EXISTS") => ExistsExact(cmd.argv, items, cmd.before),
         In("MGET") => MgetExact(cmd.argv, items, cmd.before),
         In("MSET") => MsetExact(cmd.argv, cmd.before, Contents(s'))
  PROVE  Good
<1>1. cmd' = Idle /\ out'.argv = cmd.argv /\ out'.items = items
  BY DEF Answer
<1>2. Inv'
  BY <1>1, Zenon DEF Inv, Idle
<1>3. ReplyStep
  BY <1>1, Zenon DEF ReplyStep
<1>4. ErrorStep
  BY <1>1, Zenon DEF ErrorStep
<1>5. LoopStep
  BY <1>1, Zenon DEF LoopStep
<1>6. QED
  BY <1>2, <1>3, <1>4, <1>5, Zenon DEF Good

(* Each loop begins with nothing done. *)
LEMMA BeginSoFar ==
  ASSUME StoreFacts, NEW argv \in Commands, Len(argv) >= 2, NEW E
  PROVE  /\ DelSoFar(argv, 2, 0, <<>>, E, E)
         /\ ExistsSoFar(argv, 2, 0, <<>>, E, E)
         /\ MgetSoFar(argv, 2, <<resp_reply_array_header(Len(argv) - 1)>>, E, E)
         /\ MsetSoFar(argv, 2, <<>>, E, E)
<1>1. 2 .. 2 - 1 = {} /\ 0 \in Int /\ 0 <= 0 /\ 2 % 2 = 0
  OBVIOUS
<1>2. Reached(argv, 2, E) = {} /\ Met(2) = {} /\ Latest(argv, 2) = {}
  BY <1>1, Zenon DEF Reached, Met, Latest
<1>3. \A F : Hits(argv, 2, F) = 0
  BY <1>1, Zenon DEF Hits, StoreFacts, CountType
<1>4. Cardinality({}) = 0
  BY Zenon DEF StoreFacts, CountType
<1>5. DelSoFar(argv, 2, 0, <<>>, E, E)
  BY <1>2, <1>4, Zenon DEF DelSoFar
<1>6. ExistsSoFar(argv, 2, 0, <<>>, E, E)
  BY <1>1, <1>3, Zenon DEF ExistsSoFar, Lapsed
<1>7. MsetSoFar(argv, 2, <<>>, E, E)
  BY <1>1, <1>2, Zenon DEF MsetSoFar
<1> DEFINE h == resp_reply_array_header(Len(argv) - 1)
<1>8. h \in MgetItem(argv)
  BY Zenon DEF MgetItem
<1> HIDE DEF h
<1>9. <<h>> \in Seq(MgetItem(argv)) /\ Len(<<h>>) = 2 - 1 /\ <<h>>[1] = h
  BY <1>8
<1>10. MgetSoFar(argv, 2, <<h>>, E, E)
  BY <1>1, <1>9, Zenon DEF MgetSoFar, Lapsed, h
<1>11. QED
  BY <1>5, <1>6, <1>7, <1>10, Zenon DEF h

(* The step a loop begins in, and the one in which EXPIRE computes its     *)
(* deadline.                                                               *)
LEMMA Begun ==
  ASSUME StoreFacts, Inv, cmd = Idle, NEW argv \in Commands, Len(argv) >= 2,
         NEW items, NEW x, Begin(argv, items, x),
         ~(resp_reply_error \in Range(items)),
         SoFar(argv, 2, 0, x, items, Contents(s), Contents(s))
  PROVE  Good
<1>1. /\ Loop(argv, 2, 0, x, Contents(s)) /\ out' = [argv |-> argv, items |-> items]
      /\ s' = s /\ now' = now /\ due' = due
  BY Zenon DEF Begin, NoCall
<1>2. Base' /\ StoreInv(s)
  BY <1>1, SameBase, Zenon DEF Inv, Base
<1>3. Held0(Contents(s))
  BY <1>2, HeldNow, Zenon
<1>4. 2 \in 2 .. Len(argv)
  BY ArgvShape
<1>5. SoFar(argv, 2, 0, x, items, Contents(s), Contents(s'))
  BY <1>1, Zenon
<1>6. QED
  BY <1>1, <1>2, <1>3, <1>4, <1>5, LoopOn, Zenon

LEMMA BeginGood ==
  ASSUME StoreFacts, Inv, cmd = Idle, NEW argv \in Commands, argv # <<>>,
         \/ arg_eq_ci(argv[1], "DEL") /\ cmd_del(argv)
         \/ arg_eq_ci(argv[1], "EXISTS") /\ cmd_exists(argv)
         \/ arg_eq_ci(argv[1], "MGET") /\ cmd_mget(argv)
         \/ arg_eq_ci(argv[1], "MSET") /\ cmd_mset(argv)
  PROVE  Good
<1> DEFINE E == Contents(s)
           h == resp_reply_array_header(Len(argv) - 1)
<1>1. CASE Refuse(argv)
  BY <1>1, Refused, Zenon
<1>2. Len(argv) \in Nat
  BY ArgvShape, Zenon
<1>3. /\ ~(Len(argv) < 2) => Len(argv) >= 2
      /\ ~(Len(argv) < 3 \/ Len(argv) % 2 = 0) => Len(argv) >= 2 /\ Len(argv) % 2 = 1
  BY <1>2
<1>4. ~(resp_reply_error \in Range(<<>>)) /\ ~(resp_reply_error \in Range(<<h>>))
  BY ItemTypes DEF Range
<1>5. Len(argv) >= 2 => /\ DelSoFar(argv, 2, 0, <<>>, E, E)
                        /\ ExistsSoFar(argv, 2, 0, <<>>, E, E)
                        /\ MgetSoFar(argv, 2, <<h>>, E, E)
                        /\ MsetSoFar(argv, 2, <<>>, E, E)
  BY BeginSoFar, Zenon
<1>6. CASE Len(argv) >= 2 /\ Begin(argv, <<>>, {})
           /\ SoFar(argv, 2, 0, {}, <<>>, E, E)
  BY <1>4, <1>6, Begun, Zenon
<1>7. CASE Len(argv) >= 2 /\ Begin(argv, <<h>>, {})
           /\ SoFar(argv, 2, 0, {}, <<h>>, E, E)
  BY <1>4, <1>7, Begun, Zenon
<1> HIDE DEF E, h
<1>8. CASE \/ arg_eq_ci(argv[1], "DEL") /\ cmd_del(argv)
           \/ arg_eq_ci(argv[1], "EXISTS") /\ cmd_exists(argv)
  BY <1>1, <1>3, <1>5, <1>6, <1>8, Zenon DEF cmd_del, cmd_exists, SoFar
<1>9. CASE arg_eq_ci(argv[1], "MGET") /\ cmd_mget(argv)
  BY <1>1, <1>3, <1>5, <1>7, <1>9, Zenon DEF cmd_mget, SoFar, h
<1>10. CASE arg_eq_ci(argv[1], "MSET") /\ cmd_mset(argv)
  BY <1>1, <1>3, <1>5, <1>6, <1>10, Zenon DEF cmd_mset, SoFar
<1>11. QED
  BY <1>8, <1>9, <1>10, Zenon

LEMMA ExpireBegins ==
  ASSUME StoreFacts, Inv, cmd = Idle, NEW argv \in Commands, argv # <<>>,
         arg_eq_ci(argv[1], "EXPIRE"), cmd_expire(argv)
  PROVE  Good
<1> DEFINE secs == IF Len(argv) = 3 THEN parse_strict_ll(argv[3]) ELSE {}
           x == {now + n * MsPerSec : n \in secs}
<1>1. secs \in SUBSET Int64 /\ \A a, b \in secs : a = b
  BY ParseIs, Zenon
<1>2. Refuse(argv) \/ (secs # {} /\ Begin(argv, <<>>, x))
  BY Zenon DEF cmd_expire
<1>3. secs # {} => Len(argv) = 3 /\ Len(argv) >= 2
  OBVIOUS
<1> HIDE DEF secs
<1>4. x \in SUBSET Int /\ \A a, b \in x : a = b
  <2>1. MsPerSec \in Int /\ now \in Int
    BY CmdAssumption, ClockAssumption DEF Inv, Base
  <2>2. \A n \in Int64 : n \in Int
    BY Int64Assumption DEF Int64
  <2>3. \A n \in Int : now + n * MsPerSec \in Int
    BY <2>1
  <2>4. QED
    BY <1>1, <2>2, <2>3, Zenon
<1>5. secs # {} => x # {}
  BY Zenon
<1>6. ~(resp_reply_error \in Range(<<>>))
  BY DEF Range
<1> HIDE DEF x
<1>7. CASE Refuse(argv)
  BY <1>7, Refused, Zenon
<1>8. CASE secs # {} /\ Begin(argv, <<>>, x)
  <2>1. ExpireSoFar(argv, x, <<>>)
    BY <1>3, <1>4, <1>5, <1>8, Zenon DEF ExpireSoFar
  <2>2. SoFar(argv, 2, 0, x, <<>>, Contents(s), Contents(s))
    BY <2>1, Zenon DEF SoFar
  <2>3. QED
    BY <1>3, <1>6, <1>8, <2>2, Begun, Zenon
<1>9. QED
  BY <1>2, <1>7, <1>8, Zenon
-----------------------------------------------------------------------------
(* One round of each loop, on what it has done so far.  C is what the      *)
(* store holds before the call of the round, D after it.                   *)
LEMMA Further ==
  ASSUME NEW i \in Int, i >= 2
  PROVE  /\ 2 .. (i + 1) - 1 = (2 .. i - 1) \cup {i}
         /\ i \notin 2 .. i - 1
OBVIOUS

LEMMA DelNext ==
  ASSUME StoreFacts, NEW argv, NEW i \in Int, i >= 2, NEW n, NEW E, Held0(E), NEW C,
         NEW D, DelSoFar(argv, i, n, <<>>, E, C), D = C \ Held(C, argv[i]),
         NEW res, res = IF Held(C, argv[i]) = {} THEN 0 ELSE 1
  PROVE  DelSoFar(argv, i + 1, n + res, <<>>, E, D)
<1> DEFINE R == Reached(argv, i, E)
           k == argv[i]
           S == Reached(argv, i + 1, E)
<1>1. n = Cardinality(R) /\ C = E \ R
  BY Zenon DEF DelSoFar
<1>2. S = R \cup Held(E, k)
  <2>1. \A j : j \in 2 .. (i + 1) - 1 <=> j \in 2 .. i - 1 \/ j = i
    BY Further, Zenon
  <2>2. QED
    BY <2>1, Zenon DEF Reached, Held
<1>3. R \subseteq E /\ IsFiniteSet(E)
  BY Zenon DEF Reached, Held0
<1>4. IsFiniteSet(R) /\ Cardinality(R) \in Nat
  BY <1>3, Zenon DEF StoreFacts, SubsetCount, CountType
<1> HIDE DEF R, S, k
<1>5. D = E \ S
  BY <1>1, <1>2, Zenon DEF Held, k
<1>6. n + res = Cardinality(S)
  <2>1. CASE Held(C, k) = {}
    <3>1. S = R
      BY <1>1, <1>2, <2>1, Zenon DEF Held
    <3>2. QED
      BY <1>1, <1>4, <2>1, <3>1 DEF k
  <2>2. CASE Held(C, k) # {}
    <3>1. PICK e \in Held(C, k) : TRUE
      BY <2>2, Zenon
    <3>2. e \in E /\ e \notin R /\ e.key = k
      BY <1>1, <3>1, Zenon DEF Held
    <3>3. Held(E, k) = {e}
      BY <3>2, Zenon DEF Held, Held0, UniqueKeys
    <3>4. Cardinality(S) = Cardinality(R) + 1
      BY <1>2, <1>4, <3>2, <3>3, Zenon DEF StoreFacts, AddCount
    <3>5. res = 1
      BY <2>2, Zenon DEF k
    <3>6. QED
      BY <1>1, <3>4, <3>5, Zenon
  <2>3. QED
    BY <2>1, <2>2, Zenon
<1>7. QED
  BY <1>5, <1>6, Zenon DEF DelSoFar, S

(* A lookup of k finds L, and removes what has expired. *)
Looked(C, k, at, L, D) ==
  /\ L = {e \in Held(C, k) : ~Expired(e, at)}
  /\ D = C \ {e \in Held(C, k) : Expired(e, at)}

(* What EXISTS and MGET leave, and that a key without expiry is found. *)
LEMMA LookupNext ==
  ASSUME NEW E, NEW C, NEW D, NEW k, NEW L, NEW at, Lapsed(E, C), Looked(C, k, at, L, D)
  PROVE  /\ Lapsed(E, D)
         /\ L \subseteq Held(E, k)
         /\ \A e \in Held(E, k) : e.expire_at_ms = 0 => e \in L
BY Zenon DEF Lapsed, Looked, Held, Expired

(* How often the keys of F are named, with one argument more. *)
LEMMA HitsNext ==
  ASSUME StoreFacts, NEW argv, NEW i \in Int, i >= 2, NEW F
  PROVE  /\ Hits(argv, i, F) \in Nat
         /\ Hits(argv, i + 1, F)
              = Hits(argv, i, F) + (IF Held(F, argv[i]) = {} THEN 0 ELSE 1)
<1> DEFINE H == {j \in 2 .. i - 1 : Held(F, argv[j]) # {}}
           G == {j \in 2 .. (i + 1) - 1 : Held(F, argv[j]) # {}}
<1>1. IsFiniteSet(2 .. i - 1)
  BY DEF StoreFacts, IntervalCount
<1>2. IsFiniteSet(H) /\ Cardinality(H) \in Nat
  <2>1. H \subseteq 2 .. i - 1
    BY Zenon
  <2> HIDE DEF H
  <2>2. QED
    BY <1>1, <2>1, Zenon DEF StoreFacts, SubsetCount, CountType
<1>3. i \notin H
  BY Further, Zenon
<1>4. Hits(argv, i, F) = Cardinality(H) /\ Hits(argv, i + 1, F) = Cardinality(G)
  BY Zenon DEF Hits
<1>5. CASE Held(F, argv[i]) = {}
  <2>1. G = H
    BY <1>5, Further, Zenon
  <2> HIDE DEF G, H
  <2>2. QED
    BY <1>2, <1>4, <1>5, <2>1
<1>6. CASE Held(F, argv[i]) # {}
  <2>1. G = H \cup {i}
    BY <1>6, Further, Zenon
  <2> HIDE DEF G, H
  <2>2. Cardinality(G) = Cardinality(H) + 1
    BY <1>2, <1>3, <2>1, Zenon DEF StoreFacts, AddCount
  <2>3. QED
    BY <1>2, <1>4, <1>6, <2>2
<1>7. QED
  BY <1>5, <1>6, Zenon

LEMMA ExistsNext ==
  ASSUME StoreFacts, NEW argv, NEW i \in Int, i >= 2, NEW n, NEW E, NEW C, NEW D,
         NEW at, NEW L, ExistsSoFar(argv, i, n, <<>>, E, C),
         Looked(C, argv[i], at, L, D), NEW res, res = IF L = {} THEN 0 ELSE 1
  PROVE  ExistsSoFar(argv, i + 1, n + res, <<>>, E, D)
<1> DEFINE Z == {e \in E : e.expire_at_ms = 0}
           a == Hits(argv, i, Z)
           b == Hits(argv, i, E)
           c == IF Held(Z, argv[i]) = {} THEN 0 ELSE 1
           d == IF Held(E, argv[i]) = {} THEN 0 ELSE 1
<1>1. Lapsed(E, C) /\ n \in Int /\ a <= n /\ n <= b
  BY Zenon DEF ExistsSoFar
<1>2. /\ Lapsed(E, D) /\ L \subseteq Held(E, argv[i])
      /\ \A e \in Held(E, argv[i]) : e.expire_at_ms = 0 => e \in L
  BY <1>1, LookupNext, Zenon
<1>3. /\ a \in Nat /\ b \in Nat /\ Hits(argv, i + 1, Z) = a + c
      /\ Hits(argv, i + 1, E) = b + d
  BY HitsNext, Zenon
<1>4. Held(Z, argv[i]) # {} => L # {}
  BY <1>2, Zenon DEF Held
<1>5. L # {} => Held(E, argv[i]) # {}
  BY <1>2, Zenon
<1>6. c \in {0, 1} /\ d \in {0, 1} /\ res \in {0, 1} /\ c <= res /\ res <= d
  <2> HIDE DEF Z
  <2>1. QED
    BY <1>4, <1>5
<1> HIDE DEF Z, a, b, c, d
<1>7. n + res \in Int /\ a + c <= n + res /\ n + res <= b + d
  BY <1>1, <1>3, <1>6
<1>8. QED
  BY <1>2, <1>3, <1>7, Zenon DEF ExistsSoFar, Z

LEMMA MgetNext ==
  ASSUME NEW argv, NEW i \in Int, i >= 2, NEW items, NEW E, Held0(E), NEW C, NEW D,
         NEW at, NEW L, MgetSoFar(argv, i, items, E, C), Looked(C, argv[i], at, L, D)
  PROVE  MgetSoFar(argv, i + 1, Append(items, Found({e.val : e \in L})), E, D)
<1> DEFINE vals == {e.val : e \in L}
           x == Found(vals)
           k == argv[i]
           more == Append(items, x)
<1>1. /\ Lapsed(E, C) /\ items \in Seq(MgetItem(argv)) /\ Len(items) = i - 1
      /\ items[1] = resp_reply_array_header(Len(argv) - 1)
      /\ \A j \in 2 .. i - 1 : Fetched(items[j], E, argv[j])
  BY Zenon DEF MgetSoFar
<1>2. /\ Lapsed(E, D) /\ L \subseteq Held(E, k)
      /\ \A e \in Held(E, k) : e.expire_at_ms = 0 => e \in L
  BY <1>1, LookupNext, Zenon
<1>3. x \in MgetItem(argv) /\ Fetched(x, E, k)
  <2>1. CASE L = {}
    <3>1. x = resp_reply_null_bulk
      BY <2>1, Zenon DEF Found
    <3>2. QED
      BY <1>2, <2>1, <3>1, Zenon DEF MgetItem, Fetched
  <2>2. CASE L # {}
    <3>1. vals # {}
      BY <2>2, Zenon
    <3>2. PICK v \in vals : x = resp_reply_bulk_string(v)
      BY <3>1, Zenon DEF Found
    <3>3. PICK e \in L : v = e.val
      BY <3>2, Zenon
    <3>4. e \in Held(E, k) /\ e \in Entry
      BY <1>2, <3>3, Zenon DEF Held, Held0
    <3>5. e.val \in Values
      BY <3>4 DEF Entry
    <3>6. QED
      BY <3>2, <3>3, <3>4, <3>5, Zenon DEF MgetItem, Fetched
  <2>3. QED
    BY <2>1, <2>2, Zenon
<1> HIDE DEF x, k
<1>4. /\ more \in Seq(MgetItem(argv)) /\ Len(more) = (i + 1) - 1 /\ more[i] = x
      /\ \A j \in 1 .. i - 1 : more[j] = items[j]
  BY <1>1, <1>3
<1>5. /\ 1 \in 1 .. i - 1 /\ \A j \in 2 .. i - 1 : j \in 1 .. i - 1
      /\ \A j \in 2 .. (i + 1) - 1 : j \in 2 .. i - 1 \/ j = i
  OBVIOUS
<1> HIDE DEF more
<1>6. \A j \in 2 .. (i + 1) - 1 : Fetched(more[j], E, argv[j])
  BY <1>1, <1>3, <1>4, <1>5, Zenon DEF k
<1>7. more[1] = resp_reply_array_header(Len(argv) - 1)
  BY <1>1, <1>4, <1>5, Zenon
<1>8. MgetSoFar(argv, i + 1, more, E, D)
  BY <1>2, <1>4, <1>6, <1>7, Zenon DEF MgetSoFar
<1>9. QED
  BY <1>8, Zenon DEF more, x

LEMMA MsetNext ==
  ASSUME NEW argv, NEW i \in Int, i >= 2, NEW E, NEW C, NEW D,
         MsetSoFar(argv, i, <<>>, E, C),
         D = (C \ Held(C, argv[i])) \cup {NewEntry(argv[i], argv[i + 1], 0)}
  PROVE  MsetSoFar(argv, i + 2, <<>>, E, D)
<1> DEFINE k == argv[i]
           M == Met(i)
           A == Latest(argv, i)
           B == Latest(argv, i + 2)
           new(j) == NewEntry(argv[j], argv[j + 1], 0)
           old == {e \in E : \A j \in M : argv[j] # e.key}
<1>1. /\ i % 2 = 0
      /\ \A j \in M : \E m \in A : argv[m] = argv[j]
      /\ C = old \cup {new(j) : j \in A}
  BY Zenon DEF MsetSoFar
<1>2. (i + 2) % 2 = 0 /\ Met(i + 2) = M \cup {i}
  BY <1>1 DEF Met
<1>3. i \notin M /\ (\A j \in M : j <= i /\ ~(i <= j)) /\ i <= i
  BY DEF Met
<1> HIDE DEF M
<1>4. B = {j \in A : argv[j] # k} \cup {i}
  BY <1>2, <1>3, Zenon DEF Latest, M
<1>5. \A j \in Met(i + 2) : \E m \in B : argv[m] = argv[j]
  BY <1>1, <1>2, <1>4, Zenon
<1>6. \A j : new(j).key = argv[j]
  BY DEF NewEntry
<1> HIDE DEF new, A, B
<1>7. {new(j) : j \in {m \in A : argv[m] # k}} = {e \in {new(j) : j \in A} : e.key # k}
  BY <1>6, Zenon
<1>8. D = {e \in old : e.key # k} \cup {new(j) : j \in {m \in A : argv[m] # k}} \cup {new(i)}
  <2>1. D = (C \ Held(C, k)) \cup {new(i)}
    BY Zenon DEF new
  <2>2. C \ Held(C, k) = {e \in old : e.key # k} \cup {new(j) : j \in {m \in A : argv[m] # k}}
    BY <1>1, <1>7, Zenon DEF Held
  <2>3. QED
    BY <2>1, <2>2, Zenon
<1>9. {new(j) : j \in B} = {new(j) : j \in {m \in A : argv[m] # k}} \cup {new(i)}
  BY <1>4, Zenon
<1>10. {e \in E : \A j \in Met(i + 2) : argv[j] # e.key} = {e \in old : e.key # k}
  BY <1>2, Zenon
<1>11. D = {e \in E : \A j \in Met(i + 2) : argv[j] # e.key} \cup {new(j) : j \in B}
  BY <1>8, <1>9, <1>10, Zenon
<1>12. QED
  BY <1>2, <1>5, <1>11, Zenon DEF MsetSoFar, new, B
-----------------------------------------------------------------------------
(* What has been done when the arguments are all passed. *)
LEMMA NamedIs ==
  ASSUME NEW argv \in Commands, Len(argv) >= 2, NEW E
  PROVE  /\ Named(argv, E) = Reached(argv, Len(argv) + 1, E)
         /\ \A i \in 2 .. Len(argv) : Held(Named(argv, E), argv[i]) = Held(E, argv[i])
<1> DEFINE S == Range(argv)
           T == Tail(argv)
<1>1. argv \in Seq(S) /\ argv # <<>>
  BY CommandsAssumption, ArgvShape
<1> HIDE DEF S
<1>2. /\ DOMAIN T = 1 .. Len(argv) - 1
      /\ \A j \in 1 .. Len(argv) - 1 : T[j] = argv[j + 1]
  BY <1>1
<1>3. Len(argv) \in Nat
  BY <1>1
<1>4. /\ \A j \in 1 .. Len(argv) - 1 : j + 1 \in 2 .. Len(argv)
      /\ \A j \in 2 .. Len(argv) : j - 1 \in 1 .. Len(argv) - 1 /\ (j - 1) + 1 = j
      /\ (Len(argv) + 1) - 1 = Len(argv)
  BY <1>3
<1> HIDE DEF T
<1>5. \A k : k \in Range(T) <=> \E j \in 2 .. Len(argv) : argv[j] = k
  <2>1. ASSUME NEW j \in DOMAIN T
        PROVE  \E m \in 2 .. Len(argv) : argv[m] = T[j]
    BY <1>2, <1>4, Zenon
  <2>2. ASSUME NEW j \in 2 .. Len(argv)
        PROVE  j - 1 \in DOMAIN T /\ T[j - 1] = argv[j]
    BY <1>2, <1>4, Zenon
  <2>3. QED
    BY <2>1, <2>2, Zenon DEF Range
<1>6. Named(argv, E) = {e \in E : \E j \in 2 .. Len(argv) : argv[j] = e.key}
  BY <1>5, Zenon DEF Named, T
<1>7. Named(argv, E) = Reached(argv, Len(argv) + 1, E)
  BY <1>4, <1>6, Zenon DEF Reached
<1>8. QED
  BY <1>6, <1>7, Zenon DEF Held

LEMMA DelEnd ==
  ASSUME NEW argv \in Commands, Len(argv) >= 2, NEW n, NEW E, NEW D,
         DelSoFar(argv, Len(argv) + 1, n, <<>>, E, D)
  PROVE  DelExact(argv, <<>> \o <<resp_reply_integer(n)>>, E, D)
<1> DEFINE x == resp_reply_integer(n)
<1>1. x.n = n
  BY ItemTypes, Zenon
<1>2. (<<>> \o <<x>>)[1] = x
  OBVIOUS
<1> HIDE DEF x
<1>3. Named(argv, E) = Reached(argv, Len(argv) + 1, E)
  BY NamedIs, Zenon
<1>4. (<<>> \o <<x>>)[1].n = n
  BY <1>1, <1>2, Zenon
<1>5. QED
  BY <1>3, <1>4, Zenon DEF DelSoFar, DelExact, x

LEMMA ExistsEnd ==
  ASSUME StoreFacts, NEW argv \in Commands, Len(argv) >= 2, NEW n, NEW E, NEW D,
         ExistsSoFar(argv, Len(argv) + 1, n, <<>>, E, D)
  PROVE  ExistsExact(argv, <<>> \o <<resp_reply_integer(n)>>, E)
<1> DEFINE x == resp_reply_integer(n)
           i == Len(argv) + 1
           Z == {e \in E : e.expire_at_ms = 0}
           held == Named(argv, E)
           zero == {e \in held : e.expire_at_ms = 0}
           named(F) == {j \in 2 .. Len(argv) : Held(F, argv[j]) # {}}
<1>1. x.n = n
  BY ItemTypes, Zenon
<1>2. (<<>> \o <<x>>)[1] = x
  OBVIOUS
<1>3. Len(argv) \in Nat
  BY ArgvShape, Zenon
<1>4. i - 1 = Len(argv) /\ i \in Int /\ i >= 2
  BY <1>3
<1>5. \A F : Hits(argv, i, F) = Cardinality(named(F))
  BY <1>4, Zenon DEF Hits
<1>6. \A j \in 2 .. Len(argv) : Held(held, argv[j]) = Held(E, argv[j])
  BY NamedIs, Zenon
<1>7. \A j \in 2 .. Len(argv) : Held(zero, argv[j]) = Held(Z, argv[j])
  BY <1>6, Zenon DEF Held
<1>8. named(held) = named(E) /\ named(zero) = named(Z)
  BY <1>6, <1>7, Zenon
<1>9. Hits(argv, i, Z) \in Nat /\ Hits(argv, i, E) \in Nat
  BY <1>4, HitsNext, Zenon
<1> HIDE DEF Z, held
<1>10. n \in Int /\ Hits(argv, i, Z) <= n /\ n <= Hits(argv, i, E)
  BY Zenon DEF ExistsSoFar, Z
<1> HIDE DEF i
<1>11. n \in Hits(argv, i, Z) .. Hits(argv, i, E)
  BY <1>9, <1>10
<1>12. n \in Cardinality(named(zero)) .. Cardinality(named(held))
  BY <1>5, <1>8, <1>11, Zenon
<1> HIDE DEF x
<1>13. (<<>> \o <<x>>)[1].n = n
  BY <1>1, <1>2, Zenon
<1>14. QED
  BY <1>12, <1>13, Zenon DEF ExistsExact, held, x

LEMMA MgetEnd ==
  ASSUME NEW argv \in Commands, Len(argv) >= 2, NEW items, NEW E, NEW D,
         MgetSoFar(argv, Len(argv) + 1, items, E, D)
  PROVE  /\ MgetExact(argv, items \o <<>>, E)
         /\ Replied(argv, items \o <<>>)
         /\ ~(resp_reply_error \in Range(items \o <<>>))
<1>1. Len(argv) \in Nat /\ argv # <<>> /\ (Len(argv) + 1) - 1 = Len(argv)
  BY ArgvShape
<1>2. /\ items \in Seq(MgetItem(argv)) /\ Len(items) = Len(argv)
      /\ items[1] = resp_reply_array_header(Len(argv) - 1)
      /\ \A j \in 2 .. Len(argv) : Fetched(items[j], E, argv[j])
  BY <1>1, Zenon DEF MgetSoFar
<1>3. items \o <<>> = items
  BY <1>2
<1>4. \A j \in 2 .. Len(argv) : Held(Named(argv, E), argv[j]) = Held(E, argv[j])
  BY NamedIs, Zenon
<1>5. MgetExact(argv, items, E)
  BY <1>2, <1>4, Zenon DEF MgetExact, Fetched
<1>6. items # <<>> /\ DOMAIN items = 1 .. Len(argv)
  BY <1>1, <1>2
<1>7. \A j \in 2 .. Len(argv) : items[j].type \in {"bulk", "null"}
  BY <1>2, ItemTypes DEF Fetched
<1>8. items[1].type = "array" /\ items[1].n = Len(argv) - 1
  BY <1>2, ItemTypes, Zenon
<1>9. Len(items) = 1 + items[1].n
  BY <1>1, <1>2, <1>8
<1>10. Replied(argv, items)
  BY <1>1, <1>2, <1>6, <1>7, <1>8, <1>9, Zenon DEF Replied, OneValue
<1>11. \A j \in 1 .. Len(argv) : j = 1 \/ j \in 2 .. Len(argv)
  BY <1>1
<1>12. \A j \in DOMAIN items : items[j].type # "error"
  BY <1>6, <1>7, <1>8, <1>11
<1>13. ~(resp_reply_error \in Range(items))
  BY <1>12, ItemTypes, Zenon DEF Range
<1>14. QED
  BY <1>3, <1>5, <1>10, <1>13, Zenon

(* Max of a set of integers whose greatest element is known. *)
LEMMA MaxIs ==
  ASSUME NEW S \in SUBSET Int, NEW j \in S, \A m \in S : m <= j
  PROVE  Max(S) = j
<1>1. \A m \in S : j >= m
  OBVIOUS
<1>2. Max(S) \in S /\ Max(S) >= j
  BY <1>1, Zenon DEF Max
<1>3. Max(S) \in Int /\ j \in Int /\ Max(S) <= j
  BY <1>2, Zenon
<1>4. \A a, b \in Int : a >= b /\ a <= b => a = b
  OBVIOUS
<1>5. QED
  BY <1>2, <1>3, <1>4, Zenon

LEMMA MsetEnd ==
  ASSUME NEW argv \in Commands, Len(argv) >= 2, NEW E, NEW D,
         MsetSoFar(argv, Len(argv) + 1, <<>>, E, D)
  PROVE  MsetExact(argv, E, D)
<1> DEFINE n == Len(argv)
           M == {j \in 2 .. n : j % 2 = 0}
           A == Latest(argv, n + 1)
           keys == {argv[2 * i] : i \in 1 .. n \div 2}
           at(k) == {j \in 2 .. n : j % 2 = 0 /\ argv[j] = k}
           final(k) == argv[1 + Max(at(k))]
<1>1. n \in Nat
  BY ArgvShape, Zenon
<1>2. Met(n + 1) = M
  BY <1>1 DEF Met
<1>3. /\ \A j \in M : \E m \in A : argv[m] = argv[j]
      /\ D = {e \in E : \A j \in M : argv[j] # e.key}
               \cup {NewEntry(argv[j], argv[j + 1], 0) : j \in A}
  BY <1>2, Zenon DEF MsetSoFar
<1>4. A = {j \in M : \A m \in M : argv[m] = argv[j] => m <= j}
  BY <1>2, Zenon DEF Latest
<1>5. /\ \A i \in 1 .. n \div 2 : 2 * i \in M
      /\ \A j \in M : j \div 2 \in 1 .. n \div 2 /\ 2 * (j \div 2) = j /\ j \in Int
                      /\ 1 + j = j + 1
  BY <1>1
<1> HIDE DEF A, n
<1>6. \A k : k \in keys <=> \E j \in M : argv[j] = k
  BY <1>5, Zenon
<1>7. \A k : at(k) = {j \in M : argv[j] = k}
  BY Zenon
<1>8. ASSUME NEW j \in A
      PROVE  final(argv[j]) = argv[j + 1]
  <2> DEFINE S == at(argv[j])
  <2>1. S \in SUBSET Int /\ j \in S /\ (\A m \in S : m <= j) /\ 1 + j = j + 1
    BY <1>4, <1>5, <1>7, Zenon
  <2> HIDE DEF S
  <2>2. Max(S) = j
    BY <2>1, MaxIs, Zenon
  <2>3. QED
    BY <2>1, <2>2, Zenon DEF S
<1> HIDE DEF M, keys, final
<1>9. {e \in E : \A j \in M : argv[j] # e.key} = {e \in E : e.key \notin keys}
  BY <1>6, Zenon
<1>10. A \subseteq M
  BY <1>4, Zenon
<1>11. \A k \in keys : \E j \in A : argv[j] = k
  BY <1>3, <1>6, Zenon
<1>12. {NewEntry(argv[j], argv[j + 1], 0) : j \in A} = {NewEntry(k, final(k), 0) : k \in keys}
  <2>1. ASSUME NEW j \in A
        PROVE  \E k \in keys : NewEntry(argv[j], argv[j + 1], 0) = NewEntry(k, final(k), 0)
    <3>1. argv[j] \in keys
      BY <1>6, <1>10, Zenon
    <3>2. NewEntry(argv[j], argv[j + 1], 0) = NewEntry(argv[j], final(argv[j]), 0)
      BY <1>8, Zenon
    <3>3. QED
      BY <3>1, <3>2, Zenon
  <2>2. ASSUME NEW k \in keys
        PROVE  \E j \in A : NewEntry(k, final(k), 0) = NewEntry(argv[j], argv[j + 1], 0)
    <3>1. PICK j \in A : argv[j] = k
      BY <1>11, Zenon
    <3>2. final(k) = argv[j + 1]
      BY <1>8, <3>1, Zenon
    <3>3. QED
      BY <3>1, <3>2, Zenon
  <2>3. QED
    BY <2>1, <2>2, Zenon
<1>13. D = {e \in E : e.key \notin keys} \cup {NewEntry(k, final(k), 0) : k \in keys}
  BY <1>3, <1>9, <1>12, Zenon
<1>14. QED
  BY <1>13, Zenon DEF MsetExact, keys, final, n
-----------------------------------------------------------------------------
(* What a round has to show: the store's call keeps the promises, and the  *)
(* loop is one argument, or one pair of arguments, further.                *)
LEMMA RoundGood ==
  ASSUME Base', cmd # Idle, Looping, NEW i \in Int, i >= 2, NEW n, NEW items, NEW last,
         Round(i, n, items, last),
         ~(resp_reply_error \in Range(items)),
         SoFar(cmd.argv, i, n, cmd.x, items, cmd.before, Contents(s')),
         i > Len(cmd.argv) =>
           /\ Replied(cmd.argv, items \o last)
           /\ ~(resp_reply_error \in Range(items \o last))
           /\ In("DEL") => DelExact(cmd.argv, items \o last, cmd.before, Contents(s'))
           /\ In("EXISTS") => ExistsExact(cmd.argv, items \o last, cmd.before)
           /\ In("MGET") => MgetExact(cmd.argv, items \o last, cmd.before)
           /\ In("MSET") => MsetExact(cmd.argv, cmd.before, Contents(s'))
  PROVE  Good
<1> DEFINE argv == cmd.argv
<1>1. argv \in Commands /\ Held0(cmd.before) /\ out = [argv |-> argv, items |-> out.items]
  BY Zenon DEF Looping
<1>2. Len(argv) \in Nat
  BY <1>1, ArgvShape, Zenon
<1> HIDE DEF argv
<1>3. CASE i > Len(argv)
  BY <1>3, LoopEnds, Zenon DEF Round, argv
<1>4. CASE ~(i > Len(argv))
  <2>1. i \in 2 .. Len(argv)
    BY <1>2, <1>4
  <2>2. Loop(argv, i, n, cmd.x, cmd.before) /\ out' = [out EXCEPT !.items = items]
    BY <1>4, Zenon DEF Round, argv
  <2>3. out' = [argv |-> argv, items |-> items]
    BY <1>1, <2>2
  <2>4. SoFar(argv, i, n, cmd.x, items, cmd.before, Contents(s'))
    BY Zenon DEF argv
  <2>5. QED
    BY <1>1, <2>1, <2>2, <2>3, <2>4, LoopOn, Zenon
<1>5. QED
  BY <1>3, <1>4, Zenon

(* A reply of one item, after nothing. *)
LEMMA LastItem ==
  ASSUME NEW argv, argv # <<>>, NEW x, x.type # "array", x.type # "error"
  PROVE  Replied(argv, <<>> \o <<x>>) /\ ~(resp_reply_error \in Range(<<>> \o <<x>>))
<1>1. <<>> \o <<x>> = <<x>>
  OBVIOUS
<1>2. ~(resp_reply_error \in Range(<<x>>))
  BY ItemTypes DEF Range
<1>3. QED
  BY <1>1, <1>2, OneItem, Zenon

(* The loop under way is the one of its name. *)
LEMMA WhichLoop ==
  ASSUME cmd # Idle, Looping, NEW name, In(name)
  PROVE  /\ cmd.argv \in Commands /\ cmd.argv # <<>> /\ Len(cmd.argv) \in Nat
         /\ cmd.i \in Int /\ 2 <= cmd.i /\ cmd.i <= Len(cmd.argv) /\ Len(cmd.argv) >= 2
         /\ Held0(cmd.before)
         /\ Upper(cmd.argv[1]) = name
         /\ name = "DEL" =>
              DelSoFar(cmd.argv, cmd.i, cmd.n, out.items, cmd.before, Contents(s))
         /\ name = "EXISTS" =>
              ExistsSoFar(cmd.argv, cmd.i, cmd.n, out.items, cmd.before, Contents(s))
         /\ name = "MGET" =>
              MgetSoFar(cmd.argv, cmd.i, out.items, cmd.before, Contents(s))
         /\ name = "MSET" =>
              /\ Len(cmd.argv) % 2 = 1
              /\ MsetSoFar(cmd.argv, cmd.i, out.items, cmd.before, Contents(s))
         /\ name = "EXPIRE" => ExpireSoFar(cmd.argv, cmd.x, out.items)
         /\ \A other : In(other) => other = name
<1>1. /\ cmd.argv \in Commands /\ cmd.i \in 2 .. Len(cmd.argv) /\ Held0(cmd.before)
      /\ SoFar(cmd.argv, cmd.i, cmd.n, cmd.x, out.items, cmd.before, Contents(s))
  BY Zenon DEF Looping
<1>2. Len(cmd.argv) \in Nat /\ (cmd.argv = <<>> <=> Len(cmd.argv) = 0)
  BY <1>1, ArgvShape, Zenon
<1>3. /\ cmd.argv # <<>> /\ cmd.i \in Int /\ 2 <= cmd.i /\ cmd.i <= Len(cmd.argv)
      /\ Len(cmd.argv) >= 2
  BY <1>1, <1>2
<1>4. Upper(cmd.argv[1]) = name /\ \A other : In(other) => other = name
  BY Zenon DEF In, arg_eq_ci
<1>5. /\ name = "DEL" =>
           DelSoFar(cmd.argv, cmd.i, cmd.n, out.items, cmd.before, Contents(s))
      /\ name = "EXISTS" =>
           ExistsSoFar(cmd.argv, cmd.i, cmd.n, out.items, cmd.before, Contents(s))
      /\ name = "MGET" =>
           MgetSoFar(cmd.argv, cmd.i, out.items, cmd.before, Contents(s))
      /\ name = "MSET" =>
           /\ Len(cmd.argv) % 2 = 1
           /\ MsetSoFar(cmd.argv, cmd.i, out.items, cmd.before, Contents(s))
      /\ name = "EXPIRE" => ExpireSoFar(cmd.argv, cmd.x, out.items)
  BY <1>1, <1>4, Zenon DEF SoFar, arg_eq_ci
<1>6. QED
  BY <1>1, <1>2, <1>3, <1>4, <1>5, Zenon

(* DEL (src/cmd.c, cmd_del). *)
LEMMA DelGood ==
  ASSUME StoreFacts, Inv, In("DEL"), DelRound
  PROVE  Good
<1> DEFINE argv == cmd.argv
           k == argv[cmd.i]
           r == store_del(s, k)
           n == cmd.n + r.res
           E == cmd.before
           x == resp_reply_integer(n)
<1>1. cmd # Idle /\ Looping
  BY Zenon DEF Inv, In
<1>2. /\ argv \in Commands /\ argv # <<>> /\ Len(argv) \in Nat
      /\ cmd.i \in Int /\ 2 <= cmd.i /\ cmd.i <= Len(argv) /\ Len(argv) >= 2
      /\ Held0(E) /\ Upper(argv[1]) = "DEL"
      /\ DelSoFar(argv, cmd.i, cmd.n, out.items, E, Contents(s))
      /\ \A other : In(other) => other = "DEL"
  BY <1>1, WhichLoop, Zenon
<1>3. Call(r, k, {}) /\ now' = now /\ Round(cmd.i + 1, n, out.items, <<x>>)
  BY Zenon DEF DelRound, Counted
<1>4. cmd.i \in KeyPlaces(argv)
  BY <1>2 DEF KeyPlaces
<1>5. k \in Keys
  BY <1>2, <1>4, CommandsAssumption, Zenon
<1> HIDE DEF k
<1>6. StoreInv(s) /\ Base /\ now' \in Times
  BY <1>3, Zenon DEF Inv, Base
<1>7. /\ StoreInv(r.s) /\ Progress(r.s, s)
      /\ Contents(r.s) = Contents(s) \ HeldIn(s, k)
      /\ r.res = IF HeldIn(s, k) = {} THEN 0 ELSE 1
  BY <1>5, <1>6, DelLaw, Zenon
<1>8. Promised(r, k, {})
  BY <1>7, Zenon DEF Promised, HeldIn
<1>9. Base'
  <2>1. {} \in SUBSET Int /\ \A a, b \in {} : a = b
    OBVIOUS
  <2>2. QED
    BY <1>3, <1>5, <1>6, <1>7, <1>8, <2>1, CallKeeps, Zenon
<1> HIDE DEF argv, E
<1>10. HeldIn(s, k) = Held(Contents(s), argv[cmd.i])
  BY Zenon DEF HeldIn, Held, k
<1>11. Contents(s') = Contents(s) \ Held(Contents(s), argv[cmd.i])
  BY <1>3, <1>7, <1>10, Zenon DEF Call
<1>12. r.res = IF Held(Contents(s), argv[cmd.i]) = {} THEN 0 ELSE 1
  BY <1>7, <1>10, Zenon
<1> HIDE DEF r
<1>13. out.items = <<>> /\ cmd.i >= 2 /\ cmd.i + 1 \in Int /\ cmd.i + 1 >= 2
  BY <1>2 DEF DelSoFar
<1>14. DelSoFar(argv, cmd.i + 1, n, <<>>, E, Contents(s'))
  BY <1>2, <1>11, <1>12, <1>13, DelNext, Zenon
<1>15. cmd.i + 1 > Len(argv) => cmd.i + 1 = Len(argv) + 1
  BY <1>2
<1> HIDE DEF n, x
<1>16. cmd.i + 1 > Len(argv) => DelExact(argv, <<>> \o <<x>>, E, Contents(s'))
  BY <1>2, <1>14, <1>15, DelEnd, Zenon DEF x
<1>17. x.type # "array" /\ x.type # "error"
  BY ItemTypes DEF x
<1>18. Replied(argv, <<>> \o <<x>>) /\ ~(resp_reply_error \in Range(<<>> \o <<x>>))
  BY <1>2, <1>17, LastItem, Zenon
<1>19. ~(resp_reply_error \in Range(<<>>))
  BY DEF Range
<1>20. SoFar(argv, cmd.i + 1, n, cmd.x, <<>>, E, Contents(s'))
  BY <1>2, <1>14, Zenon DEF SoFar, arg_eq_ci
<1>21. "DEL" # "EXISTS" /\ "DEL" # "MGET" /\ "DEL" # "MSET"
  OBVIOUS
<1>22. ~In("EXISTS") /\ ~In("MGET") /\ ~In("MSET")
  BY <1>2, <1>21, Zenon
<1>23. Round(cmd.i + 1, n, <<>>, <<x>>)
  BY <1>3, <1>13, Zenon DEF n, x
<1>24. QED
  BY <1>1, <1>9, <1>13, <1>16, <1>18, <1>19, <1>20, <1>22, <1>23, RoundGood, Zenon
     DEF argv, E

(* The store call of a round of EXISTS or MGET. *)
LEMMA RoundLooks ==
  ASSUME StoreFacts, Inv, cmd # Idle, cmd.argv \in Commands, Len(cmd.argv) \in Nat,
         cmd.i \in Int, 2 <= cmd.i, cmd.i <= Len(cmd.argv),
         Upper(cmd.argv[1]) \in {"EXISTS", "MGET"}, now' = now,
         NEW r, r.s = store_get(s, cmd.argv[cmd.i], now).s,
         Call(r, cmd.argv[cmd.i], due[cmd.argv[cmd.i]])
  PROVE  LET L == LiveHeldIn(s, cmd.argv[cmd.i], now)
             g == store_get(s, cmd.argv[cmd.i], now)
             q == store_exists(s, cmd.argv[cmd.i], now)
         IN  /\ Base'
             /\ Looked(Contents(s), cmd.argv[cmd.i], now, L, Contents(s'))
             /\ q.s = g.s
             /\ g.res = {e.val : e \in L}
             /\ q.res = IF L = {} THEN 0 ELSE 1
<1> DEFINE argv == cmd.argv
           k == argv[cmd.i]
           L == LiveHeldIn(s, k, now)
           g == store_get(s, k, now)
           q == store_exists(s, k, now)
<1>1. cmd.i \in KeyPlaces(argv)
  BY DEF KeyPlaces
<1>2. k \in Keys
  BY <1>1, CommandsAssumption, Zenon
<1>3. StoreInv(s) /\ Base /\ now' \in Times
  BY Zenon DEF Inv, Base
<1>4. due[k] \in SUBSET Int /\ \A a, b \in due[k] : a = b
  BY <1>2, <1>3 DEF Base
<1>5. Call(r, k, due[k]) /\ r.s = g.s
  BY Zenon
<1> HIDE DEF k
<1>6. /\ StoreInv(g.s) /\ Progress(g.s, s)
      /\ Contents(g.s) = PurgedIn(s, k, now)
      /\ q.s = g.s
      /\ g.res = {e.val : e \in L}
      /\ q.res = IF L = {} THEN 0 ELSE 1
  BY <1>2, <1>3, LookupLaw, Zenon
<1> HIDE DEF g, q
<1>7. StoreInv(r.s) /\ Contents(r.s) = PurgedIn(s, k, now)
  BY <1>5, <1>6, Zenon
<1>8. Promised(r, k, due[k])
  BY <1>7, PromiseKept, Zenon
<1>9. Base'
  BY <1>2, <1>3, <1>4, <1>5, <1>7, <1>8, CallKeeps, Zenon
<1>10. Contents(s') = PurgedIn(s, k, now)
  BY <1>5, <1>7, Zenon DEF Call
<1>11. HeldIn(s, k) = Held(Contents(s), k)
  BY Zenon DEF HeldIn, Held
<1>12. Looked(Contents(s), k, now, L, Contents(s'))
  BY <1>10, <1>11, Zenon DEF Looked, PurgedIn, LiveHeldIn
<1>13. QED
  BY <1>6, <1>9, <1>12, Zenon DEF g, q, k

(* EXISTS (src/cmd.c, cmd_exists). *)
LEMMA ExistsGood ==
  ASSUME StoreFacts, Inv, In("EXISTS"), ExistsRound
  PROVE  Good
<1> DEFINE argv == cmd.argv
           k == argv[cmd.i]
           r == store_exists(s, k, now)
           g == store_get(s, k, now)
           L == LiveHeldIn(s, k, now)
           n == cmd.n + r.res
           E == cmd.before
           x == resp_reply_integer(n)
<1>1. cmd # Idle /\ Looping
  BY Zenon DEF Inv, In
<1>2. /\ argv \in Commands /\ argv # <<>> /\ Len(argv) \in Nat
      /\ cmd.i \in Int /\ 2 <= cmd.i /\ cmd.i <= Len(argv) /\ Len(argv) >= 2
      /\ Held0(E) /\ Upper(argv[1]) = "EXISTS"
      /\ ExistsSoFar(argv, cmd.i, cmd.n, out.items, E, Contents(s))
      /\ \A other : In(other) => other = "EXISTS"
  BY <1>1, WhichLoop, Zenon
<1>3. Call(r, k, due[k]) /\ now' = now /\ Round(cmd.i + 1, n, out.items, <<x>>)
  BY Zenon DEF ExistsRound, Counted
<1>4. cmd.i \in KeyPlaces(argv)
  BY <1>2 DEF KeyPlaces
<1>5. k \in Keys /\ StoreInv(s)
  BY <1>2, <1>4, CommandsAssumption, Zenon DEF Inv, Base
<1>6. r.s = g.s
  <2> HIDE DEF k
  <2>1. /\ StoreInv(g.s) /\ Progress(g.s, s)
        /\ Contents(g.s) = PurgedIn(s, k, now)
        /\ r.s = g.s
        /\ g.res = {e.val : e \in L}
        /\ r.res = IF L = {} THEN 0 ELSE 1
    BY <1>5, LookupLaw, Zenon
  <2>2. QED
    BY <2>1, Zenon
<1>7. /\ Base'
      /\ Looked(Contents(s), k, now, L, Contents(s'))
      /\ r.s = g.s
      /\ g.res = {e.val : e \in L}
      /\ r.res = IF L = {} THEN 0 ELSE 1
  BY <1>1, <1>2, <1>3, <1>6, RoundLooks, Zenon
<1> HIDE DEF argv, E, r, L
<1>8. out.items = <<>> /\ cmd.i >= 2 /\ cmd.i + 1 \in Int /\ cmd.i + 1 >= 2
  BY <1>2 DEF ExistsSoFar
<1>9. ExistsSoFar(argv, cmd.i + 1, n, <<>>, E, Contents(s'))
  BY <1>2, <1>7, <1>8, ExistsNext, Zenon
<1>10. cmd.i + 1 > Len(argv) => cmd.i + 1 = Len(argv) + 1
  BY <1>2
<1> HIDE DEF n, x
<1>11. cmd.i + 1 > Len(argv) => ExistsExact(argv, <<>> \o <<x>>, E)
  BY <1>2, <1>9, <1>10, ExistsEnd, Zenon DEF x
<1>12. x.type # "array" /\ x.type # "error"
  BY ItemTypes DEF x
<1>13. Replied(argv, <<>> \o <<x>>) /\ ~(resp_reply_error \in Range(<<>> \o <<x>>))
  BY <1>2, <1>12, LastItem, Zenon
<1>14. ~(resp_reply_error \in Range(<<>>))
  BY DEF Range
<1>15. SoFar(argv, cmd.i + 1, n, cmd.x, <<>>, E, Contents(s'))
  BY <1>2, <1>9, Zenon DEF SoFar, arg_eq_ci
<1>16. "EXISTS" # "DEL" /\ "EXISTS" # "MGET" /\ "EXISTS" # "MSET"
  OBVIOUS
<1>17. ~In("DEL") /\ ~In("MGET") /\ ~In("MSET")
  BY <1>2, <1>16, Zenon
<1>18. Round(cmd.i + 1, n, <<>>, <<x>>)
  BY <1>3, <1>8, Zenon DEF n, x
<1>19. QED
  BY <1>1, <1>7, <1>8, <1>11, <1>13, <1>14, <1>15, <1>17, <1>18, RoundGood, Zenon
     DEF argv, E

(* MGET (src/cmd.c, cmd_mget). *)
LEMMA MgetGood ==
  ASSUME StoreFacts, Inv, In("MGET"), MgetRound
  PROVE  Good
<1> DEFINE argv == cmd.argv
           k == argv[cmd.i]
           g == store_get(s, k, now)
           r == store_exists(s, k, now)
           L == LiveHeldIn(s, k, now)
           E == cmd.before
           items == Append(out.items, Found(g.res))
<1>1. cmd # Idle /\ Looping
  BY Zenon DEF Inv, In
<1>2. /\ argv \in Commands /\ argv # <<>> /\ Len(argv) \in Nat
      /\ cmd.i \in Int /\ 2 <= cmd.i /\ cmd.i <= Len(argv) /\ Len(argv) >= 2
      /\ Held0(E) /\ Upper(argv[1]) = "MGET"
      /\ MgetSoFar(argv, cmd.i, out.items, E, Contents(s))
      /\ \A other : In(other) => other = "MGET"
  BY <1>1, WhichLoop, Zenon
<1>3. Call(g, k, due[k]) /\ now' = now /\ Round(cmd.i + 1, 0, items, <<>>)
  BY Zenon DEF MgetRound
<1>4. /\ Base'
      /\ Looked(Contents(s), k, now, L, Contents(s'))
      /\ r.s = g.s
      /\ g.res = {e.val : e \in L}
      /\ r.res = IF L = {} THEN 0 ELSE 1
  BY <1>1, <1>2, <1>3, RoundLooks, Zenon
<1> HIDE DEF argv, E, r, L, g
<1>5. cmd.i >= 2 /\ cmd.i + 1 \in Int /\ cmd.i + 1 >= 2
  BY <1>2
<1>6. MgetSoFar(argv, cmd.i + 1, Append(out.items, Found({e.val : e \in L})), E, Contents(s'))
  BY <1>2, <1>4, <1>5, MgetNext, Zenon
<1>7. MgetSoFar(argv, cmd.i + 1, items, E, Contents(s'))
  BY <1>4, <1>6, Zenon
<1>8. cmd.i + 1 > Len(argv) => cmd.i + 1 = Len(argv) + 1
  BY <1>2
<1> HIDE DEF items
<1>9. cmd.i + 1 > Len(argv) =>
        /\ MgetExact(argv, items \o <<>>, E)
        /\ Replied(argv, items \o <<>>)
        /\ ~(resp_reply_error \in Range(items \o <<>>))
  BY <1>2, <1>7, <1>8, MgetEnd, Zenon
<1>10. ~(resp_reply_error \in Range(items))
  <2>1. \A y \in MgetItem(argv) : y.type # "error"
    BY ItemTypes DEF MgetItem
  <2>2. items \in Seq(MgetItem(argv))
    BY <1>7, Zenon DEF MgetSoFar
  <2>3. \A j \in DOMAIN items : items[j] \in MgetItem(argv)
    BY <2>2
  <2>4. QED
    BY <2>1, <2>3, ItemTypes, Zenon DEF Range
<1>11. SoFar(argv, cmd.i + 1, 0, cmd.x, items, E, Contents(s'))
  BY <1>2, <1>7, Zenon DEF SoFar, arg_eq_ci
<1>12. "MGET" # "DEL" /\ "MGET" # "EXISTS" /\ "MGET" # "MSET"
  OBVIOUS
<1>13. ~In("DEL") /\ ~In("EXISTS") /\ ~In("MSET")
  BY <1>2, <1>12, Zenon
<1>14. Round(cmd.i + 1, 0, items, <<>>)
  BY <1>3, Zenon DEF items
<1>15. QED
  BY <1>1, <1>4, <1>5, <1>9, <1>10, <1>11, <1>13, <1>14, RoundGood, Zenon DEF argv, E

(* A key of MSET has its value behind it, for the arguments are in pairs. *)
LEMMA Pairs ==
  ASSUME NEW i \in Int, NEW n \in Nat, 2 <= i, i <= n, i % 2 = 0, n % 2 = 1
  PROVE  /\ i \in 2 .. n /\ i + 1 \in 3 .. n /\ (i + 1) % 2 = 1
         /\ i + 2 \in Int /\ i + 2 >= 2 /\ i >= 2
         /\ i + 2 > n => i + 2 = n + 1
OBVIOUS

(* MSET (src/cmd.c, cmd_mset). *)
LEMMA MsetGood ==
  ASSUME StoreFacts, Inv, In("MSET"), MsetRound
  PROVE  Good
<1> DEFINE argv == cmd.argv
           k == argv[cmd.i]
           v == argv[cmd.i + 1]
           r == store_set(s, k, v, 0)
           E == cmd.before
           x == resp_reply_simple_string
<1>1. cmd # Idle /\ Looping
  BY Zenon DEF Inv, In
<1>2. /\ argv \in Commands /\ argv # <<>> /\ Len(argv) \in Nat
      /\ cmd.i \in Int /\ 2 <= cmd.i /\ cmd.i <= Len(argv) /\ Len(argv) >= 2
      /\ Held0(E) /\ Upper(argv[1]) = "MSET"
      /\ Len(argv) % 2 = 1
      /\ MsetSoFar(argv, cmd.i, out.items, E, Contents(s))
      /\ \A other : In(other) => other = "MSET"
  BY <1>1, WhichLoop, Zenon
<1>3. Call(r, k, {}) /\ now' = now /\ Round(cmd.i + 2, 0, out.items, <<x>>)
  BY Zenon DEF MsetRound
<1>4. cmd.i % 2 = 0 /\ out.items = <<>>
  BY <1>2, Zenon DEF MsetSoFar
<1>5. /\ cmd.i \in 2 .. Len(argv) /\ cmd.i + 1 \in 3 .. Len(argv) /\ (cmd.i + 1) % 2 = 1
      /\ cmd.i + 2 \in Int /\ cmd.i + 2 >= 2 /\ cmd.i >= 2
      /\ cmd.i + 2 > Len(argv) => cmd.i + 2 = Len(argv) + 1
  BY <1>2, <1>4, Pairs, Zenon
<1>6. cmd.i \in KeyPlaces(argv) /\ cmd.i + 1 \in ValuePlaces(argv)
  BY <1>2, <1>4, <1>5, Zenon DEF KeyPlaces, ValuePlaces
<1>7. k \in Keys /\ v \in Values
  BY <1>2, <1>6, CommandsAssumption, Zenon
<1> HIDE DEF k, v
<1>8. StoreInv(s) /\ Base /\ now' \in Times /\ 0 \in Int
  BY <1>3 DEF Inv, Base
<1>9. /\ StoreInv(r.s) /\ Progress(r.s, s)
      /\ Contents(r.s) = (Contents(s) \ HeldIn(s, k)) \cup {NewEntry(k, v, 0)}
      /\ r.res = IF HeldIn(s, k) = {} THEN 1 ELSE 0
  BY <1>7, <1>8, SetLaw, Zenon
<1>10. \A e \in {NewEntry(k, v, 0)} : e.key = k /\ e.expire_at_ms = ExpireAt({})
  BY DEF NewEntry, ExpireAt
<1> HIDE DEF r
<1>11. Promised(r, k, {})
  BY <1>9, <1>10, PromiseNew, Zenon
<1>12. Base'
  <2>1. {} \in SUBSET Int /\ \A a, b \in {} : a = b
    OBVIOUS
  <2>2. QED
    BY <1>3, <1>7, <1>8, <1>9, <1>11, <2>1, CallKeeps, Zenon
<1> HIDE DEF argv, E
<1>13. HeldIn(s, k) = Held(Contents(s), argv[cmd.i])
  BY Zenon DEF HeldIn, Held, k
<1>14. Contents(s') = (Contents(s) \ Held(Contents(s), argv[cmd.i]))
                        \cup {NewEntry(argv[cmd.i], argv[cmd.i + 1], 0)}
  BY <1>3, <1>9, <1>13, Zenon DEF Call, k, v
<1>15. MsetSoFar(argv, cmd.i + 2, <<>>, E, Contents(s'))
  BY <1>2, <1>4, <1>5, <1>14, MsetNext, Zenon
<1>16. cmd.i + 2 > Len(argv) => MsetExact(argv, E, Contents(s'))
  BY <1>2, <1>5, <1>15, MsetEnd, Zenon
<1>17. x.type # "array" /\ x.type # "error"
  BY ItemTypes
<1> HIDE DEF x
<1>18. Replied(argv, <<>> \o <<x>>) /\ ~(resp_reply_error \in Range(<<>> \o <<x>>))
  BY <1>2, <1>17, LastItem, Zenon
<1>19. ~(resp_reply_error \in Range(<<>>))
  BY DEF Range
<1>20. SoFar(argv, cmd.i + 2, 0, cmd.x, <<>>, E, Contents(s'))
  BY <1>2, <1>15, Zenon DEF SoFar, arg_eq_ci
<1>21. "MSET" # "DEL" /\ "MSET" # "EXISTS" /\ "MSET" # "MGET"
  OBVIOUS
<1>22. ~In("DEL") /\ ~In("EXISTS") /\ ~In("MGET")
  BY <1>2, <1>21, Zenon
<1>23. Round(cmd.i + 2, 0, <<>>, <<x>>)
  BY <1>3, <1>4, Zenon
<1>24. QED
  BY <1>1, <1>5, <1>12, <1>16, <1>18, <1>19, <1>20, <1>22, <1>23, RoundGood, Zenon
     DEF argv, E

(* EXPIRE, when its deadline is computed: the store call. *)
LEMMA ExpireGood ==
  ASSUME StoreFacts, Inv, In("EXPIRE"), ExpireCall
  PROVE  Good
<1> DEFINE argv == cmd.argv
           k == argv[2]
           d == cmd.x
           r == store_expire(s, k, ExpireAt(d), now)
           L == LiveHeldIn(s, k, now)
           x == resp_reply_integer(r.res)
<1>1. cmd # Idle /\ Looping
  BY Zenon DEF Inv, In
<1>2. /\ argv \in Commands /\ argv # <<>> /\ Len(argv) >= 2
      /\ Upper(argv[1]) = "EXPIRE"
      /\ ExpireSoFar(argv, d, out.items)
      /\ \A other : In(other) => other = "EXPIRE"
  BY <1>1, WhichLoop, Zenon
<1>3. Call(r, k, d) /\ now' = now /\ Answer(argv, <<x>>)
  BY Zenon DEF ExpireCall
<1>4. k \in Keys
  BY <1>2, KeyArg, Zenon
<1>5. d \in SUBSET Int /\ \A a, b \in d : a = b
  BY <1>2, Zenon DEF ExpireSoFar
<1>6. ExpireAt(d) \in Int
  BY <1>5, DeadlineType, Zenon
<1> HIDE DEF k, d
<1>7. StoreInv(s) /\ Base /\ now' \in Times
  BY <1>3, Zenon DEF Inv, Base
<1>8. /\ StoreInv(r.s) /\ Progress(r.s, s)
      /\ Contents(r.s) = (Contents(s) \ HeldIn(s, k))
                           \cup {NewEntry(k, e.val, ExpireAt(d)) : e \in L}
      /\ r.res = IF L = {} THEN 0 ELSE 1
  BY <1>4, <1>6, <1>7, ExpireLaw, Zenon
<1>9. \A w : NewEntry(k, w, ExpireAt(d)).key = k
             /\ NewEntry(k, w, ExpireAt(d)).expire_at_ms = ExpireAt(d)
  BY DEF NewEntry
<1>10. \A e \in {NewEntry(k, e.val, ExpireAt(d)) : e \in L} :
         e.key = k /\ e.expire_at_ms = ExpireAt(d)
  BY <1>9, Zenon
<1> HIDE DEF r, L
<1>11. Promised(r, k, d)
  BY <1>8, <1>10, PromiseNew, Zenon
<1>12. Base'
  BY <1>3, <1>4, <1>5, <1>7, <1>8, <1>11, CallKeeps, Zenon
<1>13. x.type # "array" /\ x.type # "error"
  BY ItemTypes
<1> HIDE DEF x
<1>14. Replied(argv, <<x>>) /\ ~(resp_reply_error \in Range(<<x>>))
  <2>1. ~(resp_reply_error \in Range(<<x>>))
    BY <1>13, ItemTypes DEF Range
  <2>2. QED
    BY <1>2, <1>13, <2>1, OneItem, Zenon
<1>15. "EXPIRE" # "DEL" /\ "EXPIRE" # "EXISTS" /\ "EXPIRE" # "MGET" /\ "EXPIRE" # "MSET"
  OBVIOUS
<1>16. ~In("DEL") /\ ~In("EXISTS") /\ ~In("MGET") /\ ~In("MSET")
  BY <1>2, <1>15, Zenon
<1>17. QED
  BY <1>1, <1>3, <1>12, <1>14, <1>16, LoopEnds, Zenon
-----------------------------------------------------------------------------
(* Every step of the command loop. *)
LEMMA DispatchGood ==
  ASSUME StoreFacts, Inv, NEW argv \in Commands, cmd_dispatch(argv)
  PROVE  Good
<1> DEFINE is(name) == argv # <<>> /\ arg_eq_ci(argv[1], name)
<1>1. cmd = Idle
  BY Zenon DEF cmd_dispatch
<1>2. CASE argv = <<>> /\ Answer(argv, <<>>) /\ NoCall
  BY <1>1, <1>2, Quiet, Zenon DEF Replied
<1>3. CASE argv # <<>> /\ Refuse(argv)
  BY <1>1, <1>3, Refused, Zenon
<1>4. CASE \/ is("PING") /\ cmd_ping(argv)
           \/ is("ECHO") /\ cmd_echo(argv)
           \/ is("DBSIZE") /\ cmd_dbsize(argv)
           \/ is("LASTSAVE") /\ cmd_lastsave(argv)
  BY <1>1, <1>4, PlainGood, Zenon
<1>5. CASE is("SET") /\ cmd_set(argv)
  BY <1>1, <1>5, SetGood, Zenon
<1>6. CASE is("GET") /\ cmd_get(argv)
  BY <1>1, <1>6, GetGood, Zenon
<1>7. CASE \/ is("MGET") /\ cmd_mget(argv)
           \/ is("MSET") /\ cmd_mset(argv)
           \/ is("DEL") /\ cmd_del(argv)
           \/ is("EXISTS") /\ cmd_exists(argv)
  BY <1>1, <1>7, BeginGood, Zenon
<1>8. CASE is("KEYS") /\ cmd_keys(argv)
  BY <1>1, <1>8, KeysGood, Zenon
<1>9. CASE is("EXPIRE") /\ cmd_expire(argv)
  BY <1>1, <1>9, ExpireBegins, Zenon
<1>10. CASE \/ is("TTL") /\ cmd_ttl(argv)
            \/ is("PTTL") /\ cmd_pttl(argv)
  BY <1>1, <1>10, TtlGood, Zenon DEF cmd_ttl, cmd_pttl, arg_eq_ci
<1>11. CASE \/ is("INCR") /\ cmd_incr(argv)
            \/ is("DECR") /\ cmd_decr(argv)
  BY <1>1, <1>11, IncrOneGood, Zenon
<1>12. CASE \/ is("INCRBY") /\ cmd_incrby(argv)
            \/ is("DECRBY") /\ cmd_decrby(argv)
  BY <1>1, <1>12, IncrByGood, Zenon
<1>13. CASE is("FLUSHDB") /\ cmd_flushdb(argv)
  BY <1>1, <1>13, FlushGood, Zenon
<1>14. CASE \/ is("SAVE") /\ cmd_save(argv)
            \/ is("BGSAVE") /\ cmd_bgsave(argv)
  BY <1>1, <1>14, SaveGood, Zenon
<1>15. \/ argv = <<>> /\ Answer(argv, <<>>) /\ NoCall
       \/ argv # <<>> /\ Refuse(argv)
       \/ is("PING") /\ cmd_ping(argv)
       \/ is("ECHO") /\ cmd_echo(argv)
       \/ is("SET") /\ cmd_set(argv)
       \/ is("GET") /\ cmd_get(argv)
       \/ is("MGET") /\ cmd_mget(argv)
       \/ is("MSET") /\ cmd_mset(argv)
       \/ is("DEL") /\ cmd_del(argv)
       \/ is("EXISTS") /\ cmd_exists(argv)
       \/ is("KEYS") /\ cmd_keys(argv)
       \/ is("EXPIRE") /\ cmd_expire(argv)
       \/ is("TTL") /\ cmd_ttl(argv)
       \/ is("PTTL") /\ cmd_pttl(argv)
       \/ is("INCR") /\ cmd_incr(argv)
       \/ is("DECR") /\ cmd_decr(argv)
       \/ is("INCRBY") /\ cmd_incrby(argv)
       \/ is("DECRBY") /\ cmd_decrby(argv)
       \/ is("DBSIZE") /\ cmd_dbsize(argv)
       \/ is("FLUSHDB") /\ cmd_flushdb(argv)
       \/ is("SAVE") /\ cmd_save(argv)
       \/ is("BGSAVE") /\ cmd_bgsave(argv)
       \/ is("LASTSAVE") /\ cmd_lastsave(argv)
  BY Zenon DEF cmd_dispatch
<1> HIDE DEF is
<1>16. QED
  BY <1>2, <1>3, <1>4, <1>5, <1>6, <1>7, <1>8, <1>9, <1>10, <1>11, <1>12, <1>13,
     <1>14, <1>15, Zenon

LEMMA StepGood ==
  ASSUME StoreFacts, Inv, Next
  PROVE  Good
<1>1. CASE Tick
  <2>1. /\ s' = s /\ due' = due /\ cmd' = cmd /\ out' = out /\ now' \in Times
    BY <1>1, Zenon DEF Tick
  <2>2. Base'
    BY <2>1, SameBase, Zenon DEF Inv
  <2>3. ASSUME cmd # Idle
        PROVE  Looping'
    <3>1. Looping
      BY <2>3, Zenon DEF Inv
    <3>2. QED
      BY <2>1, <3>1 DEF Looping
  <2>4. Inv'
    BY <2>1, <2>2, <2>3, Zenon DEF Inv, Idle
  <2>5. QED
    BY <2>1, <2>4, Zenon DEF Good, ReplyStep, ErrorStep, LoopStep, Inv
<1>2. CASE Continue
  BY <1>2, DelGood, ExistsGood, MgetGood, MsetGood, ExpireGood, Zenon DEF Continue
<1>3. CASE \E argv \in Commands : cmd_dispatch(argv)
  BY <1>3, DispatchGood, Zenon
<1>4. QED
  BY <1>1, <1>2, <1>3, Zenon DEF Next

LEMMA StutterGood ==
  ASSUME Inv, UNCHANGED vars
  PROVE  Good
<1>1. /\ s' = s /\ due' = due /\ cmd' = cmd /\ out' = out /\ now' = now
  BY DEF vars
<1>2. Inv'
  <2>1. Base'
    BY <1>1, SameBase, Zenon DEF Inv, Base
  <2>2. ASSUME cmd # Idle
        PROVE  Looping'
    <3>1. Looping
      BY <2>2, Zenon DEF Inv
    <3>2. QED
      BY <1>1, <3>1 DEF Looping
  <2>3. QED
    BY <1>1, <2>1, <2>2, Zenon DEF Inv, Idle
<1>3. QED
  BY <1>1, <1>2, Zenon DEF Good, ReplyStep, ErrorStep, LoopStep, Inv

LEMMA InitGood ==
  ASSUME StoreFacts, Init
  PROVE  Inv
<1>1. /\ s = store_create /\ now \in Times /\ cmd = Idle
      /\ out = [argv |-> <<>>, items |-> <<>>] /\ due = [k \in Keys |-> {}]
  BY Zenon DEF Init
<1>2. StoreInv(s) /\ Contents(s) = {}
  BY <1>1, CreateInv, Zenon
<1>3. due \in [Keys -> SUBSET Int] /\ \A k \in Keys : due[k] = {}
  BY <1>1
<1>4. Base
  BY <1>1, <1>2, <1>3, Zenon DEF Base
<1>5. out.argv = <<>> /\ out.items = <<>>
  BY <1>1
<1>6. QED
  BY <1>1, <1>4, <1>5, Zenon DEF Inv, Replied
(* What clients were promised can be held in an expire_at_ms: it is in the *)
(* range of int64, and not the 0 that stands for no expiry.                *)
Representable == \A k \in Keys : due[k] \subseteq Int64 \ {0}

LEMMA KeptNow ==
  ASSUME StoreFacts, Inv, Representable, NEW e \in Contents(s)
  PROVE  due[e.key] = {e.expire_at_ms} \ {0}
<1> DEFINE d == due[e.key]
<1>1. StoreInv(s) /\ e.expire_at_ms = ExpireAt(d)
  BY Zenon DEF Inv, Base
<1>2. e.key \in Keys
  BY <1>1, ContentsEntries DEF Entry
<1>3. d \in SUBSET Int /\ (\A a, b \in d : a = b) /\ d \subseteq Int64 \ {0}
  BY <1>2 DEF Inv, Base, Representable
<1> HIDE DEF d
<1>4. /\ d = {} => ExpireAt(d) = 0
      /\ \A n \in Int64 : d = {n} => ExpireAt(d) = n
  BY <1>3, DeadlineType, Zenon
<1>5. CASE d = {}
  BY <1>1, <1>4, <1>5, Zenon DEF d
<1>6. CASE d # {}
  <2>1. PICK n \in d : TRUE
    BY <1>6, Zenon
  <2>2. d = {n} /\ n \in Int64 /\ n # 0
    BY <1>3, <2>1, Zenon
  <2>3. e.expire_at_ms = n
    BY <1>1, <1>4, <2>2, Zenon
  <2>4. d = {e.expire_at_ms} \ {0}
    BY <2>2, <2>3, Zenon
  <2>5. QED
    BY <2>4, Zenon DEF d
<1>7. QED
  BY <1>5, <1>6, Zenon
-----------------------------------------------------------------------------
(* The live entries of a key, the numbers and the deadlines they hold, as  *)
(* Cmd and as the law of store_incrby name them.                           *)
LEMMA LiveNumbers ==
  ASSUME NEW st, NEW k, NEW at, NEW L, L = LiveHeldIn(st, k, at)
  PROVE  /\ L = {e \in Held(Contents(st), k) : ~Expired(e, at)}
         /\ NumbersOf(L) = IF L = {} THEN {0}
                           ELSE UNION {parse_strict_ll(e.val) : e \in L}
<1>1. L = {e \in Held(Contents(st), k) : ~Expired(e, at)}
  BY Zenon DEF LiveHeldIn, HeldIn, Held
<1>2. {ParseLL[e.val] : e \in {f \in L : f.val \in DOMAIN ParseLL}}
        = UNION {parse_strict_ll(e.val) : e \in L}
  <2>1. \A e \in L : parse_strict_ll(e.val)
          = IF e.val \in DOMAIN ParseLL THEN {ParseLL[e.val]} ELSE {}
    BY DEF parse_strict_ll
  <2>2. \A n : (\E e \in L : n \in parse_strict_ll(e.val))
          <=> \E e \in {f \in L : f.val \in DOMAIN ParseLL} : n = ParseLL[e.val]
    BY <2>1, Zenon
  <2>3. QED
    BY <2>2
<1>3. QED
  BY <1>1, <1>2, Zenon DEF NumbersOf

(* A key has one live entry at most, so one number and one deadline. *)
LEMMA OneNumber ==
  ASSUME StoreFacts, StoreInv(s), NEW k, NEW L, L = LiveHeldIn(s, k, now)
  PROVE  /\ \A a, b \in NumbersOf(L) : a = b
         /\ \A x, y \in KeptOf(L) : x = y
<1>1. \A e, f \in L : e = f
  <2>1. UniqueKeys(Contents(s))
    BY Zenon DEF StoreInv
  <2>2. QED
    BY <2>1, Zenon DEF UniqueKeys, LiveHeldIn, HeldIn
<1>2. \A a, b \in NumbersOf(L) : a = b
  BY <1>1, Zenon DEF NumbersOf
<1>3. \A x, y \in KeptOf(L) : x = y
  BY <1>1, Zenon DEF KeptOf
<1>4. QED
  BY <1>2, <1>3, Zenon

(* The answer of store_incrby: the sum, if there is a number to add to and *)
(* an int64 holds it; and what is then held under the key.                 *)
Sums(L, d) == {n + d : n \in NumbersOf(L)} \cap Int64

Summed(r, k, L, sums) ==
  /\ sums = {} => r.res \in {<<"not_integer">>, <<"overflow">>}
  /\ \A n \in sums :
       /\ r.res = <<"ok", n>>
       /\ Held(Contents(r.s), k) = {NewEntry(k, FormatLL[n], x) : x \in KeptOf(L)}

LEMMA SumAnswered ==
  ASSUME StoreFacts, StoreInv(s), NEW k, NEW d \in Int64, NEW r,
         Incremented(r, s, k, d, now)
  PROVE  LET L == LiveHeldIn(s, k, now) IN Summed(r, k, L, Sums(L, d))
<1> DEFINE L == LiveHeldIn(s, k, now)
           sums == Sums(L, d)
<1>0. sums = {n + d : n \in NumbersOf(L)} \cap Int64
  BY Zenon DEF Sums
<1> DEFINE N == NumbersOf(L)
           X == KeptOf(L)
<1>1. (\A a, b \in N : a = b) /\ (\A x, y \in X : x = y)
  BY OneNumber, Zenon
<1> HIDE DEF N, X, sums
<1>2. ASSUME N = {}, r.res = <<"not_integer">>
      PROVE  sums = {}
  BY <1>0, <1>2, Zenon DEF N
<1>3. ASSUME \E n \in N : n + d \notin Int64 /\ r.res = <<"overflow">>
      PROVE  sums = {} /\ r.res = <<"overflow">>
  <2>1. PICK n \in N : n + d \notin Int64 /\ r.res = <<"overflow">>
    BY <1>3, Zenon
  <2>2. \A m \in N : m + d = n + d
    BY <1>1, Zenon
  <2>3. sums = {}
    BY <1>0, <2>1, <2>2, Zenon DEF N
  <2>4. QED
    BY <2>1, <2>3, Zenon
<1>4. ASSUME NEW n \in N, NEW x \in X, n + d \in Int64,
             Contents(r.s) = (Contents(s) \ HeldIn(s, k))
                               \cup {NewEntry(k, FormatLL[n + d], x)},
             r.res = <<"ok", n + d>>
      PROVE  /\ sums # {}
             /\ \A m \in sums :
                  /\ r.res = <<"ok", m>>
                  /\ Held(Contents(r.s), k) = {NewEntry(k, FormatLL[m], y) : y \in X}
  <2>1. \A m \in N : m + d = n + d
    BY <1>1, Zenon
  <2>2. n + d \in sums /\ \A m \in sums : m = n + d
    BY <1>0, <1>4, <2>1, Zenon DEF N
  <2> DEFINE f == NewEntry(k, FormatLL[n + d], x)
  <2>3. f.key = k
    BY DEF NewEntry
  <2>4. {NewEntry(k, FormatLL[n + d], y) : y \in X} = {f}
    BY <1>1, Zenon
  <2>5. Contents(r.s) = (Contents(s) \ HeldIn(s, k)) \cup {f}
    BY <1>4, Zenon
  <2> HIDE DEF f
  <2>6. Held(Contents(r.s), k) = {f}
    BY <2>3, <2>5, Zenon DEF Held, HeldIn
  <2>7. ASSUME NEW m \in sums
        PROVE  r.res = <<"ok", m>>
               /\ Held(Contents(r.s), k) = {NewEntry(k, FormatLL[m], y) : y \in X}
    <3>1. m = n + d
      BY <2>2, Zenon
    <3>2. QED
      BY <1>4, <2>4, <2>6, <3>1, Zenon
  <2>8. QED
    BY <2>2, <2>7, Zenon
<1>5. \/ N = {} /\ r.res = <<"not_integer">>
      \/ \E n \in N : n + d \notin Int64 /\ r.res = <<"overflow">>
      \/ \E n \in N, x \in X :
           /\ n + d \in Int64
           /\ Contents(r.s) = (Contents(s) \ HeldIn(s, k))
                                \cup {NewEntry(k, FormatLL[n + d], x)}
           /\ r.res = <<"ok", n + d>>
  BY Zenon DEF Incremented, N, X
<1>6. QED
  BY <1>2, <1>3, <1>4, <1>5, Zenon DEF X, sums, Summed

LEMMA IncrCallExact ==
  ASSUME StoreFacts, Inv, NEW argv, argv[2] \in Keys, NEW d \in Int64,
         IncrBy(argv, d)
  PROVE  IncrStep(argv, d)
<1> DEFINE k == argv[2]
           r == store_incrby(s, k, d, now)
           L == LiveHeldIn(s, k, now)
           sums == Sums(L, d)
<1>1. s' = r.s /\ out' = [argv |-> argv, items |-> reply_incr_result(r.res)]
  BY Zenon DEF IncrBy, Call, Answer
<1>2. StoreInv(s) /\ k \in Keys
  BY Zenon DEF Inv, Base
<1> HIDE DEF k
<1>3. Incremented(r, s, k, d, now)
  BY <1>2, IncrLaw, Zenon
<1> HIDE DEF r
<1> DEFINE live == {e \in Held(Contents(s), k) : ~Expired(e, now)}
<1>8. L = live
  BY Zenon DEF LiveHeldIn, HeldIn, Held
<1>4. out'.items = reply_incr_result(r.res)
  BY <1>1
<1>5. /\ sums = {} => r.res \in {<<"not_integer">>, <<"overflow">>}
      /\ \A n \in sums :
           /\ r.res = <<"ok", n>>
           /\ Held(Contents(r.s), k) = {NewEntry(k, FormatLL[n], x) : x \in KeptOf(L)}
  <2>1. Summed(r, k, L, Sums(L, d))
    BY <1>2, <1>3, SumAnswered, Zenon
  <2> HIDE DEF L
  <2>2. QED
    BY <2>1, Zenon DEF Summed
<1>6. ASSUME r.res \in {<<"not_integer">>, <<"overflow">>}
      PROVE  out'.items = <<resp_reply_error>>
  <2>1. r.res[1] # "ok"
    BY <1>6
  <2>2. QED
    BY <1>4, <2>1, Zenon DEF reply_incr_result
<1>7. ASSUME NEW n, r.res = <<"ok", n>>
      PROVE  out'.items = <<resp_reply_integer(n)>>
  BY <1>4, <1>7 DEF reply_incr_result
<1>9. NumbersOf(L) = IF live = {} THEN {0}
                     ELSE UNION {parse_strict_ll(e.val) : e \in live}
  <2>1. NumbersOf(L) = IF L = {} THEN {0} ELSE UNION {parse_strict_ll(e.val) : e \in L}
    BY LiveNumbers, Zenon
  <2> HIDE DEF L, live
  <2>2. QED
    BY <1>8, <2>1, Zenon
<1>10. KeptOf(L) = IF live = {} THEN {0} ELSE {e.expire_at_ms : e \in live}
  BY <1>8, Zenon DEF KeptOf
<1>11. /\ sums = {} => out'.items = <<resp_reply_error>>
       /\ \A n \in sums :
            /\ out'.items = <<resp_reply_integer(n)>>
            /\ Held(Contents(s'), k) = {NewEntry(k, FormatLL[n], x) : x \in KeptOf(L)}
  BY <1>1, <1>5, <1>6, <1>7, Zenon
<1>12. QED
  BY <1>9, <1>10, <1>11, Zenon DEF IncrStep, Sums, k

(* A well-formed increment is the one store_incrby call, of what it asks   *)
(* to be added.                                                            *)
LEMMA IncrDispatched ==
  ASSUME NEW argv \in Commands, cmd_dispatch(argv), NEW d \in Addend(argv)
  PROVE  argv[2] \in Keys /\ d \in Int64 /\ IncrBy(argv, d)
<1> DEFINE u == Upper(argv[1])
           delta == IF Len(argv) = 3 THEN parse_strict_ll(argv[3]) ELSE {}
<1>1. \/ u = "INCR" /\ Len(argv) = 2 /\ d = 1
      \/ u = "DECR" /\ Len(argv) = 2 /\ d = -1
      \/ u = "INCRBY" /\ Len(argv) = 3 /\ d \in delta
      \/ /\ u = "DECRBY" /\ Len(argv) = 3
         /\ \E c \in delta : c # INT64_MIN /\ d = -c
  BY Zenon DEF Addend, arg_eq_ci
<1>2. Len(argv) \in Nat /\ Len(argv) >= 2 /\ argv # <<>>
  <2>1. Len(argv) \in {2, 3}
    BY <1>1, Zenon
  <2> HIDE DEF u, delta
  <2>2. Len(argv) >= 2 /\ Len(argv) # 0
    BY <2>1
  <2>3. QED
    BY <2>2, ArgvShape, Zenon
<1>3. u \in {"INCR", "DECR", "INCRBY", "DECRBY"}
  BY <1>1, Zenon
<1>4. argv[2] \in Keys
  BY <1>2, <1>3, KeyArg, Zenon
<1>5. delta \in SUBSET Int64 /\ \A a, b \in delta : a = b
  BY ParseIs, Zenon
<1>6. /\ u = "INCR" => cmd_incr(argv)
      /\ u = "DECR" => cmd_decr(argv)
      /\ u = "INCRBY" => cmd_incrby(argv)
      /\ u = "DECRBY" => cmd_decrby(argv)
  BY <1>2, <1>3, ZenonT(40) DEF cmd_dispatch, arg_eq_ci, COMMAND_TABLE
<1> HIDE DEF u
<1>7. CASE u = "INCR" /\ Len(argv) = 2 /\ d = 1
  <2>1. d \in Int64
    BY <1>7, RangeAssumption, Int64Assumption DEF Int64
  <2>2. QED
    BY <1>4, <1>6, <1>7, <2>1, Zenon DEF cmd_incr
<1>8. CASE u = "DECR" /\ Len(argv) = 2 /\ d = -1
  <2>1. d \in Int64
    BY <1>8, RangeAssumption, Int64Assumption DEF Int64
  <2>2. QED
    BY <1>4, <1>6, <1>8, <2>1, Zenon DEF cmd_decr
<1>9. CASE u = "INCRBY" /\ Len(argv) = 3 /\ d \in delta
  <2>1. PICK c \in delta : IncrBy(argv, 1 * c)
    <3>1. delta # {} /\ 1 # -1
      BY <1>9
    <3>2. QED
      BY <1>6, <1>9, <3>1, Zenon DEF cmd_incrby, cmd_incrby_generic
  <2>2. 1 * c = d /\ d \in Int64
    BY <1>5, <1>9, <2>1, Int64Assumption DEF Int64
  <2>3. QED
    BY <1>4, <2>1, <2>2, Zenon
<1>10. CASE /\ u = "DECRBY" /\ Len(argv) = 3
            /\ \E c \in delta : c # INT64_MIN /\ d = -c
  <2>1. PICK c \in delta : c # INT64_MIN /\ d = -c
    BY <1>10, Zenon
  <2>2. delta # {} /\ delta # {INT64_MIN}
    BY <2>1, Zenon
  <2>3. PICK b \in delta : IncrBy(argv, (-1) * b)
    BY <1>6, <1>10, <2>2, Zenon DEF cmd_decrby, cmd_incrby_generic
  <2>4. b = c /\ c \in Int64
    BY <1>5, <2>1, <2>3, Zenon
  <2>5. (-1) * b = d /\ d \in Int64
    BY <2>1, <2>4, RangeAssumption, Int64Assumption DEF Int64
  <2>6. QED
    BY <1>4, <2>3, <2>5, Zenon
<1>11. QED
  BY <1>1, <1>7, <1>8, <1>9, <1>10, Zenon
-----------------------------------------------------------------------------
(* The facts about finite sets, from the library. *)
INSTANCE FiniteSetTheorems

LEMMA StoreFactsHold == StoreFacts
<1>1. Least
  <2>1. IsWellFoundedOn(OpToRel(<, Nat), Nat)
    BY NatLessThanWellFounded, Zenon
  <2>2. \A S \in SUBSET Nat : S # {} =>
          \E x \in S : \A y \in S : ~ (<<y, x>> \in OpToRel(<, Nat))
    BY <2>1, WFMin, ZenonT(40)
  <2>3. \A x, y \in Nat : y < x => <<y, x>> \in OpToRel(<, Nat)
    BY Zenon DEF OpToRel
  <2>4. \A S \in SUBSET Nat : S # {} => \E x \in S : \A y \in S : ~ (y < x)
    BY <2>2, <2>3, Zenon
  <2>5. \A x, y \in Nat : ~ (y < x) => x <= y
    OBVIOUS
  <2>6. QED
    BY <2>4, <2>5, ZenonT(40) DEF Least
<1>2. CountType
  BY FS_EmptySet, FS_CardinalityType DEF CountType
<1>3. IntervalCount
  BY FS_Interval DEF IntervalCount
<1>4. SubsetCount
  BY FS_Subset DEF SubsetCount
<1>5. AddCount
  BY FS_AddElement DEF AddCount
<1>6. RemoveCount
  BY FS_RemoveElement DEF RemoveCount
<1>7. UnionCount
  BY FS_Union DEF UnionCount
<1>8. DifferenceCount
  BY FS_Difference DEF DifferenceCount
<1>9. PowerCount
  BY FS_SUBSET DEF PowerCount
<1>10. ImageCount
  <2> SUFFICES ASSUME NEW S, NEW T, NEW f, IsFiniteSet(S),
                      T = {f[x] : x \in S},
                      f = [x \in S |-> f[x]],
                      \A x, y \in S : f[x] = f[y] => x = y
               PROVE  IsFiniteSet(T) /\ Cardinality(T) = Cardinality(S)
    BY DEF ImageCount
  <2>1. f \in [S -> T]
    OBVIOUS
  <2>2. \A y \in T : \E x \in S : f[x] = y
    BY Zenon
  <2>3. f \in Bijection(S, T)
    BY <2>1, <2>2, Zenon DEF Bijection, Injection, Surjection, IsInjective
  <2>4. QED
    BY <2>3, FS_Bijection, ZenonT(40) DEF ExistsBijection
<1>11. QED
  BY ONLY <1>1, <1>2, <1>3, <1>4, <1>5, <1>6, <1>7, <1>8, <1>9, <1>10, ZenonT(40)
     DEF StoreFacts

(* The inductive invariant holds: the store is well formed whenever a      *)
(* handler calls it, every deadline it keeps is the one promised as far as *)
(* an int64 can hold it, and each loop over keys has done exactly what its *)
(* arguments up to the present one ask for.                                *)
THEOREM Invariance == Spec => []Inv
<1>1. Init => Inv
  BY StoreFactsHold, InitGood, Zenon
<1>2. Inv /\ [Next]_vars => Inv'
  BY StoreFactsHold, StepGood, StutterGood, Zenon DEF Good
<1>3. QED
  BY <1>1, <1>2, PTL DEF Spec

(* Every command is answered once, with one RESP value (cmd.h:19): for any *)
(* number of keys, an array has as many items as its header counts,        *)
(* though entries expire while MGET runs and KEYS skips expired ones.      *)
THEOREM RepliesWhole == Spec => OneReply
<1>1. Inv /\ [Next]_vars =>
        [cmd' = Idle => IF out'.argv = <<>> THEN out'.items = <<>>
                        ELSE out'.items # <<>> /\ OneValue(out'.items)]_vars
  BY StoreFactsHold, StepGood, Zenon DEF Good, ReplyStep, Replied
<1>2. QED
  BY <1>1, Invariance, PTL DEF Spec, OneReply

(* A command answered with an error, be it for its arguments or, in        *)
(* store_incrby, for the value or an overflow, leaves every live entry as  *)
(* it was and creates none.                                                *)
THEOREM ErrorsAreHarmless == Spec => ErrorsChangeNothing
<1>1. Inv /\ [Next]_vars =>
        [LET before == IF cmd = Idle THEN Contents(s) ELSE cmd.before IN
         out' # out /\ resp_reply_error \in Range(out'.items) =>
           /\ Contents(s') \subseteq before
           /\ \A e \in before \ Contents(s') : Expired(e, now)]_vars
  BY StoreFactsHold, StepGood, Zenon DEF Good, ErrorStep, Untouched
<1>2. QED
  BY <1>1, Invariance, PTL DEF Spec, ErrorsChangeNothing

(* DEL, EXISTS, MGET and MSET do what they say of any number of keys, with *)
(* keys named twice, a rehash going on and a clock that moves, forward or  *)
(* back, between two rounds.                                               *)
THEOREM LoopsExact == Spec => MultiKeyExact
<1>1. Inv /\ [Next]_vars => [LoopStep]_vars
  BY StoreFactsHold, StepGood, Zenon DEF Good
<1>2. QED
  BY <1>1, Invariance, PTL DEF Spec, MultiKeyExact

(* An increment answers with the exact sum and stores it, deadline kept,   *)
(* or answers with an error, for an int64 of any width and any number,     *)
(* both ends of the range included: store_incrby's test before it adds     *)
(* refuses exactly the sums that do not fit.                               *)
THEOREM IncrementsExact == Spec => IncrExact
<1>1. Inv /\ [Next]_vars =>
        [LET argv == out'.argv IN
         argv \in Commands =>
           \A d \in Addend(argv) : cmd_dispatch(argv) => IncrStep(argv, d)]_vars
  BY StoreFactsHold, IncrDispatched, IncrCallExact, Zenon
<1>2. QED
  BY <1>1, Invariance, PTL DEF Spec, IncrExact

(* As long as deadlines are Representable, every key held has the deadline *)
(* that its last SET or EXPIRE asked for: no increment, migration or       *)
(* overwriting of another key moves it, and a key made anew has none.  The *)
(* run cmd_deadline shows that it need not be so otherwise.                *)
THEOREM DeadlinesKept == Spec => [](Representable => DeadlineKept)
<1>1. Inv => (Representable => DeadlineKept)
  BY StoreFactsHold, KeptNow, Zenon DEF DeadlineKept
<1>2. QED
  BY <1>1, Invariance, PTL
=============================================================================
