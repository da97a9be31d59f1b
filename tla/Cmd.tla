--------------------------------- MODULE Cmd ---------------------------------
(***************************************************************************)
(* The commands of src/cmd.c, run one at a time over the store's two       *)
(* tables.  A command is its argument vector; a reply is the sequence of   *)
(* the RESP items written for it.  Handlers that make one store call are   *)
(* one step.  Those that loop over keys take one step a key, for every     *)
(* store call reads the clock anew and the clock does not wait for them.   *)
(***************************************************************************)
EXTENDS StoreTables, Sequences

CONSTANTS
  Commands,    \* the argument vectors clients send
  Upper(_),    \* an argument in upper case
  MsPerSec,    \* 1000 in the code
  SavePath     \* whether the server was started with --save

ASSUME CmdAssumption == MsPerSec \in Nat \ {0} /\ SavePath \in BOOLEAN

\* int64_t is in two's complement.
ASSUME RangeAssumption == INT64_MAX >= 1 /\ INT64_MIN = -INT64_MAX - 1

\* The places of the arguments that a handler hands to the store, as keys and
\* as values to keep.
KeyPlaces(argv) ==
  {i \in 2 .. Len(argv) :
     \/ Upper(argv[1]) \in {"DEL", "EXISTS", "MGET"}
     \/ Upper(argv[1]) = "MSET" /\ i % 2 = 0
     \/ i = 2 /\ Upper(argv[1]) \in {"SET", "GET", "EXPIRE", "TTL", "PTTL",
                                     "INCR", "DECR", "INCRBY", "DECRBY"}}

ValuePlaces(argv) ==
  {i \in 3 .. Len(argv) :
     \/ Upper(argv[1]) = "MSET" /\ i % 2 = 1
     \/ i = 3 /\ Upper(argv[1]) = "SET"}

\* Commands of any length, about the keys and values that StoreData names.
ASSUME CommandsAssumption ==
  \A argv \in Commands :
    /\ argv \in Seq(Range(argv))
    /\ \A i \in KeyPlaces(argv) : argv[i] \in Keys
    /\ \A i \in ValuePlaces(argv) : argv[i] \in Values

VARIABLES
  s,          \* the store
  now,        \* what CLOCK_REALTIME reads, in milliseconds
  cmd,        \* the loop under way, or Idle
  out,        \* the command last begun and the reply items written so far
  lastsave,   \* g_lastsave_time
  due         \* what clients were promised: each key's deadline in exact
              \* arithmetic, as a set that is empty for "no expiry"

vars == <<s, now, cmd, out, lastsave, due>>

Idle == [argv |-> <<>>]

\* Two's complement, which is what the build's int64 arithmetic does.
Wrap(n) == ((n - INT64_MIN) % (INT64_MAX - INT64_MIN + 1)) + INT64_MIN

\* Mutant: the deadline is kept in seconds.
ExpireAtSeconds(d) ==
  IF d = {} THEN 0 ELSE Wrap((CHOOSE n \in d : TRUE) \div MsPerSec)

\* The expire_at_ms that the code computes for a deadline.
ExpireAt(d) == IF d = {} THEN 0 ELSE Wrap(CHOOSE n \in d : TRUE)

resp_reply_simple_string == [type |-> "simple"]
resp_reply_error         == [type |-> "error"]
resp_reply_integer(n)    == [type |-> "integer", n |-> n]
resp_reply_bulk_string(v) == [type |-> "bulk", val |-> v]
resp_reply_null_bulk     == [type |-> "null"]
resp_reply_array_header(n) == [type |-> "array", n |-> n]

arg_eq_ci(arg, name) == Upper(arg) = name

\* The number an argument writes, as a set of at most one.
parse_strict_ll(arg) == {ParseLL[a] : a \in {arg} \cap DOMAIN ParseLL}
-----------------------------------------------------------------------------
\* The reply so far, with items added; and whether that ends the command.
Answer(argv, items) == cmd' = Idle /\ out' = [argv |-> argv, items |-> items]

NoCall == UNCHANGED <<s, now, lastsave, due>>

\* The handler returns early with an error, reply_wrong_arity's or its own.
Refuse(argv) == Answer(argv, <<resp_reply_error>>) /\ NoCall

\* The store after a call that yields r; d is k's deadline if it is held.
Call(r, k, d) ==
  /\ s' = r.s
  /\ due' = [j \in Keys |-> IF \A e \in Contents(r.s) : e.key # j THEN {}
                            ELSE IF j = k THEN d ELSE due[j]]
  /\ UNCHANGED lastsave

\* A loop over the arguments begins, or moves on: `before' is what the store
\* held when the command began, n what the loop has counted, x a deadline.
Loop(argv, i, n, x, before) ==
  cmd' = [argv |-> argv, i |-> i, n |-> n, x |-> x, before |-> before]

Begin(argv, items, x) ==
  /\ Loop(argv, 2, 0, x, Contents(s))
  /\ out' = [argv |-> argv, items |-> items]
  /\ NoCall

cmd_ping(argv) ==
  IF Len(argv) > 2 THEN Refuse(argv)
  ELSE /\ NoCall
       /\ Answer(argv, IF Len(argv) = 2 THEN <<resp_reply_bulk_string(argv[2])>>
                                        ELSE <<resp_reply_simple_string>>)

cmd_echo(argv) ==
  IF Len(argv) # 2 THEN Refuse(argv)
  ELSE Answer(argv, <<resp_reply_bulk_string(argv[2])>>) /\ NoCall

\* The deadline an option EX or PX and a positive number ask for.
SetDeadline(opt, n) ==
  {now + i * (IF arg_eq_ci(opt, "EX") THEN MsPerSec ELSE 1) :
     i \in {j \in n : j > 0 /\ Upper(opt) \in {"EX", "PX"}}}

cmd_set(argv) ==
  LET d == IF Len(argv) = 5 THEN SetDeadline(argv[4], parse_strict_ll(argv[5]))
                            ELSE {}
  IN  IF Len(argv) \notin {3, 5} \/ (Len(argv) = 5 /\ d = {}) THEN Refuse(argv)
      ELSE /\ Call(store_set(s, argv[2], argv[3], ExpireAt(d)), argv[2], d)
           /\ Answer(argv, <<resp_reply_simple_string>>)
           /\ UNCHANGED now

Found(vals) == IF vals = {} THEN resp_reply_null_bulk
               ELSE resp_reply_bulk_string(CHOOSE v \in vals : TRUE)

cmd_get(argv) ==
  IF Len(argv) # 2 THEN Refuse(argv)
  ELSE LET r == store_get(s, argv[2], now) IN
       /\ Call(r, argv[2], due[argv[2]])
       /\ Answer(argv, <<Found(r.res)>>)
       /\ UNCHANGED now

\* The deadline is computed now; the store call, which reads the clock again
\* to see whether the key is live, is a step of its own.
cmd_expire(argv) ==
  LET secs == IF Len(argv) = 3 THEN parse_strict_ll(argv[3]) ELSE {} IN
  IF secs = {} THEN Refuse(argv)
  ELSE Begin(argv, <<>>, {now + n * MsPerSec : n \in secs})

ExpireCall ==
  LET k == cmd.argv[2]
      r == store_expire(s, k, ExpireAt(cmd.x), now)
  IN  /\ Call(r, k, cmd.x)
      /\ Answer(cmd.argv, <<resp_reply_integer(r.res)>>)
      /\ UNCHANGED now

\* Seconds are rounded up.
cmd_ttl_generic(argv, unit) ==
  IF Len(argv) # 2 THEN Refuse(argv)
  ELSE \E later \in Times :
         LET r  == store_ttl_ms(s, argv[2], now, later)
             ms == CHOOSE t \in r.res : TRUE
         IN  /\ Call(r, argv[2], due[argv[2]])
             /\ Answer(argv, <<resp_reply_integer(
                  IF ms < 0 THEN ms ELSE (ms + unit - 1) \div unit)>>)
             /\ now' = later

cmd_ttl(argv) == cmd_ttl_generic(argv, MsPerSec)
cmd_pttl(argv) == cmd_ttl_generic(argv, 1)

\* Mutant: a result of zero is taken for a failure.
reply_incr_resultZero(res) ==
  IF res[1] = "ok" /\ res[2] # 0 THEN <<resp_reply_integer(res[2])>>
  ELSE <<resp_reply_error>>

reply_incr_result(res) ==
  IF res[1] = "ok" THEN <<resp_reply_integer(res[2])>> ELSE <<resp_reply_error>>

\* store_incrby and its reply.  A live key keeps its deadline.
IncrBy(argv, d) ==
  LET k    == argv[2]
      r    == store_incrby(s, k, d, now)
      live == \E e \in Contents(s) : e.key = k /\ ~Expired(e, now)
  IN  /\ Call(r, k, IF live THEN due[k] ELSE {})
      /\ Answer(argv, reply_incr_result(r.res))
      /\ UNCHANGED now

cmd_incr(argv) == IF Len(argv) # 2 THEN Refuse(argv) ELSE IncrBy(argv, 1)
cmd_decr(argv) == IF Len(argv) # 2 THEN Refuse(argv) ELSE IncrBy(argv, -1)

\* INT64_MIN is refused before it is negated.
cmd_incrby_generic(argv, sign) ==
  LET delta == IF Len(argv) = 3 THEN parse_strict_ll(argv[3]) ELSE {} IN
  IF delta = {} \/ (sign = -1 /\ delta = {INT64_MIN}) THEN Refuse(argv)
  ELSE \E d \in delta : IncrBy(argv, sign * d)

cmd_incrby(argv) == cmd_incrby_generic(argv, 1)
cmd_decrby(argv) == cmd_incrby_generic(argv, -1)

cmd_dbsize(argv) ==
  IF Len(argv) # 1 THEN Refuse(argv)
  ELSE Answer(argv, <<resp_reply_integer(store_size(s))>>) /\ NoCall

cmd_flushdb(argv) ==
  IF Len(argv) # 1 THEN Refuse(argv)
  ELSE /\ s' = store_flush(s).s
       /\ due' = [k \in Keys |-> {}]
       /\ Answer(argv, <<resp_reply_simple_string>>)
       /\ UNCHANGED <<now, lastsave>>

cmd_lastsave(argv) ==
  IF Len(argv) # 1 THEN Refuse(argv)
  ELSE Answer(argv, <<resp_reply_integer(lastsave)>>) /\ NoCall

\* A save that the server can begin ends well or not (persist_save for SAVE,
\* fork for BGSAVE); what it writes is modelled in Snapshot.
Saves(argv) ==
  /\ Answer(argv, <<resp_reply_simple_string>>)
  /\ lastsave' = now \div MsPerSec
  /\ UNCHANGED <<s, now, due>>

cmd_save(argv) ==
  IF Len(argv) # 1 \/ ~SavePath THEN Refuse(argv)
  ELSE Saves(argv) \/ Refuse(argv)

cmd_bgsave(argv) ==
  IF Len(argv) # 1 \/ ~SavePath THEN Refuse(argv)
  ELSE Saves(argv) \/ Refuse(argv)

\* Mutant: the header counts the keys that the store counts.
keys_collectAll(f) ==
  LET order == CHOOSE o \in Surjection(1 .. f.visits, {e.key : e \in f.res}) : TRUE
  IN  [count |-> store_size(s),
       items |-> [i \in 1 .. f.visits |-> resp_reply_bulk_string(order[i])]]

\* The callback of KEYS: one item for each visit, and their number.
keys_collect(f) ==
  LET order == CHOOSE o \in Surjection(1 .. f.visits, {e.key : e \in f.res}) : TRUE
  IN  [count |-> f.visits,
       items |-> [i \in 1 .. f.visits |-> resp_reply_bulk_string(order[i])]]

cmd_keys(argv) ==
  IF Len(argv) # 2 \/ (Len(argv) = 2 /\ argv[2] # "*") THEN Refuse(argv)
  ELSE LET ctx == keys_collect(store_foreach(s, now)) IN
       /\ Answer(argv, <<resp_reply_array_header(ctx.count)>> \o ctx.items)
       /\ NoCall
-----------------------------------------------------------------------------
\* The handlers with a loop: how each begins, and one round of it.
cmd_del(argv)    == IF Len(argv) < 2 THEN Refuse(argv) ELSE Begin(argv, <<>>, {})
cmd_exists(argv) == IF Len(argv) < 2 THEN Refuse(argv) ELSE Begin(argv, <<>>, {})

cmd_mget(argv) ==
  IF Len(argv) < 2 THEN Refuse(argv)
  ELSE Begin(argv, <<resp_reply_array_header(Len(argv) - 1)>>, {})

cmd_mset(argv) ==
  IF Len(argv) < 3 \/ Len(argv) % 2 = 0 THEN Refuse(argv) ELSE Begin(argv, <<>>, {})

\* After a round: the loop goes on at argument i with count n and the reply
\* so far, or ends and the last items are written.
Round(i, n, items, last) ==
  IF i > Len(cmd.argv) THEN Answer(cmd.argv, items \o last)
  ELSE /\ Loop(cmd.argv, i, n, cmd.x, cmd.before)
       /\ out' = [out EXCEPT !.items = items]

\* Mutant: every key named is counted, whether the call found it or not.
CountedAlways(r) ==
  Round(cmd.i + 1, cmd.n + 1, out.items, <<resp_reply_integer(cmd.n + 1)>>)

Counted(r) ==
  LET n == cmd.n + r.res IN
  Round(cmd.i + 1, n, out.items, <<resp_reply_integer(n)>>)

DelRound ==
  LET r == store_del(s, cmd.argv[cmd.i])
  IN  Call(r, cmd.argv[cmd.i], {}) /\ Counted(r) /\ UNCHANGED now

ExistsRound ==
  LET k == cmd.argv[cmd.i]
      r == store_exists(s, k, now)
  IN  Call(r, k, due[k]) /\ Counted(r) /\ UNCHANGED now

MgetRound ==
  LET k == cmd.argv[cmd.i]
      r == store_get(s, k, now)
  IN  /\ Call(r, k, due[k])
      /\ Round(cmd.i + 1, 0, Append(out.items, Found(r.res)), <<>>)
      /\ UNCHANGED now

MsetRound ==
  LET k == cmd.argv[cmd.i]
      r == store_set(s, k, cmd.argv[cmd.i + 1], 0)
  IN  /\ Call(r, k, {})
      /\ Round(cmd.i + 2, 0, out.items, <<resp_reply_simple_string>>)
      /\ UNCHANGED now

\* The loop under way is that of the named command.
In(name) == cmd # Idle /\ arg_eq_ci(cmd.argv[1], name)

Continue ==
  \/ In("DEL") /\ DelRound
  \/ In("EXISTS") /\ ExistsRound
  \/ In("MGET") /\ MgetRound
  \/ In("MSET") /\ MsetRound
  \/ In("EXPIRE") /\ ExpireCall
-----------------------------------------------------------------------------
COMMAND_TABLE ==
  {"PING", "ECHO", "SET", "GET", "MGET", "MSET", "DEL", "EXISTS", "KEYS",
   "EXPIRE", "TTL", "PTTL", "INCR", "DECR", "INCRBY", "DECRBY", "DBSIZE",
   "FLUSHDB", "SAVE", "BGSAVE", "LASTSAVE"}

cmd_dispatch(argv) ==
  LET is(name) == argv # <<>> /\ arg_eq_ci(argv[1], name) IN
  /\ cmd = Idle
  /\ \/ argv = <<>> /\ Answer(argv, <<>>) /\ NoCall
     \/ argv # <<>> /\ Upper(argv[1]) \notin COMMAND_TABLE /\ Refuse(argv)
     \/ is("PING") /\ cmd_ping(argv)
     \/ is("ECHO") /\ cmd_echo(argv)
     \/ is("SET") /\ cmd_set(argv)
     \/ is("GET") /\ cmd_get(argv)
     \/ is("MGET") /\ cmd_mget(argv)
     \/ is("MSET") /\ cmd_mset(argv)
     \/ is("DEL") /\ cmd_del(argv)
     \/ is("EXISTS") /\ cmd_exists(argv)
     \/ is("KEYS") /\ cmd_keys(argv)
     \/ is("EXPIRE") /\ cmd_expire(argv)
     \/ is("TTL") /\ cmd_ttl(argv)
     \/ is("PTTL") /\ cmd_pttl(argv)
     \/ is("INCR") /\ cmd_incr(argv)
     \/ is("DECR") /\ cmd_decr(argv)
     \/ is("INCRBY") /\ cmd_incrby(argv)
     \/ is("DECRBY") /\ cmd_decrby(argv)
     \/ is("DBSIZE") /\ cmd_dbsize(argv)
     \/ is("FLUSHDB") /\ cmd_flushdb(argv)
     \/ is("SAVE") /\ cmd_save(argv)
     \/ is("BGSAVE") /\ cmd_bgsave(argv)
     \/ is("LASTSAVE") /\ cmd_lastsave(argv)

Tick == now' \in Times \ {now} /\ UNCHANGED <<s, cmd, out, lastsave, due>>

Init ==
  /\ s = store_create
  /\ now \in Times
  /\ cmd = Idle
  /\ out = [argv |-> <<>>, items |-> <<>>]
  /\ lastsave = 0
  /\ due = [k \in Keys |-> {}]

Next == Tick \/ Continue \/ \E argv \in Commands : cmd_dispatch(argv)

Spec == Init /\ [][Next]_vars
-----------------------------------------------------------------------------
Held(entries, k) == {e \in entries : e.key = k}

\* The items are one RESP value: an array with its elements, or one item.
OneValue(items) ==
  IF items[1].type = "array"
  THEN /\ Len(items) = 1 + items[1].n
       /\ \A i \in 2 .. Len(items) : items[i].type \in {"bulk", "null"}
  ELSE Len(items) = 1

(* Every command but the blank line is answered, and with one RESP value:  *)
(* an array is followed by exactly as many items as its header counts,     *)
(* though keys expire while MGET and KEYS run ("one reply in, one reply    *)
(* out, never silence", cmd.h:19).                                         *)
OneReply ==
  [][cmd' = Idle => IF out'.argv = <<>> THEN out'.items = <<>>
                    ELSE out'.items # <<>> /\ OneValue(out'.items)]_vars

(* A command that is answered with an error has changed nothing a client   *)
(* can see, however many store calls it made: only entries that had        *)
(* expired are gone.                                                       *)
ErrorsChangeNothing ==
  [][LET before == IF cmd = Idle THEN Contents(s) ELSE cmd.before IN
     out' # out /\ resp_reply_error \in Range(out'.items) =>
       /\ Contents(s') \subseteq before
       /\ \A e \in before \ Contents(s') : Expired(e, now)]_vars

(* The deadline of every key held is the one its last SET or EXPIRE asked  *)
(* for, in exact arithmetic: increments keep it, SET and MSET without an   *)
(* expiry clear it, and a key created anew has none.                       *)
DeadlineKept ==
  \A e \in Contents(s) : due[e.key] = {e.expire_at_ms} \ {0}

\* What is held of the keys named in arguments 2 to the last of argv.
Named(argv, entries) == {e \in entries : e.key \in Range(Tail(argv))}

(* What the commands that loop over keys have done at their end, where E   *)
(* was held when they began and C is now.  DEL counts each key it removes  *)
(* once, and leaves none.                                                  *)
DelExact(argv, items, E, C) ==
  items[1].n = Cardinality(Named(argv, E)) /\ C = E \ Named(argv, E)

\* EXISTS counts a key as often as it is named, and misses none without expiry.
ExistsExact(argv, items, E) ==
  LET held == Named(argv, E)
      times(entries) == Cardinality({i \in 2 .. Len(argv) :
                                       Held(entries, argv[i]) # {}})
  IN  items[1].n \in times({e \in held : e.expire_at_ms = 0}) .. times(held)

\* MGET answers each key in its place, with the value that the store held.
Fetched(item, E, k) ==
  \/ item \in {resp_reply_bulk_string(e.val) : e \in Held(E, k)}
  \/ item = resp_reply_null_bulk /\ \A e \in Held(E, k) : e.expire_at_ms # 0

MgetExact(argv, items, E) ==
  \A i \in 2 .. Len(argv) : Fetched(items[i], Named(argv, E), argv[i])

\* MSET leaves the last value given for each key, without expiry, and no
\* other key touched.
MsetExact(argv, E, C) ==
  LET keys == {argv[2 * i] : i \in 1 .. Len(argv) \div 2}
      final(k) == argv[1 + Max({j \in 2 .. Len(argv) :
                                  j % 2 = 0 /\ argv[j] = k})]
  IN  C = {e \in E : e.key \notin keys} \cup {NewEntry(k, final(k), 0) : k \in keys}

LoopStep ==
  cmd # Idle /\ cmd' = Idle =>
    /\ In("DEL") => DelExact(cmd.argv, out'.items, cmd.before, Contents(s'))
    /\ In("EXISTS") => ExistsExact(cmd.argv, out'.items, cmd.before)
    /\ In("MGET") => MgetExact(cmd.argv, out'.items, cmd.before)
    /\ In("MSET") => MsetExact(cmd.argv, cmd.before, Contents(s'))

(* The commands that loop over keys answer and change the store exactly as *)
(* above, whatever the clock does between two rounds and however often a   *)
(* key is named.                                                           *)
MultiKeyExact == [][LoopStep]_vars

\* What a well-formed increment asks to be added, as a set of at most one:
\* DECRBY has no answer but an error to INT64_MIN.
Addend(argv) ==
  LET is(name, n) == Len(argv) = n /\ arg_eq_ci(argv[1], name)
      delta == IF Len(argv) = 3 THEN parse_strict_ll(argv[3]) ELSE {}
  IN  CASE is("INCR", 2)   -> {1}
        [] is("DECR", 2)   -> {-1}
        [] is("INCRBY", 3) -> delta
        [] is("DECRBY", 3) -> {-d : d \in delta \ {INT64_MIN}}
        [] OTHER           -> {}

\* The answer to argv, which adds d, and the key's entry after it.
IncrStep(argv, d) ==
  LET k    == argv[2]
      live == {e \in Held(Contents(s), k) : ~Expired(e, now)}
      old  == IF live = {} THEN {0} ELSE UNION {parse_strict_ll(e.val) : e \in live}
      kept == IF live = {} THEN {0} ELSE {e.expire_at_ms : e \in live}
      sums == {n + d : n \in old} \cap Int64
  IN  /\ sums = {} => out'.items = <<resp_reply_error>>
      /\ \A n \in sums :
           /\ out'.items = <<resp_reply_integer(n)>>
           /\ Held(Contents(s'), k) = {NewEntry(k, FormatLL[n], x) : x \in kept}

(* INCR, DECR, INCRBY and DECRBY answer with the exact sum and store it,   *)
(* with the key's deadline kept, whenever an int64 holds it, the two ends  *)
(* of the range included; for any other sum, and for a value that is not a *)
(* number, the answer is an error.  A key that is absent or has expired    *)
(* counts as 0 and is created without a deadline.                          *)
IncrExact ==
  [][LET argv == out'.argv IN
     argv \in Commands =>
       \A d \in Addend(argv) : cmd_dispatch(argv) => IncrStep(argv, d)]_vars
=============================================================================
