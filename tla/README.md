# Verification of redis-server-c

TLA+ specifications of the key-value store, its snapshots, its protocol, its
commands and its two servers, with TLC models that check them on small instances
and TLAPS proofs of the main results for every value of the constants. Paths
below are relative to the repository (`src/store.c`, `include/store.h`, ...);
`PROJECT.json` maps each definition to the lines it models.

## The system and its parts

| Part | Source | State | Concurrency | Modelled by |
|---|---|---|---|---|
| Store | `store.c` | two chained hash tables, their `used` counters, the cursor of an incremental rehash; the real-time clock | none of its own: callers take turns | `Store` (and `KVStore`, its contract) |
| Snapshots | `persist.c` | the files `<path>` and `<path>.tmp` | the server and forked children save at the same time | `Snapshot` (steps), `SnapshotFile` (bytes) |
| Commands | `cmd.c` | save path, `g_lastsave_time` | one at a time; the clock moves meanwhile | `Cmd`; `Snapshot` for what SAVE and BGSAVE write |
| RESP | `resp.c` | none (parsing and formatting); the servers keep the unparsed bytes | none | `Resp` |
| Epoll server | `server.c` | `g_conns`, per-connection buffers, shutdown flag | one thread against clients, kernel and signals | `EventLoop`, `Snapshot` |
| Thread-pool server | `server_threaded.c` | ring of descriptors, two condition variables, two mutexes, shutdown flag | main thread and N workers | `ThreadPool`, `Snapshot` |
| Tests | `tests/` | | | not modelled |

A server reads bytes, has `resp_parse` cut them into commands, and hands each
command to `cmd_dispatch`, which calls the store. At start it loads a snapshot;
on SAVE, BGSAVE and shutdown it writes one. What makes the parts hard to test:
calls interleave with a half-finished rehash and with expiry; a process may die
between any two system calls of a save, and saves may overlap; a file may be
damaged; commands arrive cut at any byte; threads race on the queue and its
wakeups; descriptors are closed and reused while a batch of epoll events is
being handled. `PROJECT.json` lists these hazards one by one, each at the line
where it bites and with the properties that cover it.

## Modules

| Module | What it is |
|---|---|
| `StoreData` | keys, values, numbers and clock readings shared by `Store` and `KVStore` |
| `StoreTables` | the functions of `store.c` as operators on a store value |
| `Store` | the state machine: one action per public call, and the clock |
| `KVStore` | the abstract specification: a plain dictionary with lazy expiry |
| `StoreValueProofs`, `StoreProofs` | lemmas on a table and on a store; lemmas on the calls, and the theorems |
| `Snapshot`, `SnapshotProofs` | saves, crashes and restarts; its theorems |
| `SnapshotFile` | the bytes of a snapshot, and loading it whole or damaged |
| `Resp` | the request parser and the loop that calls it after every read |
| `RespLemmas`, `RespProofs` | lemmas on its parser, loop and writers; its invariant and the theorems |
| `Cmd`, `CmdProofs` | `cmd_dispatch` and every handler, over `StoreTables`; its theorems |
| `ThreadPool`, `ThreadPoolProofs` | `server_threaded.c`; its theorems |
| `EventLoop`, `EventLoopProofs` | `server.c`; its theorems |
| `SetFacts` | the facts about finite sets that the proofs above take as hypotheses until their last step |
| `MC*` | constants for TLC |

An operator described as a *mutant* in a comment is a faulty variant of the
definition after it. It is not used by any specification; `PROJECT.json` pairs
it with a property that TLC finds violated when it takes that definition's
place, which shows that the property depends on that code.

### Store

`s` is `struct store`: `ht[0]`, `ht[1]` and `rehash_idx`. A table has
`buckets`, `size` and `used`; `mask` is `size - 1` and `h & mask` is
`Hash[k] % size`. `used` is the counter that the code increments and decrements,
not a count of the model's entries, so that a wrong count would show. A chain is
a set: the code searches it for one key, or moves all of it, and neither depends
on its order while no key is in it twice (`OneEntryPerKey`).

Every call is one action, for its callers take turns. `rehash_step`, the lookup
with its lazy deletion, the change and a growth are all part of it, in the
code's order; `store_incrby` on a missing key contains the nested `store_set`
and its second rehash step. `now` is `CLOCK_REALTIME`, which may step either way
between calls and, as `store_ttl_ms` reads it twice, once inside that call. `ret`
records what the last call returned. A byte string is a member of a small set;
`ParseLL` and `FormatLL` are what `parse_strict_ll` and `"%lld"` do with it, and
several strings may read as the same number. `int64_t` is
`INT64_MIN .. INT64_MAX`.

`KVStore` has the same calls on a set of entries. `RefinesKVStore` states that
`Store`, with `entries <- Contents(s)`, implements it: each call returns and
leaves behind what the dictionary would, at any point of a rehash.

### Snapshot

Contents of a store are a version number. `job[p]` is the `persist_save` that
process `p` (the server, or a child of BGSAVE) is in: opening, writing one of
`Chunks` pieces, renaming, removing. Files are inodes, so that a file renamed
while another process has it open behaves as in POSIX, and each process writes
at its own offset. Every step may fail, and a process may die between any two.
`persist_load` accepts a file whose pieces are all of one version, and loads
nothing otherwise: this stands for its length, magic and checksum tests, which
`SnapshotFile` has.
A crash here is the death of a process: what it has written stays. The code
makes no `fsync`, and a loss of power is not modelled.

Nothing in the code keeps saves apart, and nothing here does: SAVE, BGSAVE and
the shutdown begin a save whatever others are going on, all of them on the one
`<path>.tmp`, and a server is started (on another port, if need be) while
children of the one before still save. Six history variables, which no step reads
but in its last conjunct (`Asked`, `Opens`, `Ended`, `Succeeded`, `Restarted`),
say what became of the saves:

* `good` is the version of the last one that succeeded, and `clean` that no other
  save was using `<path>.tmp` between its `fopen` and its `rename` (`met` has the
  saves for which one was);
* `late` has the saves that another has overtaken since they were asked for, and
  those asked of a server that is no `heir`: one that the last good save is not
  part of the past of, because a child of its predecessor (`orphans`) saved after
  it had loaded, or because what it loaded was spoilt.

`CleanIntact`, `OlderOnlyIfLate` and `RestartKeepsSaved` are what the code keeps
of its promises under all this. What it does not keep is in *Findings*.

### SnapshotFile

A byte is a number below `Base` and a file a sequence of them. `persist_save`
writes the magic, the count, each entry with its two lengths and its deadline,
and the sum of it all, lowest byte first and modulo the width; `persist_load`
makes the tests of the code in its order, and on a bound that fails it keeps what
it has stored so far, as the code does. Here a save has succeeded; between a save
and the next start one byte may change or the end may be lost. The order in which
entries are written is any. `pos + len` is taken as exact, where the code computes
in 64 bits.

### Resp

Bytes are their codes. `parse_ll`, `find_crlf`, `parse_multibulk` and
`parse_inline` are functions of the bytes in the buffer, with the limits of
`resp.h` as constants. The client sends commands in either form, or junk, and the
server reads 1 to `READ_CHUNK` bytes at a time and runs the parse loop of
`conn_process_input` and `handle_conn`. The reply writers are modelled as far as
requests and error lines need them. The limit on unparsed input is in the two
server modules, not here. The code's loops are recursive functions of the round:
`Bulks` over the arguments of an array, `Rounds` over the commands in the buffer,
the one in `parse_ll` over digits. `received` is every byte read so far, which no
server keeps; the properties compare with it.

### Cmd

A command is its argument vector, a reply the sequence of items written for it.
Every handler of `COMMAND_TABLE` is an operator under `cmd_dispatch`, with its
arity test, its argument tests and its store calls in the code's order. DEL,
EXISTS, MGET and MSET make one store call a key and each call reads the clock, so
these take one step a key; EXPIRE takes one for computing the deadline and one for
the store call. `due` records the deadline that a client asked for in exact
arithmetic; `Wrap` is what `int64_t` makes of it. The code's overflow is undefined
behaviour in C; the Makefile builds with `-g` and no optimisation, where it wraps.

### ThreadPool

A stretch of code under `g_queue.mu` is one step, for nothing in it blocks but
`pthread_cond_wait`, which is a place of its own (`"empty"` for a worker,
`"full"` for the main thread). It is left when the condition is signalled, or
spuriously. `g_store_mu` is held over two steps, the reading and the writing of
the store, so that an update could be lost if it did not exclude. A command adds
one to `store`, which makes lost updates visible. Clients send units: the end of
a command, a part of one, or bad input. `Scripts` gives, for each connection, the
sequences of units its client may choose from when it connects.

### EventLoop

A step is one system call and the code up to the next. `sock` is the kernel's
and the client's side of each connection: unread input, a send buffer of
`SendBuf` units, and whether the client sends, has ended its side, has closed,
or has been reset. epoll is level-triggered: `Events` is recomputed from the
present state at each `epoll_wait`, in any order and at most `MAX_EVENTS` of
them. A batch entry also records which connection it was for; the code knows
only the descriptor, and no action reads that record. Units and `Scripts` are as
in `ThreadPool`. `signal()` is the BSD one here (`_GNU_SOURCE`), which restarts
`accept` and `read` but not `epoll_wait`.

## Runs

| Run | Instance | States | Checks |
|---|---|---|---|
| `store_tables` | 5 keys, initial size 2, visit limit 2, 2 times | 2,934 | type invariant, `Reachable`, `OneEntryPerKey`, `UsedExact`, `LoadFactor`, `RehashProgress`, `NoResurrection`, `RefinesKVStore` |
| `snapshot` | server and 1 child, 3 inodes, 2 pieces, 3 versions | 646,510 | type invariant, `CleanIntact`, `OlderOnlyIfLate`, `RestartKeepsSaved` |
| `snapshot_file` | 2 keys, 2 values, 3 deadlines, 3 times; 2-bit bytes, 2-byte numbers | 22,833 | `RoundTrip`, `DamageDetected` |
| `resp` | 2 requests in either form, or junk, read 1 to 3 bytes at a time | 107,550 | `Delivered`, `SplitIndependent`, `PrefixesIncomplete`, `OneLinePerCommand` |
| `cmd` | all commands, 2 colliding keys, 4-bit integers, 3 times | 67,875 | `DeadlineKept`, `OneReply`, `ErrorsChangeNothing`, `MultiKeyExact`, `IncrExact` |
| `pool` | 3 connections, each sends a command or bad input; 2 workers, queue of 2 | 701,452 | type invariant, `OneOwner`, `NoLostWakeup`, `NoLostUpdate`, `FinalSaveComplete` |
| `pool_live` | 2 connections, one sends commands, parts of them or bad input; 2 workers, queue of 1 | 112,152 | `NoCommandLeftBehind`, `ShutdownCompletes`, `AcceptedAreServed` |
| `loop` | 2 connections, 1 descriptor, 4 scripts, chunk 2, limit 2, send buffer 1 | 183,496 | type invariant, `OutputArmed`, `NoCommandLeftBehind`, `RepliesExact`, `TableExact`, `FreshEvents`, `Answered`, `SignalHeeded` |

Each passes. Four more runs (`snapshot_overlap`, `loop_half_close`,
`cmd_deadline`, `resp_limit`) show where the code and a comment, a test or a
document disagree; see *Findings*.

Why the bounds are enough. With five keys a table grows 2, 4, 8, inserts and
deletes fall on both sides of the cursor, one pair of keys collides in every
table and another only in small ones, and there are more empty buckets than one
step may pass. Two times and one expiry make every entry live, expired or
unlimited, with the clock stepping both ways. `store_tables` has one number,
so its `RefinesKVStore` says nothing of overflow; `IncrExact` of `cmd` has the
arithmetic at both ends of a 4-bit range, and the theorems `IncrementsExact` and
`Refinement` have it for every range. With one child two saves overlap, which is
what the properties are about; two pieces are the least that make a mixture; and
two processes need three inodes (`<path>`, one that the other process has open
and that has lost its name, a new file). The theorems are for any number of
children. Numbers of two 2-bit bytes make lengths, deadlines and sums carry from
one byte to the next, and a cut file's sum match by chance. The sign of a deadline
is not exercised: one before 1970 has expired, and `store_foreach` passes over it. The arguments in
`resp` are empty, a line end, and what looks like the header of another argument;
its reads are shorter than every command, so each is cut everywhere. In `cmd` each
handler meets arguments that each of its tests accepts and refuses, and keys
expire between two store calls of one command. Three connections make a ring of
two wrap around, fill up and block the main thread. Two connections on one
descriptor make one be closed and its descriptor reused within a batch, and accept
run out of descriptors; the scripts pipeline commands, split them, overfill the
input and break the protocol before and after a command. What the two servers'
runs leave open by their size, the theorems close for the safety properties.

A `VIEW` in the store, command, snapshot and file runs leaves out what no action
reads (the last result or reply, `g_lastsave_time`, a file that has been loaded or
has neither a name nor a process that has it open); the action properties see it
on every step. Symmetry is used for connections, workers and inodes, which the
specifications never order, and in no run with liveness. Deadlock is not checked
for the two servers and for `Resp`: the servers stop when they exit, the epoll
loop rests when clients do nothing, and the parser when all is read.

### Fairness

`ThreadPool` assumes that a thread that can run does, and that every client
hangs up in the end. The second is needed, and a limit of the design: a worker
serves one connection until its client leaves, so without it idle clients hold
up the queue and the shutdown for ever. That the writes of a reply return is
part of the first. No fairness is assumed of signals, failing accepts or
spurious wakeups. `ShutdownCompletes` begins where the accept loop has
ended: `signal()` restarts `accept`, so that a signal alone does not end it.

`EventLoop` assumes that the loop runs, that clients which have not closed
receive what they are sent, and that the reset of a connection its client has
closed arrives in the end; without the latter two a closed or idle client
keeps its replies queued for ever, as it does in the code. A signal that
comes between the test of the flag and `epoll_wait` does not end the wait: only
the next event, or a second signal, makes the loop notice it. `SignalHeeded` says
so: it asks for an event in this case and in no other.

## Findings

* Saves that overlap share `<path>.tmp` (`src/persist.c:121`). A SAVE, another
  BGSAVE or the shutdown while a child is writing can leave a mixture at
  `<path>`, against `include/persist.h:21` and "never a partial file" in
  `README.md:162`. Run `snapshot_overlap`.
* On end of input the epoll server closes at once (`src/server.c:230`, "any
  unflushed output is moot"). A client that has ended only its sending side
  still receives: it loses replies that are queued, and commands that came in
  full chunks just before the end are not run. Run `loop_half_close`.
* `SET key value EX n` multiplies by 1000 and adds the clock in `int64_t` without
  a range test (`src/cmd.c:134`): a large `n` is answered OK and leaves a deadline
  that has wrapped around, while `tests/test_cmd.c:137` expects PTTL to reflect
  what was set. Run `cmd_deadline`.
* The limit on a line is tested only while its end has not been read
  (`src/resp.c:159`), so a line beyond it is a command when read at once and an
  error when a prefix is read first; `README.md:127` promises INCOMPLETE for every
  prefix of a valid command. Run `resp_limit`.

Also met, and without a run of its own:

* A BGSAVE child that is overtaken puts older data back. It has forked; the
  store changes; SAVE, or the save of the shutdown, succeeds; then the child opens
  `<path>.tmp`, writes and renames (`src/cmd.c:320`). `<path>` is whole, and the
  changes that SAVE answered OK for are lost at the next start. No document
  promises otherwise. `OlderOnlyIfLate` shows that only saves that are late in
  this sense do so; without its `p \notin late` TLC finds it violated.
* A signal in the window before `epoll_wait` (`src/server.c:356`) leaves the epoll
  server waiting, see *Fairness*.
* `store_size` (`src/store.c:229`) also counts entries that have expired and that
  no lookup has met; `include/store.h:45` calls it the "total number of live keys".
* BGSAVE sets `g_lastsave_time` when it has forked (`src/cmd.c:326`), also if the
  child then fails. `src/cmd.c:21` says "last successful save", while
  `src/cmd.c:318` says "when the save was *requested*".
* Nothing waits for the children of BGSAVE, and neither server sets SIGCHLD to
  be ignored, as the comment at `src/cmd.c:309` expects.

## Proofs

tlapm checks every proof to its last leaf. No theorem bounds a constant: keys,
hash function, values, clock readings, initial size (a power of two) and visit
limit of the store; children, inodes, pieces and versions of the snapshots;
connections, workers, capacity of the queue, descriptors, sizes of buffers and
chunks, and what clients send, are arbitrary within the named `ASSUME`s, which TLC
evaluates on its instances.

**Store** (`StoreProofs`). The inductive invariant behind `Invariance` is the
conjunction of type correctness, `Reachable`, `OneEntryPerKey`, `UsedExact` and
`LoadFactor`, with finiteness of the tables and sizes that are powers of two.
None of them is inductive alone. A lookup finds a key only because entries are
in their buckets and none is behind the cursor (`Reachable`); an insert keeps
keys unique only because the lookup before it was right; `used` counts a
migrated chain correctly only because no entry of it is in the other table; and
the cursor is worth a bucket per insert (`LoadFactor`) only because each call
begins with a rehash step. `StoreValueProofs` has what each operation does to a
table, and what a rehash step, an insert, a removal and a rewrite do to a store;
`StoreProofs` has one lemma per call and one step per action. From the invariant:

* `TypeCorrect`, `EntriesReachable`, `KeysUnique`, `CountersExact`,
  `GrowthKeepsUp`: the invariants that `store_tables` checks;
* `RehashesMoveOn` and `GoneStaysGone`: its two action properties;
* `Refinement`: `Store` implements `KVStore`. The lemma of each call says what it
  returns and leaves behind in terms of `Contents(s)` and the clock alone.

**Snapshot** (`SnapshotProofs`). The theorems are for saves that overlap in any
way. `IInv`, behind `Invariance`, strengthens `CleanIntact` with:

* `Owned`: a save that has met no other has `<path>.tmp` to itself, its descriptor
  is the file of that name, and that file holds as many pieces of its version as
  it has written, all of them when it is about to rename. While the snapshot is
  clean nobody has the file at `<path>` open for writing. Without the last
  conjunct a process whose file was renamed under it could go on writing in it.
* `Ordered`: no version anywhere is newer than `latest`; an heir has nothing older
  than `good` in memory, nor has a save that is not late; and no save asked of the
  running server is ahead of it. The heir is needed because a save takes its
  image from memory, and memory from `<path>` at the last start.

From it: `SavesAtomic` (`CleanIntact`), `OnlyLateGoBack` (`OlderOnlyIfLate`) and
`RestartsKeepSaves` (`RestartKeepsSaved`), besides `TypeCorrect`. `clean` and `late`
cannot be dropped from them: the run `snapshot_overlap` and the first item under
*Also met* are the counterexamples.

**Cmd** (`CmdProofs`). It rests on the lemmas of `StoreValueProofs` and is for
argument vectors of any length and any 64-bit-like range (`RangeAssumption`: two's
complement). `Inv` is the conjunction of:

* `Base`: the store satisfies the store's invariant, and `expire_at_ms` of every
  entry is what `int64_t` makes of the deadline promised for its key (`ExpireAt`).
* A command at its end has been answered with one value. It is needed because an
  action property looks at `out` also on steps that leave it alone.
* `Looping`: of a loop over keys that has come to argument `i`, what it has done of
  arguments 2 to `i - 1`, as a relation between the entries held when it began
  (`cmd.before`), those held now, the replies written and the count. `DelSoFar` says
  that exactly the entries reached are gone and counted; `ExistsSoFar` bounds the
  count between the hits without expiry and all hits, for an entry may expire on
  the way; `MgetSoFar` says which item stands in each place; `MsetSoFar` that the
  keys met hold the value met last.

The final properties are `Looping` at `i = Len(argv) + 1`, which is why they need
this strengthening: none of them can be told from one round. Nothing is proved by
induction over `argv`; the state machine's own steps are the induction. From it:

* `RepliesWhole`, `ErrorsAreHarmless`, `LoopsExact`: the action properties on replies,
  errors and loops;
* `IncrementsExact`: `IncrExact`, from the store's invariant and `IncrLaw`, the law
  of `store_incrby`. It needs `OverflowExact`, that the test made before the
  addition refuses exactly the sums out of range, and that a key has one live
  entry at most, so one number to add to;
* `DeadlinesKept`: `DeadlineKept` holds in every state in which the deadlines asked
  for are `Representable`, that is in the range of `int64_t` and not 0, the code's
  mark for none. The hypothesis cannot be dropped: `cmd_deadline` is the
  counterexample.

**Resp** (`RespProofs`, over the lemmas of `RespLemmas`). It is for any limits, any requests and junk, any number of
them, and reads of any size. Two invariants are needed, and neither looks inside
the parser:

* `Cut`: `SplitIndependent`, with the bytes read and on the wire being bytes. It
  holds by `CutAnywhere`: parsing `b`, and then what is left of it with `x` after
  it, comes to the same as parsing `b \o x`. That rests on `ParseIs`: a parse that
  ends in a command or an error ends in the same one when more bytes follow, and
  takes at least a byte.
* `Sent`: every request sent has its place in the bytes read and still to be read,
  and before junk is sent nothing else has. `Delivered` needs it: `SplitIndependent`
  gives what one parse of all bytes makes of them, and `TakenUpTo` shows, request
  by request, that it takes the requests that lie in them whole.

From them:

* `CutsDoNotMatter`: `SplitIndependent`, without any hypothesis;
* `RequestsDelivered`: `Delivered`, for requests that satisfy `RequestsFit`;
* `CommandsReadBack`: the parser against the writers. Any argument vector within the
  limits, written as an array of bulk strings, is parsed to itself and to its last
  byte, whatever bytes it holds. `DecimalReads` shows that `parse_ll` takes back the
  digits that `Decimal` writes, `HeaderRead` that the first CR LF after a mark ends
  its header, `BulkRead` that an argument ends where its length says, and
  `ArrayRounds` goes from argument to argument. The hypothesis `HeadersFit` is
  arithmetic on the limits: the largest count and length have digits that fit in a
  line, as 1024 * 1024 and 512 * 1024 * 1024 do in 65536 bytes;
* `ArraysDelivered`: so `Delivered` holds for clients that send such arrays, with
  nothing assumed of the parser. For words on a line `RequestsFit` stays a
  hypothesis; it holds of all requests of the run `resp`, and `HeadersFit` of its
  limits;
* `PrefixesWait`: `PrefixesIncomplete` in every state in which the command at the
  front has `ShortLines`. Neither of these two hypotheses can be dropped:
  `resp_limit` is the counterexample. What remains without them is
  `NeverAShorterCommand`: no proper prefix of a command is taken for a command;
* `OneLineEach`: `OneLinePerCommand`, by counting the line ends of each reply.

These are statements about what loops over byte strings compute, for strings of any
length. The library's induction theorems cannot be used for them (they take an
operator). `Induct` takes a set in its place and follows from the least element of
a set of naturals; the existence of a recursive function, without which nothing
can be said of it, is `RoundsExist`, by the same induction over its first `n` rounds.

**ThreadPool** (`ThreadPoolProofs`). `Inv` says of every thread where it is and
what it then has:

* `FdsInPlace`: who has a descriptor, and that `tail` is `head + count` around the
  ring. A push writes the slot after the queued ones only because of it.
* `Owned`: `OneOwner` without counting. It needs `Waiting` (the backlog holds each
  connection once and unaccepted), or an accept could hand out an fd twice.
* `Exclusive`: the worker in `cmd_dispatch` holds `g_store_mu` and what it has
  read is still what the store holds; without it an update could be lost.
* `Phase`: how far a shutdown has come. Workers leave only with the queue shut
  and empty, so at the save no fd is queued or served and nobody writes the store.
* `NoLostWakeup`, which is inductive given `FdsInPlace` and `Phase`: each push
  wakes one sleeper if there is one, so the workers on their way to the queue are
  at least as many as the fds in it while another sleeps.
* `Paid`: a client is owed a reply only while a worker writes it.

From it: `TypeCorrect`, `OwnersUnique`, `WakeupsKept`, `UpdatesKept`, `FinalSave`
and `NothingLeftBehind`, the safety properties of `pool` and `pool_live`.

**EventLoop** (`EventLoopProofs`). `Inv` is the conjunction of:

* `Handling`: a handler is at work on an fd that has a connection and no further
  event in the batch; the batch holds no fd twice, and every event is still of
  the connection that has the fd. The last is `FreshEvents`. It survives the
  closing of a connection only because its fd has no other event left, and an
  accept only because the new fd was free, so that no event is for it.
* `Table`: `TableExact` without counting.
* `Backlogged`: what waits for `accept4` is unaccepted, there once, and has had
  nothing done for it, so that a new `conn_t` starts with an even account.
* `Served`: of every `conn_t`, that what was done is what was written and what is
  queued unsent; that no whole command is in its input, except while it is being
  read; and that EPOLLOUT is armed exactly while output is left, except while its
  handler runs. `ProcessIs` is the lemma on `conn_process_input`: it leaves no
  whole command, and queues as many replies as it does commands, whatever is in
  the buffer and however much of the output is already sent.

A step of a handler touches one entry of `g_conns` and one connection; `ServeStep`
and `CloseStep` say once what that asks of the entry, and each action is shown to
meet it. From the invariant: `TypeCorrect`, `OutputIsArmed`, `NothingLeftBehind`,
`RepliesAreExact`, `TableIsExact` and `EventsAreFresh`, all invariants of `loop`.

`SetFacts` names the facts about finite sets and cardinality that the lemmas above
take as a hypothesis (`StoreFacts` and its like); the last section of each proof
module derives them from the library, so that the theorems have no such hypothesis.

Only model-checked: the liveness properties (`ShutdownCompletes`,
`AcceptedAreServed`, `Answered`, `SignalHeeded`), for fairness and `ENABLED` are
outside what tlapm supports; and `SnapshotFile`, whose properties are about sums
and digits of whole files.

## Not modelled

* Memory: allocation failure, growth of buffers, `store_destroy`.
* `epoll_ctl` failing to change what a connection waits for: `conn_arm_write_interest`
  (`src/server.c:193`) then has `want_write` set and EPOLLOUT not armed, and the
  rest of the output waits for the client's next bytes. `Armed` takes the call to
  succeed; of `epoll_ctl` only the addition of a new connection may fail.
* Set-up of sockets, command-line parsing, log output, the wording of replies.
* Loss of power (the code makes no `fsync`), and zombie children of BGSAVE.
* A snapshot with two damaged bytes, whose sums may cancel: the checksum does not
  promise to notice them.
* Commands of several workers over one `Store` in full. `ThreadPool` has a
  command read and write the store under `g_store_mu` and shows that no two
  overlap (`NoLostUpdate`), so that the calls take turns as `Store` and `Cmd`
  assume; the product of the two state spaces would add nothing but size.
* The unit tests, which were read for what the code is expected to do.
