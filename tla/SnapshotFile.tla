---------------------------- MODULE SnapshotFile ----------------------------
(***************************************************************************)
(* The bytes of a snapshot: what persist_save of src/persist.c writes for  *)
(* the entries of a store, and what persist_load makes of a file, whole or *)
(* damaged, when a server starts.  How a save reaches the disk step by     *)
(* step is Snapshot's subject; here it has succeeded.  Keys and values are *)
(* byte strings and the store is the dictionary KVStore says it is.        *)
(***************************************************************************)
EXTENDS Integers, SequencesExt

CONSTANTS
  Base,       \* values of a byte: 256
  U64,        \* bytes of a count, a length or a time: 8
  U32,        \* bytes of the checksum: 4
  MAGIC,      \* the bytes a snapshot begins with
  NoFile,     \* there is no snapshot
  Keys,       \* the keys, values and deadlines clients set
  Values,
  Expiries,
  Times       \* the readings of the clock

Bytes == 0 .. Base - 1

ASSUME WidthAssumption == Base \in Nat \ {0, 1} /\ U64 \in Nat \ {0} /\ U32 \in Nat \ {0}
ASSUME BytesAssumption == {MAGIC} \cup Keys \cup Values \subseteq Seq(Bytes)

VARIABLES
  up,        \* the server is running
  entries,   \* what its store holds
  now,       \* what the clock reads
  file,      \* the bytes of the snapshot, or NoFile
  harm,      \* what has happened to it since: "none", "altered" or "cut"
  saved,     \* the entries it was made of
  status     \* what the last persist_load returned

vars == <<up, entries, now, file, harm, saved, status>>

Expired(e, at) == e.expire_at_ms # 0 /\ e.expire_at_ms <= at

\* The store's promise: one entry a key.
store_set(held, k, v, x) ==
  {e \in held : e.key # k} \cup {[key |-> k, val |-> v, expire_at_ms |-> x]}
-----------------------------------------------------------------------------
\* A number in w bytes, the lowest first, and the number such bytes write.
Little(v, w) == [i \in 1 .. w |-> (v \div Base^(i - 1)) % Base]
Number(b)    == FoldRight(LAMBDA d, v : v * Base + d, b, 0)

write_u64(v) == Little(v % Base^U64, U64)
write_u32(v) == Little(v % Base^U32, U32)
read_u64(b)  == Number(b)
read_u32(b)  == Number(b)

\* The conversion of a uint64_t to int64_t.
Signed(v) == IF 2 * v < Base^U64 THEN v ELSE v - Base^U64

\* Mutant: the sum of every other byte.
checksumSkipping(b) ==
  FoldLeft(+, 0, [i \in DOMAIN b |-> b[i] * (i % 2)]) % Base^U32

checksum(b) == FoldLeft(+, 0, b) % Base^U32

save_cb(e) ==
  write_u64(Len(e.key)) \o e.key \o write_u64(Len(e.val)) \o e.val
    \o write_u64(e.expire_at_ms)

\* The file for the entries that store_foreach visits, in the order it does.
persist_save(visits) ==
  LET body == MAGIC \o write_u64(Len(visits))
                \o FlattenSeq([i \in DOMAIN visits |-> save_cb(visits[i])])
  IN  body \o write_u32(checksum(body))

\* Mutant: an entry's deadline is not looked at.
load_entryUnfiltered(held, k, v, x, at) == store_set(held, k, v, x)

\* What an entry read from the file does to the store.
load_entry(held, k, v, x, at) ==
  IF x # 0 /\ x <= at THEN held ELSE store_set(held, k, v, x)

\* One round of persist_load's loop.  Each part of an entry must end before
\* the checksum does; what was stored before one does not is kept.
LoadRound(b, at, p) ==
  LET limit  == Len(b) - U32
      keyAt  == p.pos + U64
      keyEnd == keyAt + read_u64(SubSeq(b, p.pos + 1, keyAt))
      valAt  == keyEnd + U64
      valEnd == valAt + read_u64(SubSeq(b, keyEnd + 1, valAt))
      end    == valEnd + U64
  IN  IF \/ keyAt > limit \/ keyEnd > limit
         \/ valAt > limit \/ valEnd > limit \/ end > limit
      THEN [p EXCEPT !.status = "corrupt"]
      ELSE [status |-> "ok", pos |-> end,
            entries |-> load_entry(p.entries,
                          SubSeq(b, keyAt + 1, keyEnd),
                          SubSeq(b, valAt + 1, valEnd),
                          Signed(read_u64(SubSeq(b, valEnd + 1, end))), at)]

\* A load into an empty store that ends with nothing stored.
Nothing(st) == [status |-> st, pos |-> 0, entries |-> {}]

persist_load(b, at) ==
  LET limit == Len(b) - U32
      start == Len(MAGIC) + U64
      count == read_u64(SubSeq(b, Len(MAGIC) + 1, start))
      upto[i \in Nat] ==
        IF i = 0 THEN [Nothing("ok") EXCEPT !.pos = start]
        ELSE LET p == upto[i - 1]
             IN  IF p.status = "ok" THEN LoadRound(b, at, p) ELSE p
  IN  IF b = NoFile THEN Nothing("io")
      ELSE IF Len(b) < start + U32 \/ ~IsPrefix(MAGIC, b) THEN Nothing("format")
      ELSE IF read_u32(SubSeq(b, limit + 1, Len(b))) # checksum(SubSeq(b, 1, limit))
      THEN Nothing("corrupt")
      ELSE upto[count]
-----------------------------------------------------------------------------
Init ==
  /\ up = FALSE /\ entries = {} /\ now \in Times
  /\ file = NoFile /\ harm = "none" /\ saved = {} /\ status = "none"

\* The server starts: it loads the snapshot and, whatever that returned, goes
\* on with what is in the store.
Boot ==
  /\ ~up
  /\ up' = TRUE
  /\ LET r == persist_load(file, now)
     IN  status' = r.status /\ entries' = r.entries
  /\ UNCHANGED <<now, file, harm, saved>>

Set(k, v, x) ==
  /\ up
  /\ entries' = store_set(entries, k, v, x)
  /\ UNCHANGED <<up, now, file, harm, saved, status>>

\* The server saves its live entries, in some order, and stops.
SaveAndStop ==
  /\ up
  /\ up' = FALSE
  /\ saved' = {e \in entries : ~Expired(e, now)}
  /\ \E visits \in SetToSeqs(saved') : file' = persist_save(visits)
  /\ harm' = "none" /\ entries' = {}
  /\ UNCHANGED <<now, status>>

\* While the server is down one byte of the file changes,
Alter ==
  /\ ~up /\ file # NoFile /\ harm = "none"
  /\ \E i \in DOMAIN file : \E b \in Bytes \ {file[i]} :
       file' = [file EXCEPT ![i] = b]
  /\ harm' = "altered"
  /\ UNCHANGED <<up, entries, now, saved, status>>

\* or its end is lost.
Cut ==
  /\ ~up /\ file # NoFile /\ harm = "none"
  /\ \E n \in 0 .. Len(file) - 1 : file' = SubSeq(file, 1, n)
  /\ harm' = "cut"
  /\ UNCHANGED <<up, entries, now, saved, status>>

Tick == now' \in Times \ {now} /\ UNCHANGED <<up, entries, file, harm, saved, status>>

Next ==
  \/ Boot \/ SaveAndStop \/ Alter \/ Cut \/ Tick
  \/ \E k \in Keys, v \in Values, x \in Expiries : Set(k, v, x)

Spec == Init /\ [][Next]_vars
-----------------------------------------------------------------------------
(* A snapshot that nothing has happened to gives back, at the next start,  *)
(* the entries it was made of: every key, value and deadline, in whatever  *)
(* order they were written, but for those that expired in between          *)
(* (persist_save, save_cb and persist_load; persist.h:25).                 *)
RoundTrip ==
  [][Boot /\ harm = "none" /\ file # NoFile =>
       status' = "ok" /\ entries' = {e \in saved : ~Expired(e, now)}]_vars

(* A snapshot of which one byte has changed, or the end is missing, is     *)
(* never taken for a good one; after a change nothing of it is loaded, and *)
(* a cut whose sum happens to match leaves only entries that were saved    *)
(* (the size, magic, checksum and bound tests of persist_load).            *)
DamageDetected ==
  [][Boot /\ harm # "none" =>
       /\ status' # "ok"
       /\ harm = "altered" => entries' = {}
       /\ entries' \subseteq saved]_vars
=============================================================================
