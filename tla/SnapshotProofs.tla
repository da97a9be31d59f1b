--------------------------- MODULE SnapshotProofs ---------------------------
(***************************************************************************)
(* Theorems about Snapshot, for every number of children, files, pieces    *)
(* and versions, and for saves that overlap in any way.                    *)
(***************************************************************************)
EXTENDS Snapshot, TLAPS

Places == {"idle", "open", "write", "rename", "remove"}
Jobs   == [at : Places, image : Versions, fd : Inodes \cup {NoFile},
           off : 0 .. Chunks - 1]
Pieces == Versions \cup {Hole}

(* Types, with the one fact they need: a process that writes has a file    *)
(* open.                                                                   *)
Typed ==
  /\ mode \in {"up", "stopping", "down"}
  /\ data \in Versions /\ latest \in Versions /\ lastsave \in Versions
  /\ good \in Versions /\ clean \in BOOLEAN /\ heir \in BOOLEAN
  /\ met \subseteq Procs /\ late \subseteq Procs /\ orphans \subseteq Procs
  /\ job \in [Procs -> Jobs]
  /\ disk \in [Inodes -> Seq(Pieces)]
  /\ path \in Inodes \cup {NoFile} /\ tmp \in Inodes \cup {NoFile}
  /\ \A p \in Procs : job[p].at = "write" => job[p].fd \in Inodes

(* A file is still a file when a piece has been written (fwrite), whatever *)
(* set S its pieces are of.                                                *)
LEMMA PutType ==
  ASSUME NEW S, Hole \in S, NEW f \in Seq(S), NEW i \in Nat \ {0}, NEW v \in S
  PROVE  Put(f, i, v) \in Seq(S)
<1> DEFINE n == IF i > Len(f) THEN i ELSE Len(f)
<1>1. n \in Nat /\ Len(f) \in Nat
  OBVIOUS
<1>2. \A j \in 1 .. n : (IF j = i THEN v ELSE IF j <= Len(f) THEN f[j] ELSE Hole) \in S
  BY <1>1
<1> HIDE DEF n
<1>3. \A g \in [1 .. n -> S] : g \in Seq(S)
  BY <1>1
<1>4. QED
  BY <1>2, <1>3 DEF Put, n

(* What a step adds to the history keeps its types. *)
LEMMA PastTyped ==
  ASSUME Typed, NEW p \in Procs,
         Asked(p) \/ Opens(p) \/ Ended(p) \/ Succeeded(p) \/ Restarted \/ UNCHANGED past
  PROVE  /\ good' \in Versions /\ clean' \in BOOLEAN /\ heir' \in BOOLEAN
         /\ met' \subseteq Procs /\ late' \subseteq Procs /\ orphans' \subseteq Procs
<1>1. job[p].image \in Versions
  <2>1. job[p] \in Jobs
    BY DEF Typed
  <2>2. QED
    BY <2>1 DEF Jobs
<1>2. Saving \subseteq Procs /\ Using \subseteq Procs
  BY DEF Saving, Using
<1>3. CASE Asked(p) \/ Opens(p) \/ Ended(p) \/ UNCHANGED past
  BY <1>2, <1>3 DEF Typed, Asked, Opens, Ended, past
<1>4. CASE Succeeded(p)
  BY <1>1, <1>2, <1>4 DEF Typed, Succeeded
<1>5. CASE Restarted
  BY <1>2, <1>5 DEF Typed, Restarted
<1>6. QED
  BY <1>3, <1>4, <1>5

(* The records a save begins and ends with. *)
LEMMA JobTypes ==
  /\ Idle \in Jobs
  /\ \A v \in Versions : Starting(v) \in Jobs
  /\ 0 \in Versions
BY ChunksAssumption, VersionAssumption DEF Idle, Starting, Jobs, Places, Versions

(* What persist_load takes from the disk is a version. *)
LEMMA LoadedType ==
  ASSUME Typed
  PROVE  Loaded \in Versions
<1>1. CASE path # NoFile /\ \E v \in Versions : disk[path] = Image(v)
  <2>1. PICK v \in Versions : disk[path] = Image(v)
    BY <1>1
  <2>2. Image(v)[1] = v
    BY ChunksAssumption DEF Image
  <2>3. QED
    BY <1>1, <2>1, <2>2 DEF Loaded
<1>2. CASE ~(path # NoFile /\ \E v \in Versions : disk[path] = Image(v))
  BY <1>2, JobTypes DEF Loaded
<1>3. QED
  BY <1>1, <1>2

(* The server and its save. *)
LEMMA ReturnTyped ==
  ASSUME Typed, NEW p \in Procs, NEW ok, Return(p, ok)
  PROVE  /\ mode' \in {"up", "stopping", "down"}
         /\ data' \in Versions /\ latest' \in Versions /\ lastsave' \in Versions
         /\ job' \in [Procs -> Jobs]
         /\ \A r \in Procs : job'[r].at = "write" => job'[r].fd \in Inodes
<1>1. /\ mode' \in {"up", "stopping", "down"}
      /\ data' \in Versions /\ latest' \in Versions /\ lastsave' \in Versions
  BY DEF Typed, Return
<1>2. job' = [job EXCEPT ![p] = Idle]
  BY DEF Return
<1>3. Idle.at # "write"
  BY DEF Idle
<1>4. job' \in [Procs -> Jobs]
  BY <1>2, JobTypes DEF Typed
<1>5. \A r \in Procs : job'[r] = job[r] \/ job'[r] = Idle
  BY <1>2 DEF Typed
<1>6. QED
  BY <1>1, <1>3, <1>4, <1>5 DEF Typed

(* A save that goes on to its next step; the other processes stay. *)
LEMMA ToTyped ==
  ASSUME Typed, NEW p \in Procs, NEW a \in Places, NEW f \in Inodes \cup {NoFile},
         NEW n \in 0 .. Chunks - 1, a = "write" => f \in Inodes, To(p, a, f, n)
  PROVE  /\ job' \in [Procs -> Jobs]
         /\ \A w \in Procs : job'[w].at = "write" => job'[w].fd \in Inodes
         /\ job'[p] = [at |-> a, image |-> job[p].image, fd |-> f, off |-> n]
         /\ \A w \in Procs \ {p} : job'[w] = job[w]
<1> DEFINE r == [at |-> a, image |-> job[p].image, fd |-> f, off |-> n]
<1>1. job[p] \in Jobs
  BY DEF Typed
<1>2. job[p].image \in Versions
  BY <1>1 DEF Jobs
<1>3. r \in Jobs /\ r.at = a /\ r.fd = f
  BY <1>2 DEF Jobs
<1>4. job' = [job EXCEPT ![p] = r]
  BY DEF To
<1> HIDE DEF r
<1>5. /\ job' \in [Procs -> Jobs]
      /\ job'[p] = r /\ \A w \in Procs \ {p} : job'[w] = job[w]
  BY <1>3, <1>4 DEF Typed
<1>6. QED
  BY <1>3, <1>5 DEF Typed, r

(* Every step of persist_save, of whichever process, keeps the types. *)
LEMMA SaveStepTyped ==
  ASSUME Typed, NEW p \in Procs, SaveStep(p)
  PROVE  Typed'
<1>j. job[p] \in Jobs
  BY DEF Typed
<1>o. job[p].image \in Versions /\ job[p].off \in 0 .. Chunks - 1
  BY <1>j DEF Jobs
<1>z. 0 \in 0 .. Chunks - 1 /\ NoFile \in Inodes \cup {NoFile}
  BY ChunksAssumption
<1>1. CASE Open(p)
  <2>1. PICK i \in Inodes : /\ tmp' = i
                            /\ disk' = [disk EXCEPT ![i] = <<>>]
                            /\ To(p, "write", i, 0)
    BY <1>1, Zenon DEF Open
  <2>2. /\ job' \in [Procs -> Jobs]
        /\ \A w \in Procs : job'[w].at = "write" => job'[w].fd \in Inodes
    <3>1. "write" \in Places /\ i \in Inodes \cup {NoFile}
      BY DEF Places
    <3>2. QED
      BY <1>z, <2>1, <3>1, ToTyped, Zenon
  <2>3. disk' \in [Inodes -> Seq(Pieces)]
    <3>1. <<>> \in Seq(Pieces)
      OBVIOUS
    <3>2. QED
      BY <2>1, <3>1 DEF Typed
  <2>4. UNCHANGED <<server, path>> /\ Opens(p)
    BY <1>1 DEF Open
  <2>5. QED
    BY <2>1, <2>2, <2>3, <2>4, PastTyped DEF Typed, server
<1>2. CASE OpenFails(p)
  <2>1. Return(p, FALSE) /\ UNCHANGED files /\ Ended(p)
    BY <1>2, Zenon DEF OpenFails
  <2>2. QED
    BY <2>1, ReturnTyped, PastTyped, Zenon DEF Typed, files
<1>3. CASE Write(p)
  <2> DEFINE n == job[p].off + 1
             f == job[p].fd
  <2>1. f \in Inodes /\ n \in Nat \ {0} /\ job[p].at = "write"
    BY <1>3, <1>o DEF Write, Typed
  <2>2. disk' \in [Inodes -> Seq(Pieces)]
    <3>1. disk' = [disk EXCEPT ![f] = Put(disk[f], n, job[p].image)]
      BY <1>3 DEF Write
    <3>2. disk[f] \in Seq(Pieces) /\ Hole \in Pieces /\ job[p].image \in Pieces
      BY <1>o, <2>1 DEF Typed, Pieces
    <3> HIDE DEF n, f, Pieces
    <3>3. Put(disk[f], n, job[p].image) \in Seq(Pieces)
      BY <2>1, <3>2, PutType
    <3>4. QED
      BY <3>1, <3>3, Zenon DEF Typed
  <2>3. /\ job' \in [Procs -> Jobs]
        /\ \A w \in Procs : job'[w].at = "write" => job'[w].fd \in Inodes
    <3>1. "write" \in Places /\ "rename" \in Places
      BY DEF Places
    <3>2. CASE n < Chunks
      <4>1. To(p, "write", f, n)
        BY <1>3, <3>2 DEF Write
      <4>2. n \in 0 .. Chunks - 1 /\ f \in Inodes \cup {NoFile}
        BY <2>1, <3>2, <1>o, ChunksAssumption
      <4> HIDE DEF n, f
      <4>3. QED
        BY <2>1, <3>1, <4>1, <4>2, ToTyped, Zenon
    <3>3. CASE ~(n < Chunks)
      <4>1. To(p, "rename", NoFile, 0)
        BY <1>3, <3>3 DEF Write
      <4>2. QED
        BY <1>z, <3>1, <4>1, ToTyped, Zenon
    <3>4. QED
      BY <3>2, <3>3
  <2>4. UNCHANGED <<server, path, tmp, past>>
    BY <1>3 DEF Write
  <2>5. QED
    BY <2>2, <2>3, <2>4, PastTyped DEF Typed, server
<1>4. CASE WriteFails(p) \/ RenameFails(p)
  <2>1. To(p, "remove", NoFile, 0) /\ UNCHANGED <<server, files, past>>
    BY <1>4 DEF WriteFails, RenameFails
  <2>2. "remove" \in Places
    BY DEF Places
  <2>3. /\ job' \in [Procs -> Jobs]
        /\ \A w \in Procs : job'[w].at = "write" => job'[w].fd \in Inodes
    BY <1>z, <2>1, <2>2, ToTyped, Zenon
  <2>4. QED
    BY <2>1, <2>3, PastTyped DEF Typed, server, files
<1>5. CASE Rename(p)
  <2>1. Return(p, TRUE) /\ path' = tmp /\ tmp' = NoFile
        /\ Succeeded(p) /\ disk' = disk
    BY <1>5, Zenon DEF Rename
  <2>2. QED
    BY <2>1, ReturnTyped, PastTyped, Zenon DEF Typed
<1>6. CASE Remove(p)
  <2>1. Return(p, FALSE) /\ tmp' = NoFile /\ UNCHANGED <<disk, path>> /\ Ended(p)
    BY <1>6, Zenon DEF Remove
  <2>2. QED
    BY <2>1, ReturnTyped, PastTyped, Zenon DEF Typed
<1>7. QED
  BY <1>1, <1>2, <1>3, <1>4, <1>5, <1>6 DEF SaveStep

(* A process begins a save, or is gone. *)
LEMMA SetJobTyped ==
  ASSUME Typed, NEW p \in Procs, NEW r \in Jobs, r.at # "write",
         job' = [job EXCEPT ![p] = r]
  PROVE  /\ job' \in [Procs -> Jobs]
         /\ \A w \in Procs : job'[w].at = "write" => job'[w].fd \in Inodes
         /\ job'[p] = r /\ \A w \in Procs \ {p} : job'[w] = job[w]
<1> HIDE DEF Jobs
<1>1. /\ job' \in [Procs -> Jobs]
      /\ job'[p] = r /\ \A w \in Procs \ {p} : job'[w] = job[w]
  BY DEF Typed
<1>2. QED
  BY <1>1 DEF Typed

(* Every step, of the server or a child, keeps the types. *)
LEMMA StepTyped ==
  ASSUME Typed, [Next]_vars
  PROVE  Typed'
<1>s. Server \in Procs /\ \A c \in Children : c \in Procs
  BY DEF Procs
<1>d. data \in Versions
  BY DEF Typed
<1>r. Starting(data) \in Jobs /\ Starting(data).at # "write" /\ Idle.at # "write"
  BY <1>d, JobTypes DEF Starting, Idle
<1>1. CASE Change
  <2>1. latest + 1 \in Versions
    BY <1>1, VersionAssumption DEF Change, Typed, Versions
  <2>2. QED
    BY <1>1, <2>1 DEF Change, Typed, files, past
<1>2. CASE cmd_save \/ Shutdown
  <2>1. /\ job' = [job EXCEPT ![Server] = Starting(data)]
        /\ mode' \in {"up", "stopping", "down"}
        /\ UNCHANGED <<data, latest, lastsave, files>> /\ Asked(Server)
    BY <1>2 DEF cmd_save, Shutdown, server, Typed
  <2>2. /\ job' \in [Procs -> Jobs]
        /\ \A w \in Procs : job'[w].at = "write" => job'[w].fd \in Inodes
    BY <1>s, <1>r, <2>1, SetJobTyped, Zenon
  <2>3. QED
    BY <1>s, <2>1, <2>2, PastTyped DEF Typed, files
<1>3. CASE \E c \in Children : cmd_bgsave(c)
  <2>1. PICK c \in Children : cmd_bgsave(c)
    BY <1>3
  <2>2. /\ job' = [job EXCEPT ![c] = Starting(data)]
        /\ lastsave' = data /\ UNCHANGED <<mode, data, latest, files>> /\ Asked(c)
    BY <2>1 DEF cmd_bgsave
  <2>3. /\ job' \in [Procs -> Jobs]
        /\ \A w \in Procs : job'[w].at = "write" => job'[w].fd \in Inodes
    BY <1>s, <1>r, <2>2, SetJobTyped, Zenon
  <2>4. QED
    BY <1>s, <2>2, <2>3, PastTyped DEF Typed, files
<1>4. CASE Boot
  BY <1>4, <1>s, LoadedType, JobTypes, PastTyped DEF Boot, Typed, files
<1>5. CASE Crash \/ \E c \in Children : ChildCrash(c)
  <2>1. PICK p \in Procs : job' = [job EXCEPT ![p] = Idle] /\ Ended(p)
    BY <1>5, <1>s DEF Crash, ChildCrash
  <2>2. /\ mode' \in {"up", "stopping", "down"}
        /\ UNCHANGED <<data, latest, lastsave, files>>
    BY <1>5 DEF Crash, ChildCrash, server, Typed
  <2>3. /\ job' \in [Procs -> Jobs]
        /\ \A w \in Procs : job'[w].at = "write" => job'[w].fd \in Inodes
    BY <1>r, <2>1, JobTypes, SetJobTyped, Zenon
  <2>4. QED
    BY <2>1, <2>2, <2>3, PastTyped DEF Typed, files
<1>6. CASE \E p \in Procs : SaveStep(p)
  BY <1>6, SaveStepTyped
<1>7. CASE UNCHANGED vars
  BY <1>7 DEF Typed, vars, server, files, past
<1>8. QED
  BY <1>1, <1>2, <1>3, <1>4, <1>5, <1>6, <1>7 DEF Next

(* The first start has the types. *)
LEMMA InitTyped == Init => Typed
<1> SUFFICES ASSUME Init PROVE Typed
  OBVIOUS
<1>1. job \in [Procs -> Jobs] /\ \A p \in Procs : job[p].at # "write"
  BY JobTypes DEF Init, Idle
<1>2. disk \in [Inodes -> Seq(Pieces)]
  <2>1. <<>> \in Seq(Pieces)
    OBVIOUS
  <2>2. QED
    BY <2>1 DEF Init
<1>3. QED
  BY <1>1, <1>2, JobTypes DEF Init, Typed

(* Type correctness of the saves and restarts, overlapping or not: in      *)
(* particular no process ever writes to a file that it has not opened.     *)
THEOREM TypeCorrect == Spec => []TypeOK
<1>1. Typed => TypeOK
  BY DEF Typed, TypeOK, Jobs, Places, Pieces
<1>2. QED
  BY <1>1, InitTyped, StepTyped, PTL DEF Spec
-----------------------------------------------------------------------------
(* The first n pieces of an image. *)
Partial(n, v) == [i \in 1 .. n |-> v]

(* A save that no other has met is the only one to use <path>.tmp: it has  *)
(* written there exactly the pieces it has counted.  And nobody writes to  *)
(* the file of a clean snapshot.                                           *)
Owned ==
  /\ tmp # NoFile => tmp # path
  /\ \A p \in Using \ met, q \in Using : p = q
  /\ \A p \in Procs \ met : job[p].at = "write" =>
       job[p].fd = tmp /\ disk[tmp] = Partial(job[p].off, job[p].image)
  /\ \A p \in Procs \ met : job[p].at = "rename" =>
       tmp # NoFile /\ disk[tmp] = Image(job[p].image)
  /\ clean => \A p \in Procs : job[p].at = "write" => job[p].fd # path

(* No version is newer than the last one made, wherever it is; the heir of *)
(* the last good snapshot has nothing older in memory, nor has a save that *)
(* is not late; and no server is behind the saves that were asked of it.   *)
Written == disk \in [Inodes -> Seq((0 .. latest) \cup {Hole})]
Ordered ==
  /\ data <= latest /\ good <= latest
  /\ heir /\ mode # "down" => good <= data
  /\ \A p \in Saving :
       /\ job[p].image <= latest
       /\ p \notin late => good <= job[p].image
       /\ p \notin orphans /\ mode # "down" => job[p].image <= data

IInv == Typed /\ Written /\ Owned /\ Ordered /\ CleanIntact

(* What one more fwrite does to a file written so far from its start. *)
LEMMA PutPartial ==
  ASSUME NEW n \in Nat, NEW v \in Versions
  PROVE  /\ Put(Partial(n, v), n + 1, v) = Partial(n + 1, v)
         /\ <<>> = Partial(0, v)
         /\ Image(v) = Partial(Chunks, v)
<1>1. Partial(n, v) \in Seq(Versions) /\ Len(Partial(n, v)) = n
  BY DEF Partial
<1>2. \A j \in 1 .. n : Partial(n, v)[j] = v
  BY DEF Partial
<1> DEFINE P == Partial(n, v)
<1>3. Put(P, n + 1, v) = [j \in 1 .. n + 1 |-> IF j = n + 1 THEN v
                                             ELSE IF j <= n THEN P[j] ELSE Hole]
  BY <1>1 DEF Put
<1> HIDE DEF P
<1>4. \A j \in 1 .. n + 1 : (IF j = n + 1 THEN v ELSE IF j <= n THEN P[j] ELSE Hole) = v
  BY <1>2 DEF P
<1>5. Put(P, n + 1, v) = Partial(n + 1, v)
  BY <1>3, <1>4 DEF Partial
<1>6. <<>> = Partial(0, v)
  BY DEF Partial
<1>7. QED
  BY <1>5, <1>6 DEF P, Image, Partial

(* The fields of the jobs, and the files, as numbers and names. *)
LEMMA Fields ==
  ASSUME Typed
  PROVE  /\ \A p \in Procs : /\ job[p].image \in Nat /\ job[p].off \in Nat
                             /\ job[p].image \in Versions
                             /\ job[p].off \in 0 .. Chunks - 1
         /\ data \in Nat /\ latest \in Nat /\ good \in Nat
<1>1. \A p \in Procs : job[p] \in Jobs
  BY DEF Typed
<1>2. \A p \in Procs : job[p].image \in Versions /\ job[p].off \in 0 .. Chunks - 1
  BY <1>1 DEF Jobs
<1>3. QED
  BY <1>2 DEF Typed, Versions

(* SAVE, BGSAVE and the save on shutdown begin, whatever else is going on. *)
LEMMA BeginStep ==
  ASSUME IInv, mode = "up", NEW p \in Procs, job[p].at = "idle",
         job' = [job EXCEPT ![p] = Starting(data)], Asked(p),
         mode' \in {"up", "stopping"}, UNCHANGED <<data, latest, files>>
  PROVE  Written' /\ Owned' /\ Ordered' /\ CleanIntact'
<1>1. data \in Versions /\ Typed
  BY DEF IInv, Typed
<1>2. Starting(data) \in Jobs /\ Starting(data).at = "open"
      /\ Starting(data).image = data
  BY <1>1, JobTypes DEF Starting
<1>3. job'[p] = Starting(data) /\ \A r \in Procs \ {p} : job'[r] = job[r]
  BY <1>1, <1>2, SetJobTyped, Zenon
<1>4. UNCHANGED <<good, clean, heir, met, orphans>>
      /\ late' = (IF heir THEN late ELSE late \cup {p})
  BY DEF Asked
<1>5. Using' = Using
  BY <1>2, <1>3 DEF Using
<1>6. Owned'
  BY <1>2, <1>3, <1>4, <1>5 DEF IInv, Owned, files
<1>7. \A r \in Saving' : r = p \/ (r \in Saving /\ job'[r] = job[r])
  BY <1>3 DEF Saving
<1>8. Ordered'
  <2>1. data' <= latest' /\ good' <= latest' /\ (heir' /\ mode' # "down" => good' <= data')
    BY <1>4 DEF IInv, Ordered
  <2>2. /\ job'[p].image <= latest'
        /\ p \notin late' => good' <= job'[p].image
        /\ p \notin orphans' /\ mode' # "down" => job'[p].image <= data'
    BY <1>1, <1>2, <1>3, <1>4, Fields DEF IInv, Ordered
  <2>3. ASSUME NEW r \in Saving, job'[r] = job[r], r # p
        PROVE  /\ job'[r].image <= latest'
               /\ r \notin late' => good' <= job'[r].image
               /\ r \notin orphans' /\ mode' # "down" => job'[r].image <= data'
    BY <1>4, <2>3 DEF IInv, Ordered
  <2>4. QED
    BY <1>7, <2>1, <2>2, <2>3 DEF Ordered
<1>9. QED
  BY <1>4, <1>6, <1>8 DEF IInv, CleanIntact, LastGoodIntact, Written, files

(* A save ends without touching <path>: it failed, or its process died;    *)
(* <path>.tmp is left or removed.                                          *)
LEMMA EndStep ==
  ASSUME IInv, NEW p \in Procs,
         job' = [job EXCEPT ![p] = Idle], Ended(p), tmp' \in {tmp, NoFile},
         tmp' = tmp \/ p \in Using,
         mode' \in {mode, "down"}, UNCHANGED <<data, latest, disk, path>>
  PROVE  Written' /\ Owned' /\ Ordered' /\ CleanIntact'
<1>1. Idle \in Jobs /\ Idle.at = "idle" /\ Typed
  BY JobTypes DEF Idle, IInv
<1>2. job'[p] = Idle /\ \A r \in Procs \ {p} : job'[r] = job[r]
  BY <1>1, SetJobTyped, Zenon
<1>3. /\ met' = met \ {p} /\ late' = late \ {p} /\ orphans' = orphans \ {p}
      /\ UNCHANGED <<good, clean, heir>>
  BY DEF Ended
<1>4. Using' = Using \ {p} /\ Saving' = Saving \ {p}
  BY <1>1, <1>2 DEF Using, Saving
<1>5. \A r \in Procs \ {p} : (r \in met' <=> r \in met) /\ (r \in late' <=> r \in late)
                             /\ (r \in orphans' <=> r \in orphans)
  BY <1>3
<1>6. tmp' = tmp \/ \A r \in Procs \ met : r # p =>
                      job[r].at # "write" /\ job[r].at # "rename"
  BY DEF IInv, Owned, Using
<1>7. Owned'
  <2>1. \A a \in Using' \ met', b \in Using' : a = b
    BY <1>4, <1>5 DEF IInv, Owned, Using
  <2>2. \A r \in Procs \ met' : r # p => r \in Procs \ met /\ job'[r] = job[r]
    BY <1>2, <1>5
  <2>3. \A r \in Procs \ met' : job'[r].at = "write" =>
          job'[r].fd = tmp' /\ disk'[tmp'] = Partial(job'[r].off, job'[r].image)
    BY <1>1, <1>2, <1>6, <2>2 DEF IInv, Owned
  <2>4. \A r \in Procs \ met' : job'[r].at = "rename" =>
          tmp' # NoFile /\ disk'[tmp'] = Image(job'[r].image)
    BY <1>1, <1>2, <1>6, <2>2 DEF IInv, Owned
  <2>5. clean' => \A r \in Procs : job'[r].at = "write" => job'[r].fd # path'
    BY <1>1, <1>2, <1>3 DEF IInv, Owned
  <2>6. tmp' # NoFile => tmp' # path'
    BY DEF IInv, Owned
  <2>7. QED
    BY <2>1, <2>3, <2>4, <2>5, <2>6 DEF Owned
<1>8. Ordered'
  <2>1. \A r \in Saving' : r \in Saving /\ job'[r] = job[r] /\ r \in Procs \ {p}
    BY <1>2, <1>4 DEF Saving
  <2>2. QED
    BY <1>3, <1>5, <2>1 DEF IInv, Ordered
<1>9. QED
  BY <1>3, <1>7, <1>8 DEF IInv, CleanIntact, LastGoodIntact, Written

(* A save moves to its next step, and if no other has met it, what it has  *)
(* written is in <path>.tmp.                                               *)
LEMMA GoOnStep ==
  ASSUME IInv, NEW p \in Procs, p \in Using,
         NEW a \in {"write", "rename", "remove"}, NEW f \in Inodes \cup {NoFile},
         NEW n \in 0 .. Chunks - 1, a = "write" => f \in Inodes, To(p, a, f, n),
         a = "write" => f = job[p].fd /\ job[p].at = "write",
         clean /\ path # NoFile => disk'[path] = disk[path],
         a = "write" /\ p \notin met => disk'[tmp] = Partial(n, job[p].image),
         a = "rename" /\ p \notin met =>
           tmp # NoFile /\ disk'[tmp] = Image(job[p].image),
         UNCHANGED <<server, path, tmp, past>>
  PROVE  Owned' /\ Ordered' /\ CleanIntact'
<1> DEFINE r == [at |-> a, image |-> job[p].image, fd |-> f, off |-> n]
<1>0. a \in Places /\ a # "idle"
  BY DEF Places
<1>1. job'[p] = r /\ \A w \in Procs \ {p} : job'[w] = job[w]
  BY <1>0, ToTyped DEF IInv
<1>2. r.at = a /\ r.image = job[p].image /\ r.fd = f /\ r.off = n
  OBVIOUS
<1> HIDE DEF r
<1>3. Using' = Using /\ Saving' = Saving
  BY <1>0, <1>1, <1>2 DEF Using, Saving
<1>4. \A w \in Procs \ met : w # p => job[w].at # "write" /\ job[w].at # "rename"
  BY DEF IInv, Owned, Using
<1>5. UNCHANGED <<met, clean, good, heir, late, orphans>>
  BY DEF past
<1>6. Owned'
  <2>1. \A x \in Using' \ met', y \in Using' : x = y
    BY <1>3, <1>5 DEF IInv, Owned
  <2>2. \A w \in Procs \ met' : job'[w].at = "write" =>
          job'[w].fd = tmp' /\ disk'[tmp'] = Partial(job'[w].off, job'[w].image)
    BY <1>1, <1>2, <1>4, <1>5 DEF IInv, Owned
  <2>3. \A w \in Procs \ met' : job'[w].at = "rename" =>
          tmp' # NoFile /\ disk'[tmp'] = Image(job'[w].image)
    BY <1>1, <1>2, <1>4, <1>5 DEF IInv, Owned
  <2>4. clean' => \A w \in Procs : job'[w].at = "write" => job'[w].fd # path'
    BY <1>1, <1>2, <1>5 DEF IInv, Owned
  <2>5. QED
    BY <2>1, <2>2, <2>3, <2>4 DEF IInv, Owned
<1>7. Ordered'
  <2>1. \A w \in Saving' : w \in Saving /\ job'[w].image = job[w].image
    BY <1>1, <1>2, <1>3 DEF Saving
  <2>2. UNCHANGED <<data, latest, mode>>
    BY DEF server
  <2>3. QED
    BY <1>5, <2>1, <2>2 DEF IInv, Ordered
<1>8. CleanIntact'
  BY <1>5 DEF IInv, CleanIntact, LastGoodIntact
<1>9. QED
  BY <1>6, <1>7, <1>8

(* fopen: the saves that use <path>.tmp meet from now on. *)
LEMMA OpenKeeps ==
  ASSUME IInv, NEW p \in Procs, Open(p)
  PROVE  Written' /\ Owned' /\ Ordered' /\ CleanIntact'
<1>t. Typed /\ job[p].image \in Versions
  BY Fields DEF IInv
<1>1. PICK i \in Inodes : /\ (tmp = NoFile => i # path) /\ (tmp # NoFile => i = tmp)
                          /\ tmp' = i
                          /\ disk' = [disk EXCEPT ![i] = <<>>]
                          /\ To(p, "write", i, 0)
  BY Zenon DEF Open
<1>2. job[p].at = "open" /\ Opens(p) /\ UNCHANGED <<server, path>>
  BY DEF Open
<1>3. i # path /\ tmp' # NoFile /\ tmp' # path'
  BY <1>1, <1>2, FilesAssumption DEF IInv, Owned
<1> DEFINE r == [at |-> "write", image |-> job[p].image, fd |-> i, off |-> 0]
<1>4. job'[p] = r /\ \A w \in Procs \ {p} : job'[w] = job[w]
  <2>1. "write" \in Places /\ i \in Inodes \cup {NoFile} /\ 0 \in 0 .. Chunks - 1
    BY ChunksAssumption DEF Places
  <2>2. QED
    BY <1>t, <1>1, <2>1, ToTyped
<1>5. r.at = "write" /\ r.image = job[p].image /\ r.fd = i /\ r.off = 0
  OBVIOUS
<1> HIDE DEF r
<1>6. Using' = Using \cup {p} /\ Saving' = Saving /\ p \notin Using /\ p \in Saving
  BY <1>2, <1>4, <1>5 DEF Using, Saving
<1>7. UNCHANGED <<good, clean, heir, late, orphans, data, latest, mode>>
  BY <1>2 DEF Opens, server
<1>8. /\ Using # {} => met' = met \cup Using \cup {p}
      /\ Using = {} => met' = met
  BY <1>2 DEF Opens
<1>9. disk'[i] = Partial(0, job[p].image)
  BY <1>t, <1>1, PutPartial, SMTT(30) DEF Typed
<1>10. path # NoFile => disk'[path] = disk[path]
  BY <1>t, <1>1, <1>3 DEF Typed
<1>11. Owned'
  <2>1. \A x \in Using' \ met', y \in Using' : x = y
    BY <1>6, <1>8
  <2>2. \A w \in Procs \ met' : w # p => w \notin Using
    BY <1>8
  <2>3. \A w \in Procs \ met' : w # p => job'[w].at # "write" /\ job'[w].at # "rename"
    BY <1>4, <2>2 DEF Using
  <2>4. \A w \in Procs \ met' : job'[w].at = "write" =>
          job'[w].fd = tmp' /\ disk'[tmp'] = Partial(job'[w].off, job'[w].image)
    BY <1>1, <1>4, <1>5, <1>9, <2>3
  <2>5. \A w \in Procs \ met' : job'[w].at = "rename" =>
          tmp' # NoFile /\ disk'[tmp'] = Image(job'[w].image)
    BY <1>4, <1>5, <2>3
  <2>6. clean' => \A w \in Procs : job'[w].at = "write" => job'[w].fd # path'
    BY <1>2, <1>3, <1>4, <1>5, <1>7 DEF IInv, Owned
  <2>7. QED
    BY <1>3, <2>1, <2>4, <2>5, <2>6 DEF Owned
<1>12. Ordered'
  <2>1. \A w \in Saving' : w \in Saving /\ job'[w].image = job[w].image
    BY <1>4, <1>5, <1>6 DEF Saving
  <2>2. QED
    BY <1>7, <2>1 DEF IInv, Ordered
<1>13. CleanIntact'
  BY <1>2, <1>7, <1>10 DEF IInv, CleanIntact, LastGoodIntact
<1>14. Written'
  <2>1. <<>> \in Seq((0 .. latest) \cup {Hole})
    OBVIOUS
  <2>2. QED
    BY <1>1, <1>7, <2>1 DEF IInv, Written
<1>15. QED
  BY <1>11, <1>12, <1>13, <1>14

(* One write: to <path>.tmp when no other save has met this one, and in no *)
(* case to a clean snapshot.                                               *)
LEMMA WriteKeeps ==
  ASSUME IInv, NEW p \in Procs, Write(p)
  PROVE  Written' /\ Owned' /\ Ordered' /\ CleanIntact'
<1> DEFINE m == job[p].off
           v == job[p].image
           f == job[p].fd
<1>t. Typed /\ latest \in Nat
  BY Fields DEF IInv
<1>m. m \in Nat /\ v \in Versions /\ v \in Nat /\ m \in 0 .. Chunks - 1
  BY <1>t, Fields
<1>1. job[p].at = "write" /\ f \in Inodes /\ p \in Using /\ p \in Saving
  BY <1>t DEF Write, Typed, Using, Saving
<1>2. /\ disk' = [disk EXCEPT ![f] = Put(disk[f], m + 1, v)]
      /\ UNCHANGED <<server, path, tmp, past>>
  BY DEF Write
<1>3. IF m + 1 < Chunks THEN To(p, "write", f, m + 1) ELSE To(p, "rename", NoFile, 0)
  BY DEF Write
<1>4. p \notin met => f = tmp /\ disk[tmp] = Partial(m, v)
  BY <1>1 DEF IInv, Owned
<1>5. clean => f # path
  BY <1>1 DEF IInv, Owned
<1>6. v <= latest /\ latest' = latest
  BY <1>1, <1>2 DEF IInv, Ordered, server
<1>v. v = job[p].image /\ f = job[p].fd
  OBVIOUS
<1> HIDE DEF m, v, f
<1>7. p \notin met => disk'[tmp] = Partial(m + 1, v)
  BY <1>t, <1>1, <1>2, <1>4, <1>m, PutPartial DEF Typed
<1>8. clean /\ path # NoFile => disk'[path] = disk[path]
  BY <1>t, <1>2, <1>5 DEF Typed
<1>9. Written'
  <2> DEFINE S == (0 .. latest) \cup {Hole}
  <2>1. Hole \in S /\ v \in S /\ disk[f] \in Seq(S) /\ m + 1 \in Nat \ {0}
    BY <1>t, <1>1, <1>6, <1>m DEF IInv, Written
  <2>2. disk \in [Inodes -> Seq(S)]
    BY DEF IInv, Written
  <2> HIDE DEF S
  <2>3. Put(disk[f], m + 1, v) \in Seq(S)
    BY <2>1, PutType
  <2>4. disk' \in [Inodes -> Seq(S)]
    BY <1>2, <2>2, <2>3, Zenon
  <2>5. QED
    BY <1>6, <2>4 DEF Written, S
<1>10. CASE m + 1 < Chunks
  <2>1. To(p, "write", f, m + 1) /\ m + 1 \in 0 .. Chunks - 1
        /\ f \in Inodes \cup {NoFile}
    BY <1>1, <1>3, <1>10, <1>m, ChunksAssumption
  <2>2. Owned' /\ Ordered' /\ CleanIntact'
    BY <1>1, <1>2, <1>7, <1>8, <1>v, <2>1, GoOnStep
  <2>3. QED
    BY <1>9, <2>2
<1>11. CASE ~(m + 1 < Chunks)
  <2>1. To(p, "rename", NoFile, 0) /\ NoFile \in Inodes \cup {NoFile}
        /\ 0 \in 0 .. Chunks - 1
    BY <1>3, <1>11, ChunksAssumption
  <2>2. m + 1 = Chunks
    BY <1>11, <1>m, ChunksAssumption
  <2>3. p \notin met => tmp # NoFile /\ disk'[tmp] = Image(v)
    BY <1>1, <1>4, <1>7, <1>m, <2>2, PutPartial, FilesAssumption
  <2>4. Owned' /\ Ordered' /\ CleanIntact'
    BY <1>1, <1>2, <1>8, <1>v, <2>1, <2>3, GoOnStep
  <2>5. QED
    BY <1>9, <2>4
<1>12. QED
  BY <1>10, <1>11

(* rename: the snapshot is clean if no other save has met this one, and it *)
(* is not older than the last if this one is not late.                     *)
LEMMA RenameKeeps ==
  ASSUME IInv, NEW p \in Procs, Rename(p)
  PROVE  Written' /\ Owned' /\ Ordered' /\ CleanIntact' /\ (p \notin late => good' >= good)
<1>t. Typed /\ job[p].image \in Nat /\ good \in Nat
  BY Fields DEF IInv
<1>1. /\ job[p].at = "rename" /\ path' = tmp /\ tmp' = NoFile /\ disk' = disk
      /\ job' = [job EXCEPT ![p] = Idle] /\ tmp # NoFile
      /\ mode' \in {mode, "down"} /\ UNCHANGED <<data, latest>>
  BY DEF Rename, Return
<1>2. /\ good' = job[p].image /\ clean' = (p \notin met) /\ heir' = (p \notin orphans)
      /\ met' = met \ {p} /\ late' = Saving \ {p} /\ orphans' = orphans \ {p}
  BY DEF Rename, Succeeded
<1>3. Idle \in Jobs /\ Idle.at = "idle"
  BY JobTypes DEF Idle
<1>4. job'[p] = Idle /\ \A r \in Procs \ {p} : job'[r] = job[r]
  BY <1>t, <1>1, <1>3, SetJobTyped, Zenon
<1>5. Using' = Using \ {p} /\ Saving' = Saving \ {p} /\ p \in Using /\ p \in Saving
  BY <1>1, <1>3, <1>4 DEF Using, Saving
<1>6. \A r \in Procs \ met' : job'[r].at # "write" /\ job'[r].at # "rename"
  <2>1. \A r \in Procs \ met : r # p => r \notin Using
    BY <1>5 DEF IInv, Owned
  <2>2. QED
    BY <1>2, <1>3, <1>4, <2>1 DEF Using
<1>7. clean' => \A r \in Procs : job'[r].at # "write"
  <2>1. clean' => \A r \in Procs \ {p} : r \notin Using
    BY <1>2, <1>5 DEF IInv, Owned
  <2>2. QED
    BY <1>3, <1>4, <2>1 DEF Using
<1>8. Owned'
  <2>1. \A x \in Using' \ met', y \in Using' : x = y
    BY <1>2, <1>5 DEF IInv, Owned
  <2>2. QED
    BY <1>1, <1>6, <1>7, <2>1 DEF Owned
<1>9. Ordered'
  <2>1. \A r \in Saving' : /\ r \in Saving /\ job'[r] = job[r] /\ r \in late'
                           /\ (r \in orphans' <=> r \in orphans)
    BY <1>2, <1>4, <1>5 DEF Saving
  <2>2. heir' /\ mode' # "down" => good' <= data'
    BY <1>1, <1>2, <1>5 DEF IInv, Ordered
  <2>3. data' <= latest' /\ good' <= latest'
    BY <1>1, <1>2, <1>5 DEF IInv, Ordered
  <2>4. QED
    BY <1>1, <2>1, <2>2, <2>3 DEF IInv, Ordered
<1>10. CleanIntact'
  <2>1. p \notin met => disk[tmp] = Image(job[p].image)
    BY <1>1 DEF IInv, Owned
  <2>2. QED
    BY <1>1, <1>2, <2>1 DEF CleanIntact, LastGoodIntact, Image
<1>11. p \notin late => good' >= good
  BY <1>t, <1>2, <1>5 DEF IInv, Ordered
<1>12. QED
  BY <1>1, <1>8, <1>9, <1>10, <1>11 DEF IInv, Written

(* Every step of persist_save keeps the invariant. *)
LEMMA SaveStepKeeps ==
  ASSUME IInv, NEW p \in Procs, SaveStep(p)
  PROVE  Written' /\ Owned' /\ Ordered' /\ CleanIntact'
<1>1. CASE Open(p)
  BY <1>1, OpenKeeps
<1>2. CASE Write(p)
  BY <1>2, WriteKeeps
<1>3. CASE Rename(p)
  BY <1>3, RenameKeeps
<1>4. CASE OpenFails(p) \/ Remove(p)
  <2>1. /\ job' = [job EXCEPT ![p] = Idle] /\ Ended(p)
        /\ tmp' \in {tmp, NoFile} /\ (tmp' = tmp \/ p \in Using)
        /\ mode' \in {mode, "down"} /\ UNCHANGED <<data, latest, disk, path>>
    BY <1>4 DEF OpenFails, Remove, Return, files, Using
  <2>2. QED
    BY <2>1, EndStep, Zenon
<1>5. CASE WriteFails(p) \/ RenameFails(p)
  <2>1. To(p, "remove", NoFile, 0) /\ UNCHANGED <<server, files, past>> /\ p \in Using
    BY <1>5 DEF WriteFails, RenameFails, Using
  <2>2. UNCHANGED <<disk, path, tmp, latest>>
    BY <2>1 DEF files, server
  <2>3. "remove" \in {"write", "rename", "remove"} /\ NoFile \in Inodes \cup {NoFile}
        /\ 0 \in 0 .. Chunks - 1
    BY ChunksAssumption
  <2>4. Owned' /\ Ordered' /\ CleanIntact'
    BY <2>1, <2>2, <2>3, GoOnStep
  <2>5. QED
    BY <2>2, <2>4 DEF IInv, Written
<1>6. QED
  BY <1>1, <1>2, <1>3, <1>4, <1>5 DEF SaveStep

(* What the next start loads is the last good snapshot if that is clean,   *)
(* and in any case no version that has never been made.                    *)
LEMMA LoadedGood ==
  ASSUME IInv
  PROVE  Loaded <= latest /\ (clean => Loaded = good)
<1>t. Typed /\ good \in Versions /\ latest \in Nat /\ good \in Nat
  BY Fields DEF IInv, Typed
<1>1. CASE path = NoFile
  BY <1>1, <1>t DEF IInv, CleanIntact, LastGoodIntact, Loaded
<1>2. CASE path # NoFile
  <2>1. ASSUME NEW v \in Versions, disk[path] = Image(v)
        PROVE  Loaded = v /\ v <= latest
    <3>1. Image(v)[1] = v /\ 1 \in DOMAIN Image(v)
      BY ChunksAssumption DEF Image
    <3>2. Loaded = v
      BY <1>2, <2>1, <3>1 DEF Loaded
    <3>3. disk[path] \in Seq((0 .. latest) \cup {Hole}) /\ 1 \in DOMAIN disk[path]
      BY <1>t, <1>2, <2>1, <3>1 DEF IInv, Written, Typed
    <3>4. disk[path][1] \in (0 .. latest) \cup {Hole}
      BY <3>3
    <3>5. v # Hole
      BY VersionAssumption DEF Hole, Versions
    <3>6. QED
      BY <1>t, <2>1, <3>1, <3>2, <3>4, <3>5
  <2>2. clean => Loaded = good
    BY <1>2, <1>t, <2>1 DEF IInv, CleanIntact, LastGoodIntact
  <2>3. CASE \E v \in Versions : disk[path] = Image(v)
    BY <2>1, <2>2, <2>3
  <2>4. CASE ~ \E v \in Versions : disk[path] = Image(v)
    BY <1>t, <2>2, <2>4 DEF Loaded
  <2>5. QED
    BY <2>3, <2>4
<1>3. QED
  BY <1>1, <1>2

(* Every step keeps the invariant. *)
LEMMA StepKeeps ==
  ASSUME IInv, [Next]_vars
  PROVE  Written' /\ Owned' /\ Ordered' /\ CleanIntact'
<1>t. Typed /\ good \in Nat /\ data \in Nat /\ latest \in Nat
  BY Fields DEF IInv
<1>s. Server \in Procs /\ \A c \in Children : c \in Procs
  BY DEF Procs
<1>1. CASE Change
  <2>1. /\ data' = latest + 1 /\ latest' = latest + 1 /\ mode = "up"
        /\ UNCHANGED <<mode, lastsave, job, files, past>>
    BY <1>1 DEF Change, Serving
  <2>2. UNCHANGED <<disk, path, tmp, good, clean, heir, met, late, orphans>>
        /\ Using' = Using /\ Saving' = Saving
    BY <2>1 DEF files, past, Using, Saving
  <2>3. Owned' /\ CleanIntact'
    BY <2>1, <2>2 DEF IInv, Owned, CleanIntact, LastGoodIntact
  <2>4. Ordered'
    <3>1. \A p \in Saving : job[p].image \in Nat
      BY <1>t, Fields DEF Saving
    <3>2. QED
      BY <1>t, <2>1, <2>2, <3>1 DEF IInv, Ordered
  <2>5. Written'
    <3>1. Seq((0 .. latest) \cup {Hole}) \subseteq Seq((0 .. latest') \cup {Hole})
      BY <1>t, <2>1
    <3> DEFINE A == Seq((0 .. latest) \cup {Hole})
               B == Seq((0 .. latest') \cup {Hole})
    <3>2. A \subseteq B /\ disk \in [Inodes -> A]
      BY <3>1 DEF IInv, Written
    <3> HIDE DEF A, B
    <3>3. disk' \in [Inodes -> B]
      BY <2>2, <3>2
    <3>4. QED
      BY <3>3 DEF Written, B
  <2>6. QED
    BY <2>3, <2>4, <2>5
<1>2. CASE cmd_save \/ Shutdown \/ \E c \in Children : cmd_bgsave(c)
  <2>1. /\ mode = "up" /\ mode' \in {"up", "stopping"}
        /\ \E p \in Procs : /\ job[p].at = "idle" /\ Asked(p)
                            /\ job' = [job EXCEPT ![p] = Starting(data)]
        /\ UNCHANGED <<data, latest, files>>
    BY <1>2, <1>s DEF cmd_save, Shutdown, cmd_bgsave, Serving, server
  <2>2. QED
    BY <2>1, BeginStep, Zenon
<1>3. CASE Boot
  <2>1. /\ data' = Loaded /\ UNCHANGED <<latest, job, files>>
        /\ heir' = clean /\ orphans' = Saving /\ UNCHANGED <<good, clean, met, late>>
    BY <1>3 DEF Boot, Restarted
  <2>2. UNCHANGED <<disk, path, tmp>> /\ Using' = Using /\ Saving' = Saving
    BY <2>1 DEF files, Using, Saving
  <2>3. Written' /\ Owned' /\ CleanIntact'
    BY <2>1, <2>2 DEF IInv, Written, Owned, CleanIntact, LastGoodIntact
  <2>4. Ordered'
    BY <1>t, <2>1, <2>2, LoadedGood DEF IInv, Ordered
  <2>5. QED
    BY <2>3, <2>4
<1>4. CASE Crash \/ \E c \in Children : ChildCrash(c)
  <2>1. /\ \E p \in Procs : job' = [job EXCEPT ![p] = Idle] /\ Ended(p)
        /\ mode' \in {mode, "down"} /\ tmp' = tmp
        /\ UNCHANGED <<data, latest, disk, path>>
    BY <1>4, <1>s DEF Crash, ChildCrash, server, files
  <2>2. QED
    BY <2>1, EndStep, Zenon
<1>5. CASE \E p \in Procs : SaveStep(p)
  BY <1>5, SaveStepKeeps
<1>6. CASE UNCHANGED vars
  BY <1>6 DEF IInv, Written, Owned, Ordered, CleanIntact, LastGoodIntact,
              Using, Saving, vars, server, files, past
<1>7. QED
  BY <1>1, <1>2, <1>3, <1>4, <1>5, <1>6 DEF Next

(* The inductive invariant holds however saves, failures, crashes and      *)
(* starts interleave: a save that no other has met owns <path>.tmp, and    *)
(* nobody writes to the file of a clean snapshot.                          *)
THEOREM Invariance == Spec => []IInv
<1>1. Init => IInv
  <2> SUFFICES ASSUME Init PROVE IInv
    OBVIOUS
  <2>1. \A p \in Procs : job[p].at = "idle"
    BY DEF Init, Idle
  <2>2. Using = {} /\ Saving = {}
    BY <2>1 DEF Using, Saving
  <2>3. Written
    <3>1. <<>> \in Seq((0 .. latest) \cup {Hole})
      OBVIOUS
    <3>2. QED
      BY <3>1 DEF Init, Written
  <2>4. QED
    BY <2>1, <2>2, <2>3, InitTyped
    DEF Init, IInv, Owned, Ordered, CleanIntact, LastGoodIntact
<1>2. IInv /\ [Next]_vars => IInv'
  BY StepKeeps, StepTyped DEF IInv
<1>3. QED
  BY <1>1, <1>2, PTL DEF Spec

(* Saves are atomic as far as each has <path>.tmp to itself: after such a  *)
(* save, and any failures, crashes and other saves begun since, <path> is  *)
(* what the last successful persist_save wrote.                            *)
THEOREM SavesAtomic == Spec => []CleanIntact
<1>1. IInv => CleanIntact
  BY DEF IInv
<1>2. QED
  BY <1>1, Invariance, PTL

(* Only a late save, of a child that was overtaken or of a server that did *)
(* not start from the last good snapshot, replaces it by an older one.     *)
THEOREM OnlyLateGoBack == Spec => OlderOnlyIfLate
<1>1. IInv /\ [Next]_vars =>
        [\A p \in Procs : Rename(p) /\ p \notin late => good' >= good]_vars
  BY RenameKeeps
<1>2. QED
  BY <1>1, Invariance, PTL DEF Spec, OlderOnlyIfLate

(* Every start of the server, also while children of the one before are    *)
(* saving, has the data of the last successful save if that is clean.      *)
THEOREM RestartsKeepSaves == Spec => RestartKeepsSaved
<1>1. IInv /\ [Next]_vars => [Boot /\ clean => data' = good]_vars
  BY LoadedGood DEF Boot
<1>2. QED
  BY <1>1, Invariance, PTL DEF Spec, RestartKeepsSaved
=============================================================================
