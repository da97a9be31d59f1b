------------------------------ MODULE Snapshot ------------------------------
(***************************************************************************)
(* Snapshots of a server started with --save: persist_save of              *)
(* src/persist.c step by step, as run by SAVE, by the children BGSAVE      *)
(* forks and by the shutdown of either server, with the processes crashing *)
(* between any two steps; and the persist_load of the next start.  Nothing *)
(* in the code keeps two saves, or a save and a start, apart.              *)
(*                                                                         *)
(* The contents of the store are a version number, 0 for the empty store.  *)
(* A snapshot file is written in Chunks pieces; it loads only when all of  *)
(* its pieces are of one version (persist_load's length, magic and         *)
(* checksum tests).                                                        *)
(***************************************************************************)
EXTENDS Naturals, Sequences

CONSTANTS
  Server,       \* the server process
  Children,     \* the children it may have at one time
  Inodes,       \* the files of the directory, named or not
  NoFile,       \* what a name stands for when no file has it
  Chunks,       \* pieces a snapshot is written in
  MaxVersion    \* bound on the changes clients make

ASSUME ProcsAssumption == Server \notin Children
ASSUME FilesAssumption == NoFile \notin Inodes
ASSUME ChunksAssumption == Chunks \in Nat \ {0}
ASSUME VersionAssumption == MaxVersion \in Nat

VARIABLES
  mode,       \* "up", "stopping" (in the save made on shutdown) or "down"
  data,       \* the version in the server's memory
  latest,     \* the last version made, by any run of the server
  job,        \* for each process, the persist_save it is in
  disk,       \* what each file holds: the version of each piece
  path,       \* the file named <path>
  tmp,        \* the file named <path>.tmp
  lastsave,   \* the version held when g_lastsave_time was last set, or 0
  \* The history of the saves, which no step of the program reads:
  good,       \* the version of the last save that succeeded, or 0
  clean,      \* no other save was using <path>.tmp while that one did
  heir,       \* that save is part of the running server's past: it loaded
              \* it, or the save was its own
  met,        \* saves that another has used <path>.tmp at the same time as
  late,       \* saves that another has overtaken since they were asked for,
              \* or that were asked of a server that was no heir
  orphans     \* saves whose server is no more

server == <<mode, data, latest, lastsave>>
files  == <<disk, path, tmp>>
past   == <<good, clean, heir, met, late, orphans>>
vars   == <<server, job, files, past>>

Procs    == Children \cup {Server}
Versions == 0 .. MaxVersion
Hole     == MaxVersion + 1   \* a piece of a file that nobody wrote

Idle        == [at |-> "idle", image |-> 0, fd |-> NoFile, off |-> 0]
Starting(v) == [at |-> "open", image |-> v, fd |-> NoFile, off |-> 0]
Image(v)    == [i \in 1 .. Chunks |-> v]

\* A file with piece i written over or beyond what it holds.
Put(f, i, v) ==
  [j \in 1 .. (IF i > Len(f) THEN i ELSE Len(f)) |->
     IF j = i THEN v ELSE IF j <= Len(f) THEN f[j] ELSE Hole]

Init ==
  /\ mode = "up" /\ data = 0 /\ latest = 0 /\ lastsave = 0
  /\ job = [p \in Procs |-> Idle]
  /\ disk = [i \in Inodes |-> <<>>]
  /\ path = NoFile /\ tmp = NoFile
  /\ good = 0 /\ clean = TRUE /\ heir = TRUE
  /\ met = {} /\ late = {} /\ orphans = {}
-----------------------------------------------------------------------------
\* What the steps below add to the history.

Saving == {p \in Procs : job[p].at # "idle"}

\* Between fopen and the end of rename or remove.
Using  == {p \in Procs : job[p].at \in {"write", "rename", "remove"}}

Asked(p) ==
  /\ late' = IF heir THEN late ELSE late \cup {p}
  /\ UNCHANGED <<good, clean, heir, met, orphans>>

Opens(p) ==
  /\ met' = IF Using = {} THEN met ELSE met \cup Using \cup {p}
  /\ UNCHANGED <<good, clean, heir, late, orphans>>

Ended(p) ==
  /\ met' = met \ {p} /\ late' = late \ {p} /\ orphans' = orphans \ {p}
  /\ UNCHANGED <<good, clean, heir>>

Succeeded(p) ==
  /\ good' = job[p].image /\ clean' = (p \notin met) /\ heir' = (p \notin orphans)
  /\ met' = met \ {p} /\ late' = Saving \ {p} /\ orphans' = orphans \ {p}

Restarted ==
  /\ heir' = clean /\ orphans' = Saving
  /\ UNCHANGED <<good, clean, met, late>>
-----------------------------------------------------------------------------
\* The server runs one command at a time: it is not in a save of its own.
Serving == mode = "up" /\ job[Server].at = "idle"

Change ==
  /\ Serving
  /\ latest < MaxVersion
  /\ latest' = latest + 1
  /\ data' = latest + 1
  /\ UNCHANGED <<mode, lastsave, job, files, past>>

cmd_save ==
  /\ Serving
  /\ job' = [job EXCEPT ![Server] = Starting(data)]
  /\ Asked(Server)
  /\ UNCHANGED <<server, files>>

\* The child has a copy of the store as it is now; the parent sets
\* g_lastsave_time and goes on.
cmd_bgsave(c) ==
  /\ Serving
  /\ job[c].at = "idle"
  /\ job' = [job EXCEPT ![c] = Starting(data)]
  /\ lastsave' = data
  /\ Asked(c)
  /\ UNCHANGED <<mode, data, latest, files>>

\* Mutant of Shutdown: the store is destroyed before it is saved.
ShutdownDestroyed ==
  /\ Serving
  /\ mode' = "stopping"
  /\ job' = [job EXCEPT ![Server] = Starting(0)]
  /\ Asked(Server)
  /\ UNCHANGED <<data, latest, lastsave, files>>

\* SIGINT or SIGTERM has ended the loop that serves clients.
Shutdown ==
  /\ Serving
  /\ mode' = "stopping"
  /\ job' = [job EXCEPT ![Server] = Starting(data)]
  /\ Asked(Server)
  /\ UNCHANGED <<data, latest, lastsave, files>>

\* Mutant of Loaded: <path>.tmp is preferred when it looks whole.
LoadedTmp ==
  LET f == IF tmp # NoFile /\ Len(disk[tmp]) = Chunks THEN tmp ELSE path IN
  IF f # NoFile /\ \E v \in Versions : disk[f] = Image(v) THEN disk[f][1] ELSE 0

\* A start of the server, which loads what <path> holds if that is whole.
Loaded ==
  IF path # NoFile /\ \E v \in Versions : disk[path] = Image(v)
  THEN disk[path][1] ELSE 0

\* Children of the server before may still be saving.
Boot ==
  /\ mode = "down"
  /\ mode' = "up"
  /\ data' = Loaded
  /\ lastsave' = 0
  /\ Restarted
  /\ UNCHANGED <<latest, job, files>>
-----------------------------------------------------------------------------
\* persist_save, in process p.

\* It goes on to place a, with f open and n pieces written.
To(p, a, f, n) ==
  job' = [job EXCEPT ![p] = [at |-> a, image |-> job[p].image,
                             fd |-> f, off |-> n]]

\* It returns: a child exits, the server replies or ends.
Return(p, ok) ==
  /\ job' = [job EXCEPT ![p] = Idle]
  /\ mode' = IF p = Server /\ mode = "stopping" THEN "down" ELSE mode
  /\ lastsave' = IF p = Server /\ mode = "up" /\ ok THEN data ELSE lastsave
  /\ UNCHANGED <<data, latest>>

\* fopen(tmppath, "wb"): a new file, or the one there cut to nothing.
Open(p) ==
  /\ job[p].at = "open"
  /\ \E i \in Inodes :
       /\ IF tmp = NoFile
          THEN i # path /\ \A q \in Procs : job[q].fd # i
          ELSE i = tmp
       /\ tmp' = i
       /\ disk' = [disk EXCEPT ![i] = <<>>]
       /\ To(p, "write", i, 0)
  /\ Opens(p)
  /\ UNCHANGED <<server, path>>

OpenFails(p) ==
  /\ job[p].at = "open"
  /\ Return(p, FALSE)
  /\ Ended(p)
  /\ UNCHANGED files

\* Mutant of Write: one piece more than there is.
WriteOneMore(p) ==
  LET n == job[p].off + 1 IN
  /\ job[p].at = "write"
  /\ disk' = [disk EXCEPT ![job[p].fd] = Put(@, n, job[p].image)]
  /\ IF n <= Chunks THEN To(p, "write", job[p].fd, n) ELSE To(p, "rename", NoFile, 0)
  /\ UNCHANGED <<server, path, tmp, past>>

\* One of the writes that fwrite and fflush make, each at the place where
\* p's last one ended; fclose after the last.
Write(p) ==
  LET n == job[p].off + 1 IN
  /\ job[p].at = "write"
  /\ disk' = [disk EXCEPT ![job[p].fd] = Put(@, n, job[p].image)]
  /\ IF n < Chunks THEN To(p, "write", job[p].fd, n) ELSE To(p, "rename", NoFile, 0)
  /\ UNCHANGED <<server, path, tmp, past>>

\* Mutant of WriteFails: the result of fwrite is not looked at.
WriteFailsUnseen(p) ==
  /\ job[p].at = "write"
  /\ To(p, "rename", NoFile, 0)
  /\ UNCHANGED <<server, files, past>>

WriteFails(p) ==
  /\ job[p].at = "write"
  /\ To(p, "remove", NoFile, 0)
  /\ UNCHANGED <<server, files, past>>

Rename(p) ==
  /\ job[p].at = "rename"
  /\ tmp # NoFile
  /\ path' = tmp
  /\ tmp' = NoFile
  /\ Return(p, TRUE)
  /\ Succeeded(p)
  /\ UNCHANGED disk

\* In particular when another save has taken <path>.tmp away.
RenameFails(p) ==
  /\ job[p].at = "rename"
  /\ To(p, "remove", NoFile, 0)
  /\ UNCHANGED <<server, files, past>>

Remove(p) ==
  /\ job[p].at = "remove"
  /\ tmp' = NoFile
  /\ Return(p, FALSE)
  /\ Ended(p)
  /\ UNCHANGED <<disk, path>>
-----------------------------------------------------------------------------
\* A process is killed where it stands; what it has written stays.
Crash ==
  /\ mode # "down"
  /\ mode' = "down"
  /\ job' = [job EXCEPT ![Server] = Idle]
  /\ Ended(Server)
  /\ UNCHANGED <<data, latest, lastsave, files>>

ChildCrash(c) ==
  /\ job[c].at # "idle"
  /\ job' = [job EXCEPT ![c] = Idle]
  /\ Ended(c)
  /\ UNCHANGED <<server, files>>

SaveStep(p) ==
  \/ Open(p) \/ OpenFails(p)
  \/ Write(p) \/ WriteFails(p)
  \/ Rename(p) \/ RenameFails(p)
  \/ Remove(p)

Next ==
  \/ Change \/ cmd_save \/ Shutdown \/ Boot \/ Crash
  \/ \E c \in Children : cmd_bgsave(c) \/ ChildCrash(c)
  \/ \E p \in Procs : SaveStep(p)

Spec == Init /\ [][Next]_vars
-----------------------------------------------------------------------------
(* Type correctness. *)
TypeOK ==
  /\ mode \in {"up", "stopping", "down"}
  /\ data \in Versions /\ latest \in Versions /\ lastsave \in Versions
  /\ good \in Versions /\ clean \in BOOLEAN /\ heir \in BOOLEAN
  /\ met \subseteq Procs /\ late \subseteq Procs /\ orphans \subseteq Procs
  /\ job \in [Procs -> [at : {"idle", "open", "write", "rename", "remove"},
                        image : Versions, fd : Inodes \cup {NoFile},
                        off : 0 .. Chunks - 1]]
  /\ disk \in [Inodes -> Seq(Versions \cup {Hole})]
  /\ path \in Inodes \cup {NoFile} /\ tmp \in Inodes \cup {NoFile}

(* "A crash mid-save therefore never corrupts the last good snapshot"      *)
(* (persist.h): whatever saves have failed or died since, and wherever,    *)
(* <path> is the whole snapshot that the last successful save wrote, and   *)
(* is missing only if there has been none.                                 *)
LastGoodIntact ==
  IF path = NoFile THEN good = 0 ELSE disk[path] = Image(good)

(* The same of every save that had <path>.tmp to itself from its fopen to  *)
(* its rename (persist_save), whatever saves were asked for before, after  *)
(* or meanwhile: <path> is whole until another save succeeds, and a save   *)
(* of this kind makes good what overlapping ones have spoilt.              *)
CleanIntact == clean => LastGoodIntact

(* A snapshot is replaced by an older one only by a save that is late.     *)
(* cmd_bgsave's children save when they get to it: a child that is passed  *)
(* by a newer SAVE, or by the save of its server's shutdown, puts back the *)
(* older data, and so does a server that was started before the child of   *)
(* its predecessor was done.  No other save does.                          *)
OlderOnlyIfLate ==
  [][\A p \in Procs : Rename(p) /\ p \notin late => good' >= good]_vars

(* What the next start loads is what the last successful save wrote, also  *)
(* when children of the server before are still saving, provided that save *)
(* had <path>.tmp to itself (persist_load in main of either server).       *)
RestartKeepsSaved == [][Boot /\ clean => data' = good]_vars
=============================================================================
