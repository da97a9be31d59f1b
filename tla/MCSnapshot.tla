----------------------------- MODULE MCSnapshot -----------------------------
(* Instances of Snapshot for TLC. *)
EXTENDS Snapshot, TLC

CONSTANTS srv, c1, i1, i2, i3, none

MCChildren == {c1}
MCInodes   == {i1, i2, i3}
MCSymmetry == Permutations(MCInodes)

\* No action reads g_lastsave_time, or a file that has no name and is not open.
InUse(i) == i \in {path, tmp} \cup {job[p].fd : p \in Procs}
MCView   == <<mode, data, latest, job, path, tmp, past,
              [i \in Inodes |-> IF InUse(i) THEN disk[i] ELSE <<>>]>>
=============================================================================
