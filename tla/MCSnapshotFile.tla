--------------------------- MODULE MCSnapshotFile ---------------------------
(***************************************************************************)
(* Values for the constants of SnapshotFile: bytes of 2 bits and numbers   *)
(* of two bytes, so lengths, deadlines and sums carry from one to the      *)
(* other.                                                                  *)
(***************************************************************************)
EXTENDS SnapshotFile

MCMagic  == <<3, 1>>
MCKeys   == {<<>>, <<1>>}
MCValues == {<<2>>, <<0, 3, 1, 2>>}
MCTimes  == {1, 2, 5}

\* While the server is up nothing reads the old snapshot or what it was made
\* of, and no action reads what the last load returned.
MCView == <<up, entries, now, IF up THEN <<>> ELSE <<file, harm, saved>>>>
=============================================================================
