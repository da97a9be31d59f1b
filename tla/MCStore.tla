------------------------------ MODULE MCStore ------------------------------
(***************************************************************************)
(* Values for the constants of Store.  MCHash makes two keys collide in    *)
(* every table and others only in the small ones, so a growth splits some  *)
(* chains and not others, and leaves empty buckets for a step to skip.     *)
(***************************************************************************)
EXTENDS Store

MCKeys == {"a", "b", "c", "d", "e"}
MCHash == [a |-> 3, b |-> 3, c |-> 1, d |-> 7, e |-> 2]

\* One string that reads as a number, of an int64 that holds zero only.
MCOneParse  == [v \in {"0"} |-> 0]
MCOneFormat == [n \in 0 .. 0 |-> "0"]

MCTimes == 1 .. 2

\* No action reads `ret', so states that differ only in it have the same
\* successors; what a call returns is checked on its step.
MCView == <<s, now>>
=============================================================================
