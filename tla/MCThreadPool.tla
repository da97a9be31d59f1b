---------------------------- MODULE MCThreadPool ----------------------------
(* Instances of ThreadPool for TLC. *)
EXTENDS ThreadPool, TLC

CONSTANTS c1, c2, c3, w1, w2

MCTwoConns   == {c1, c2}
MCThreeConns == {c1, c2, c3}
MCWorkers    == {w1, w2}

\* Each client sends a command or breaks the protocol.
MCOneUnit    == [c \in Conns |-> {<<"cmd">>, <<"bad">>}]

\* One client sends several commands, a command in parts, more than the
\* input buffer takes, or bad input behind a command; the other only
\* connects.
MCScripts    ==
  [c \in Conns |->
     IF c = c1 THEN {<<"cmd", "part", "cmd">>, <<"cmd", "cmd", "bad">>,
                     <<"part", "part", "part">>}
     ELSE {<<>>}]

MCSymmetry   == Permutations(MCWorkers) \cup Permutations(MCThreeConns)
=============================================================================
