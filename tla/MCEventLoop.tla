---------------------------- MODULE MCEventLoop ----------------------------
(* Instances of EventLoop for TLC. *)
EXTENDS EventLoop

CONSTANTS c1, c2, f1

MCOneClient == {c1}
MCClients   == {c1, c2}
MCFds       == {f1}

\* The first client sends several commands, commands in parts, more than
\* the input buffer takes, or breaks the protocol before or after a
\* command; the second only connects.
MCScripts ==
  [c \in Clients |->
     IF c = c1
     THEN {<<"cmd", "cmd", "cmd">>, <<"part", "cmd", "part", "cmd">>,
           <<"part", "part", "part">>, <<"cmd", "bad", "cmd">>}
     ELSE {<<>>}]

MCPipelined == [c \in Clients |-> {<<"cmd", "cmd", "cmd">>}]
=============================================================================
