------------------------------- MODULE MCCmd --------------------------------
(***************************************************************************)
(* Values for the constants of Cmd: two keys that share every bucket and a *)
(* 4-bit int64.  Every command is sent, with arguments that each of its    *)
(* tests accepts and refuses.  Only key "a" holds numbers.                 *)
(***************************************************************************)
EXTENDS Cmd, TLC

MCKeys == {"a", "b"}
MCHash == [a |-> 3, b |-> 3]
MCMin  == -8

MCNumbers == {"-8", "-7", "-6", "-5", "-4", "-3", "-2", "-1",
              "0", "1", "2", "3", "4", "5", "6", "7"}
MCFormat  == [n \in MCMin .. 7 |-> ToString(n)]
MCParse   == [v \in MCNumbers |-> CHOOSE n \in MCMin .. 7 : ToString(n) = v]
MCValues  == MCNumbers \cup {"x"}

\* Answered without a change to the store, or refused.
MCPlain ==
  {<<>>, <<"NOPE">>, <<"PING">>, <<"PING", "x">>, <<"PING", "x", "x">>,
   <<"ECHO">>, <<"ECHO", "x">>, <<"SET", "a">>, <<"SET", "a", "x", "EX">>,
   <<"SET", "a", "x", "NX", "1">>, <<"SET", "a", "x", "EX", "0">>,
   <<"SET", "a", "x", "PX", "x">>, <<"GET">>, <<"EXPIRE", "a">>,
   <<"EXPIRE", "a", "x">>, <<"TTL">>, <<"INCR">>, <<"DECR">>,
   <<"INCRBY", "a">>, <<"INCRBY", "a", "x">>, <<"DECRBY", "a", "-8">>,
   <<"DBSIZE">>, <<"DBSIZE", "x">>, <<"FLUSHDB", "x">>, <<"SAVE">>,
   <<"SAVE", "x">>, <<"BGSAVE">>, <<"BGSAVE", "x">>, <<"LASTSAVE">>,
   <<"LASTSAVE", "x">>, <<"KEYS">>, <<"KEYS", "a">>, <<"KEYS", "*">>,
   <<"DEL">>, <<"EXISTS">>, <<"MGET">>, <<"MSET", "a">>,
   <<"MSET", "a", "x", "b">>}

MCOneKey ==
  {<<"SET", "a", "6">>, <<"SET", "a", "6", "EX", "1">>, <<"set", "b", "x">>,
   <<"SET", "b", "x", "px", "1">>, <<"GET", "a">>, <<"GET", "b">>,
   <<"EXPIRE", "a", "1">>, <<"EXPIRE", "b", "-3">>, <<"TTL", "a">>,
   <<"PTTL", "b">>, <<"INCR", "a">>, <<"DECR", "a">>, <<"INCRBY", "a", "7">>,
   <<"DECRBY", "a", "7">>, <<"SET", "a", "x">>, <<"FLUSHDB">>}

MCLoops ==
  {<<"DEL", "b", "a", "b">>, <<"EXISTS", "a", "b", "a">>,
   <<"MGET", "a", "b">>, <<"MSET", "a", "x", "b", "x", "a", "6">>}

MCCommands == MCPlain \cup MCOneKey \cup MCLoops

\* A number of seconds whose milliseconds the int64 cannot hold.
MCFar == {<<"SET", "a", "x", "EX", "4">>, <<"PTTL", "a">>, <<"SAVE">>}

MCUpper(w) == CASE w = "set" -> "SET" [] w = "px" -> "PX" [] OTHER -> w

MCTimes == 1 .. 3

\* No action reads the reply of a command that is over, or the time of the
\* last save: they are checked on the step that sets them.
MCView == <<s, now, cmd, due, IF cmd = Idle THEN <<>> ELSE out.items>>
=============================================================================
