----------------------------- MODULE EventLoop -----------------------------
(***************************************************************************)
(* src/server.c: the epoll loop that serves every connection from one      *)
(* thread.  A step of the loop is one system call and the code up to the   *)
(* next one; clients, the network and signals act between any two.         *)
(*                                                                         *)
(* What a client sends is a sequence of units: "cmd" ends a command,       *)
(* "part" is input that does not end one, "bad" breaks the protocol.  A    *)
(* reply is one unit, "ok" or "err".                                       *)
(***************************************************************************)
EXTENDS Integers, Sequences, FiniteSets, FiniteSetsExt

CONSTANTS
  Clients,              \* the connections clients make
  Fds,                  \* the descriptors the server may have for them
  Listen,               \* the listening socket
  Null,                 \* no connection
  READ_CHUNK,           \* units one read() may return; 16384 bytes in the code
  MAX_CONN_INPUT_BUF,   \* units of unparsed input; 16 MiB in the code
  MAX_EVENTS,           \* events one epoll_wait may return; 64 in the code
  SendBuf,              \* units the kernel holds for a client to receive
  Scripts               \* for each client, what it may have to send

ASSUME LoopAssumption ==
  /\ IsFiniteSet(Fds) /\ Listen \notin Fds /\ Null \notin Clients
  /\ READ_CHUNK \in Nat \ {0} /\ MAX_EVENTS \in Nat \ {0} /\ SendBuf \in Nat \ {0}
  /\ MAX_CONN_INPUT_BUF \in Nat
  /\ Scripts \in [Clients -> SUBSET Seq({"cmd", "part", "bad"})]

VARIABLES
  flag,      \* g_shutdown_requested
  loop,      \* where the loop is, the events left of the last epoll_wait,
             \* and of the event being handled the fd and what is left of it
  backlog,   \* connections the kernel holds for accept4
  g_conns,   \* for each fd its conn_t, or Null
  sock       \* for each connection, the kernel's and the client's side

vars == <<flag, loop, backlog, g_conns, sock>>

Free       == [who |-> Null]
NewConn(c) == [who |-> c, in |-> <<>>, out |-> <<>>, out_sent |-> 0,
               closing |-> FALSE, want_write |-> FALSE]

Init ==
  /\ flag = FALSE
  /\ loop = [at |-> "check", batch |-> <<>>, fd |-> Listen, ev |-> {}]
  /\ backlog = <<>>
  /\ g_conns = [f \in Fds |-> Free]
  /\ sock = [c \in Clients |->
       [net |-> "new",      \* then "backlog", "open", "closed" by the server
        peer |-> "here",    \* "half": sends no more; "gone": closed; "reset"
        sent |-> <<>>,      \* sent and not read by the server yet
        todo |-> <<>>,      \* still to be sent
        wbuf |-> 0,         \* written by the server and not received yet
        asked |-> 0,        \* commands sent
        done |-> 0,         \* commands dispatched
        wrote |-> 0]]       \* their replies handed to the kernel

Present(f) == g_conns[f].who # Null
Peer(f)    == sock[g_conns[f].who]
-----------------------------------------------------------------------------
\* Clients, the network and signals.

Connect(c) ==
  /\ sock[c].net = "new" /\ loop.at # "exited"
  /\ \E s \in Scripts[c] : sock' = [sock EXCEPT ![c].net = "backlog", ![c].todo = s]
  /\ backlog' = Append(backlog, c)
  /\ UNCHANGED <<flag, loop, g_conns>>

Connected(c) == sock[c].net \in {"backlog", "open"}

Send(c) ==
  /\ Connected(c) /\ sock[c].peer = "here" /\ sock[c].todo # <<>>
  /\ LET u == Head(sock[c].todo) IN
       sock' = [sock EXCEPT ![c].sent = Append(@, u), ![c].todo = Tail(@),
                            ![c].asked = IF u = "cmd" THEN @ + 1 ELSE @]
  /\ UNCHANGED <<flag, loop, backlog, g_conns>>

Receive(c) ==
  /\ sock[c].wbuf > 0 /\ sock[c].peer \in {"here", "half"}
  /\ sock' = [sock EXCEPT ![c].wbuf = @ - 1]
  /\ UNCHANGED <<flag, loop, backlog, g_conns>>

\* The client ends its side only, closes, or its host resets the connection
\* it has closed.
Leave(c) ==
  /\ Connected(c)
  /\ \/ sock[c].peer = "here" /\ sock' = [sock EXCEPT ![c].peer = "half"]
     \/ sock[c].peer \in {"here", "half"} /\ sock' = [sock EXCEPT ![c].peer = "gone"]
  /\ UNCHANGED <<flag, loop, backlog, g_conns>>

Reset(c) ==
  /\ Connected(c) /\ sock[c].peer = "gone"
  /\ sock' = [sock EXCEPT ![c].peer = "reset"]
  /\ UNCHANGED <<flag, loop, backlog, g_conns>>

\* A signal ends an epoll_wait that is blocking (EINTR), and no other; the
\* first may come before it blocks and a second end it.
on_shutdown_signal ==
  /\ flag' = TRUE
  /\ loop' = [loop EXCEPT !.at = IF @ = "wait" THEN "check" ELSE @]
  /\ UNCHANGED <<backlog, g_conns, sock>>
-----------------------------------------------------------------------------
\* The loop.

\* Mutant of conn_close: the entry of g_conns is left.
conn_closeDangling(f) ==
  /\ sock' = [sock EXCEPT ![g_conns[f].who].net = "closed"]
  /\ UNCHANGED g_conns

\* conn_close, of the connection of fd f.
conn_close(f) ==
  /\ g_conns' = [g_conns EXCEPT ![f] = Free]
  /\ sock' = [sock EXCEPT ![g_conns[f].who].net = "closed"]

\* The test of the flag: shutdown_cleanly closes everything, or epoll_wait
\* is called, which a signal before it blocks does not end.
CheckShutdown ==
  /\ loop.at = "check"
  /\ IF flag
     THEN /\ loop' = [loop EXCEPT !.at = "exited"]
          /\ g_conns' = [f \in Fds |-> Free]
          /\ sock' = [c \in Clients |-> IF Connected(c)
                                        THEN [sock[c] EXCEPT !.net = "closed"]
                                        ELSE sock[c]]
          /\ backlog' = <<>>
     ELSE /\ loop' = [loop EXCEPT !.at = "enter"]
          /\ UNCHANGED <<g_conns, sock, backlog>>
  /\ UNCHANGED flag

Block ==
  /\ loop.at = "enter"
  /\ loop' = [loop EXCEPT !.at = "wait"]
  /\ UNCHANGED <<flag, backlog, g_conns, sock>>

\* Mutant of Readable: EPOLLIN is not asked for while input is held.
ReadableIdle(f) ==
  g_conns[f].in = <<>> /\ (Peer(f).sent # <<>> \/ Peer(f).peer # "here")

Readable(f) == Peer(f).sent # <<>> \/ Peer(f).peer # "here"

\* What epoll, which is level-triggered, has to report of a connection.
Events(f) ==
  {e \in {"in", "out", "hup"} :
     \/ e = "in"  /\ Readable(f)
     \/ e = "out" /\ g_conns[f].want_write
                  /\ (Peer(f).wbuf < SendBuf \/ Peer(f).peer = "reset")
     \/ e = "hup" /\ Peer(f).peer = "reset"}

Ready == {f \in Fds : Present(f) /\ Events(f) # {}}
           \cup {f \in {Listen} : backlog # <<>>}

\* As many of them as fit, in whatever order.
EpollWait ==
  /\ loop.at = "wait" /\ Ready # {}
  /\ \E S \in kSubset(Min({MAX_EVENTS, Cardinality(Ready)}), Ready) :
       \E fds \in Injection(1 .. Cardinality(S), S) :
         loop' = [loop EXCEPT !.at = "next",
                    !.batch = [i \in DOMAIN fds |->
                      IF fds[i] = Listen
                      THEN [fd |-> Listen, who |-> Null, ev |-> {"in"}]
                      ELSE [fd |-> fds[i], who |-> g_conns[fds[i]].who,
                            ev |-> Events(fds[i])]]]
  /\ UNCHANGED <<flag, backlog, g_conns, sock>>

\* The body of the loop over the events, up to its first system call.  A
\* connection that is not there any more is passed over.
NextEvent ==
  LET e        == Head(loop.batch)
      Go(a, l) == loop' = [at |-> a, batch |-> Tail(loop.batch), fd |-> e.fd, ev |-> l]
  IN
  /\ loop.at = "next" /\ loop.batch # <<>>
  /\ \/ /\ e.fd = Listen
        /\ Go("accept", {}) /\ UNCHANGED <<g_conns, sock>>
     \/ /\ e.fd # Listen /\ ("hup" \in e.ev \/ ~Present(e.fd))
        /\ Go("next", {})
        /\ IF Present(e.fd) THEN conn_close(e.fd) ELSE UNCHANGED <<g_conns, sock>>
     \/ /\ e.fd # Listen /\ "hup" \notin e.ev /\ Present(e.fd)
        /\ IF "in" \in e.ev THEN Go("read", e.ev \ {"in"}) ELSE Go("flush", {})
        /\ UNCHANGED <<g_conns, sock>>
  /\ UNCHANGED <<flag, backlog>>

BatchDone ==
  /\ loop.at = "next" /\ loop.batch = <<>>
  /\ loop' = [loop EXCEPT !.at = "check"]
  /\ UNCHANGED <<flag, backlog, g_conns, sock>>

\* Mutant of Accept: when descriptors run out another connection is closed
\* for the new one.
AcceptEvicts ==
  /\ loop.at = "accept" /\ backlog # <<>>
  /\ backlog' = Tail(backlog)
  /\ \E f \in Fds :
       /\ ~Present(f) \/ \A g \in Fds : Present(g)
       /\ g_conns' = [g_conns EXCEPT ![f] = NewConn(Head(backlog))]
       /\ sock' = [c \in Clients |->
                     IF c = Head(backlog) THEN [sock[c] EXCEPT !.net = "open"]
                     ELSE IF c = g_conns[f].who THEN [sock[c] EXCEPT !.net = "closed"]
                     ELSE sock[c]]
  /\ UNCHANGED <<flag, loop>>

\* handle_listen_readable: connections are accepted until accept4 fails.
Accept ==
  /\ loop.at = "accept" /\ backlog # <<>>
  /\ backlog' = Tail(backlog)
  /\ \/ \E f \in Fds :
          /\ ~Present(f)
          /\ g_conns' = [g_conns EXCEPT ![f] = NewConn(Head(backlog))]
          /\ sock' = [sock EXCEPT ![Head(backlog)].net = "open"]
     \* epoll_ctl fails to add it.
     \/ /\ \E f \in Fds : ~Present(f)
        /\ sock' = [sock EXCEPT ![Head(backlog)].net = "closed"]
        /\ UNCHANGED g_conns
  /\ UNCHANGED <<flag, loop>>

\* Mutant of AcceptEnds: accept4 is tried again when it fails.
AcceptEndsNever ==
  /\ loop.at = "accept"
  /\ backlog = <<>>
  /\ loop' = [loop EXCEPT !.at = "next"]
  /\ UNCHANGED <<flag, backlog, g_conns, sock>>

\* No connection is left, no descriptor (EMFILE, ENFILE), or another error.
AcceptEnds ==
  /\ loop.at = "accept"
  /\ loop' = [loop EXCEPT !.at = "next"]
  /\ UNCHANGED <<flag, backlog, g_conns, sock>>
-----------------------------------------------------------------------------
\* handle_client_readable and conn_service_output, for loop.fd.

\* How many u there are in seq, from one place to another.
Count(seq, u, from, to) == Cardinality({i \in from .. to : seq[i] = u})

\* The places of the units of U in the input.
Places(in, U) == {i \in DOMAIN in : in[i] \in U}

\* The input before the first of it that is bad.
Valid(in) == LET bad == Places(in, {"bad"})
             IN  IF bad = {} THEN in ELSE SubSeq(in, 1, Min(bad) - 1)

\* Mutant of conn_process_input: one command is taken, the rest is left.
conn_process_inputOne(c) ==
  LET k == Min(Places(c.in, {"cmd", "bad"})) IN
  IF Places(c.in, {"cmd", "bad"}) = {} \/ c.closing THEN [conn |-> c, done |-> 0]
  ELSE IF c.in[k] = "bad"
  THEN [conn |-> [c EXCEPT !.out = Append(@, "err"), !.closing = TRUE], done |-> 0]
  ELSE [conn |-> [c EXCEPT !.in = SubSeq(@, k + 1, Len(@)), !.out = Append(@, "ok")],
        done |-> 1]

\* What becomes of connection c, and how many commands are done for it.  A
\* command leaves the input when it is done; bad input never does.
conn_process_input(c) ==
  LET good == Valid(c.in)
      last == Max({0} \cup Places(good, {"cmd"}))
      n    == Count(good, "cmd", 1, Len(good))
      bad  == good # c.in
  IN  IF c.closing THEN [conn |-> c, done |-> 0]
      ELSE [conn |-> [c EXCEPT !.in = SubSeq(@, last + 1, Len(@)),
                               !.out = @ \o [i \in 1 .. n |-> "ok"]
                                         \o (IF bad THEN <<"err">> ELSE <<>>),
                               !.closing = bad],
            done |-> n]

\* The end of the reading, with connection c as it has left it and r as what
\* it has left unread.
Process(c, r) ==
  LET p == conn_process_input(c) IN
  /\ loop' = [loop EXCEPT !.at = "flush"]
  /\ g_conns' = [g_conns EXCEPT ![loop.fd] = p.conn]
  /\ sock' = [sock EXCEPT ![c.who].sent = r, ![c.who].done = @ + p.done]

\* read() has data.
Read ==
  LET c == g_conns[loop.fd]
      x == Peer(loop.fd).sent
      n == Min({READ_CHUNK, Len(x)})
      r == SubSeq(x, n + 1, Len(x))
      d == [c EXCEPT !.in = @ \o SubSeq(x, 1, n)]
  IN
  /\ loop.at = "read" /\ x # <<>> /\ Peer(loop.fd).peer # "reset"
  /\ \/ /\ Len(d.in) > MAX_CONN_INPUT_BUF
        /\ Process([c EXCEPT !.out = Append(@, "err"), !.closing = TRUE], r)
     \/ /\ Len(d.in) <= MAX_CONN_INPUT_BUF /\ n < READ_CHUNK
        /\ Process(d, r)
     \/ /\ Len(d.in) <= MAX_CONN_INPUT_BUF /\ n = READ_CHUNK
        /\ g_conns' = [g_conns EXCEPT ![loop.fd] = d]
        /\ sock' = [sock EXCEPT ![c.who].sent = r]
        /\ UNCHANGED loop
  /\ UNCHANGED <<flag, backlog>>

\* read() would block.
ReadBlocks ==
  /\ loop.at = "read" /\ Peer(loop.fd).sent = <<>> /\ Peer(loop.fd).peer = "here"
  /\ Process(g_conns[loop.fd], <<>>)
  /\ UNCHANGED <<flag, backlog>>

\* read() returns 0 or fails.
ReadEnds ==
  /\ loop.at = "read"
  /\ \/ Peer(loop.fd).sent = <<>> /\ Peer(loop.fd).peer \in {"half", "gone"}
     \/ Peer(loop.fd).peer = "reset"
  /\ conn_close(loop.fd)
  /\ loop' = [loop EXCEPT !.at = "next"]
  /\ UNCHANGED <<flag, backlog>>

\* Where an event that is readable and writable goes on.
Serviced == loop' = IF "out" \in loop.ev THEN [loop EXCEPT !.ev = {}]
                    ELSE [loop EXCEPT !.at = "next"]

\* Mutant of Advance: a write that took a part is taken for a whole one.
AdvanceWhole(c, n) == [c EXCEPT !.out_sent = Len(c.out)]

\* n units more have been written.
Advance(c, n) == [c EXCEPT !.out_sent = @ + n]

\* One write() of conn_flush_output, taken in full or in part.
Write ==
  LET c == g_conns[loop.fd]
      n == Min({SendBuf - Peer(loop.fd).wbuf, Len(c.out) - c.out_sent})
  IN
  /\ loop.at = "flush" /\ n > 0 /\ Peer(loop.fd).peer # "reset"
  /\ g_conns' = [g_conns EXCEPT ![loop.fd] = Advance(c, n)]
  /\ sock' = [sock EXCEPT ![c.who].wbuf = @ + n,
                 ![c.who].wrote = @ + Count(c.out, "ok", c.out_sent + 1,
                                            c.out_sent + n)]
  /\ UNCHANGED <<flag, loop, backlog>>

\* Mutant of Armed: EPOLLOUT is not armed.
ArmedNot(c) == c

Armed(c) == [c EXCEPT !.want_write = TRUE]

\* The socket takes no more: EPOLLOUT is armed.
WriteBlocks ==
  LET c == g_conns[loop.fd] IN
  /\ loop.at = "flush" /\ Peer(loop.fd).peer # "reset"
  /\ c.out_sent < Len(c.out) /\ Peer(loop.fd).wbuf = SendBuf
  /\ g_conns' = [g_conns EXCEPT ![loop.fd] = Armed(c)]
  /\ Serviced
  /\ UNCHANGED <<flag, backlog, sock>>

\* Mutant of Emptied: out_sent is not set back.
EmptiedUnreset(c) == [c EXCEPT !.out = <<>>, !.want_write = FALSE]

Emptied(c) == [c EXCEPT !.out = <<>>, !.out_sent = 0, !.want_write = FALSE]

\* Everything is out: a connection that is not closing waits for input,
\* a closing one is closed.
Flushed ==
  LET c == g_conns[loop.fd] IN
  /\ loop.at = "flush" /\ ~c.closing /\ c.out_sent = Len(c.out)
  /\ g_conns' = [g_conns EXCEPT ![loop.fd] = Emptied(c)]
  /\ Serviced
  /\ UNCHANGED <<flag, backlog, sock>>

CloseFlushed ==
  /\ loop.at = "flush"
  /\ IF g_conns[loop.fd].out_sent < Len(g_conns[loop.fd].out)
     THEN Peer(loop.fd).peer = "reset"
     ELSE g_conns[loop.fd].closing
  /\ conn_close(loop.fd)
  /\ loop' = [loop EXCEPT !.at = "next"]
  /\ UNCHANGED <<flag, backlog>>
-----------------------------------------------------------------------------
LoopStep ==
  \/ CheckShutdown \/ Block \/ EpollWait \/ NextEvent \/ BatchDone
  \/ Accept \/ AcceptEnds
  \/ Read \/ ReadBlocks \/ ReadEnds
  \/ Write \/ WriteBlocks \/ Flushed \/ CloseFlushed

Next ==
  \/ \E c \in Clients : Connect(c) \/ Send(c) \/ Receive(c) \/ Leave(c) \/ Reset(c)
  \/ on_shutdown_signal
  \/ LoopStep

Spec == Init /\ [][Next]_vars

\* The loop runs, clients receive what they are sent, and the network tells
\* the server in the end that a client has gone.
Fairness ==
  /\ WF_vars(LoopStep)
  /\ \A c \in Clients : WF_vars(Receive(c)) /\ WF_vars(Reset(c))

FairSpec == Spec /\ Fairness
-----------------------------------------------------------------------------
Unit == {"cmd", "part", "bad"}

(* Type correctness; the input kept for a connection stays within its      *)
(* limit and no more is sent than there is.                                *)
TypeOK ==
  /\ flag \in BOOLEAN
  /\ loop.at \in {"check", "enter", "wait", "next", "accept", "read", "flush",
                  "exited"}
  /\ loop.fd \in Fds \cup {Listen} /\ loop.ev \subseteq {"out"}
  /\ \A i \in DOMAIN loop.batch :
       loop.batch[i] \in [fd : Fds \cup {Listen}, who : Clients \cup {Null},
                          ev : SUBSET {"in", "out", "hup"}]
  /\ backlog \in Seq(Clients)
  /\ \A f \in Fds : Present(f) =>
       /\ g_conns[f].who \in Clients
       /\ g_conns[f].in \in Seq(Unit) /\ Len(g_conns[f].in) <= MAX_CONN_INPUT_BUF
       /\ g_conns[f].out \in Seq({"ok", "err"})
       /\ g_conns[f].out_sent \in 0 .. Len(g_conns[f].out)
       /\ g_conns[f].closing \in BOOLEAN /\ g_conns[f].want_write \in BOOLEAN
  /\ sock \in [Clients -> [net : {"new", "backlog", "open", "closed"},
                           peer : {"here", "half", "gone", "reset"},
                           sent : Seq(Unit), todo : Seq(Unit), wbuf : 0 .. SendBuf,
                           asked : Nat, done : Nat, wrote : Nat]]

\* A connection no handler is at work on.
Waiting(f) == Present(f) /\ ~(loop.at \in {"read", "flush"} /\ loop.fd = f)

(* "A read or write that would block just gets revisited the next time     *)
(* epoll says the fd is ready" (server.c:9): epoll is asked to say so.     *)
(* EPOLLOUT is armed exactly while there is output left, so that none is   *)
(* stranded and the loop does not spin; and a connection marked for        *)
(* closing has output left, or nothing would ever close it.                *)
OutputArmed ==
  \A f \in Fds : Waiting(f) =>
    /\ g_conns[f].want_write <=> g_conns[f].out_sent < Len(g_conns[f].out)
    /\ g_conns[f].closing => g_conns[f].want_write

(* epoll watches the socket, not the input buffer: a whole command left in *)
(* the buffer would wait until its client sends something else.  None is,  *)
(* unless the connection is to be closed.                                  *)
NoCommandLeftBehind ==
  \A f \in Fds : Waiting(f) /\ ~g_conns[f].closing =>
    \A i \in DOMAIN g_conns[f].in : g_conns[f].in[i] = "part"

(* Each command done on a connection has one reply, in the kernel's hands  *)
(* or still queued, also when a write takes part of the queue and more     *)
(* replies are queued behind the rest.                                     *)
RepliesExact ==
  \A f \in Fds : Present(f) =>
    LET c == g_conns[f] IN
    sock[c.who].done
      = sock[c.who].wrote + Count(c.out, "ok", c.out_sent + 1, Len(c.out))

(* g_conns has each open connection once and no other: none leaks, and     *)
(* none is there after its conn_t has been freed.                          *)
TableExact ==
  \A c \in Clients :
    Cardinality({f \in Fds : g_conns[f].who = c})
      = IF sock[c].net = "open" THEN 1 ELSE 0

(* The events left of an epoll_wait are of the connections it reported,    *)
(* though handling the others may close connections and accept new ones    *)
(* under the same descriptors.                                             *)
FreshEvents ==
  \A i \in DOMAIN loop.batch :
    LET e == loop.batch[i] IN e.fd # Listen => g_conns[e.fd].who = e.who

(* Every command a connected client sends is answered, or the connection   *)
(* is closed: no event is waited for that will not come.                   *)
Answered ==
  \A c \in Clients :
    sock[c].net = "open" /\ sock[c].asked # sock[c].wrote
      ~> sock[c].net = "closed" \/ sock[c].asked = sock[c].wrote

(* A signal that interrupts epoll_wait, or comes while an event is being   *)
(* handled, ends the server, however many connections wait for descriptors *)
(* and whatever clients send; and so does one that slips in between the    *)
(* test of the flag and epoll_wait, once there is an event to report.      *)
SignalHeeded ==
  flag /\ (loop.at \notin {"enter", "wait"} \/ Ready # {}) ~> loop.at = "exited"

(* "Peer closed; any unflushed output is moot" (server.c:230): when read() *)
(* returns 0 to a client that still receives, there is no reply left that  *)
(* it has not been sent.                                                   *)
UnflushedIsMoot ==
  loop.at = "read" /\ Peer(loop.fd).sent = <<>> /\ Peer(loop.fd).peer = "half" =>
    /\ g_conns[loop.fd].out_sent = Len(g_conns[loop.fd].out)
    /\ \A i \in DOMAIN g_conns[loop.fd].in : g_conns[loop.fd].in[i] # "cmd"
=============================================================================
