----------------------------- MODULE ThreadPool -----------------------------
(***************************************************************************)
(* src/server_threaded.c: the main thread that accepts connections, the    *)
(* bounded queue it hands them over by, and the workers that each serve    *)
(* one connection to its end, down to the save made when all have gone.    *)
(*                                                                         *)
(* A stretch of code between locking and unlocking g_queue.mu is one step: *)
(* the mutex is held over nothing that blocks except pthread_cond_wait,    *)
(* which is a state of its own, left when the condition is signalled or    *)
(* for no reason.  Holding g_store_mu is a state too.                      *)
(*                                                                         *)
(* What a client sends is a sequence of units: "cmd" ends a command,       *)
(* "part" is input that does not end one, "bad" breaks the protocol.  All  *)
(* commands are the same: they add one to what the store holds.            *)
(***************************************************************************)
EXTENDS Integers, Sequences, FiniteSets, FiniteSetsExt

CONSTANTS
  Conns,            \* the connections clients make
  Workers,          \* the worker threads
  QUEUE_CAPACITY,   \* 512 in the code
  READ_CHUNK,       \* units one read() may return
  MAX_INPUT_BUF,    \* units of unparsed input one connection may have
  Scripts,          \* for each connection, what its client may have to send
  None              \* no connection, no thread

ASSUME PoolAssumption ==
  /\ IsFiniteSet(Workers) /\ Workers # {}
  /\ QUEUE_CAPACITY \in Nat \ {0}
  /\ READ_CHUNK \in Nat \ {0} /\ MAX_INPUT_BUF \in Nat
  /\ READ_CHUNK <= MAX_INPUT_BUF
  /\ None \notin Conns /\ None \notin Workers
  /\ Scripts \in [Conns -> SUBSET Seq({"cmd", "part", "bad"})]

VARIABLES
  flag,      \* g_shutdown
  main,      \* the main thread: where it is, the fd it has accepted
  backlog,   \* connections the kernel holds for accept
  q,         \* g_queue
  worker,    \* for each worker: where it is, its fd, its input buffer
  mu,        \* who holds g_store_mu
  store,     \* what g_store holds: the number of commands it has taken
  seen,      \* what the holder of g_store_mu has read of it
  total,     \* the commands done, on any connection
  conn,      \* for each connection: its state, what its client has still to
             \* send, has sent and is not read yet, whether the client has
             \* gone, the commands done for it, the replies it has been sent
  saved      \* what the save made at the end wrote, or -1

vars == <<flag, main, backlog, q, worker, mu, store, seen, total, conn, saved>>

Init ==
  /\ flag = FALSE
  /\ main = [at |-> "check", fd |-> None]
  /\ backlog = <<>>
  /\ q = [fds |-> [i \in 0 .. QUEUE_CAPACITY - 1 |-> None],
          head |-> 0, tail |-> 0, count |-> 0, shutdown |-> FALSE]
  /\ worker = [w \in Workers |-> [at |-> "pop", fd |-> None, in |-> <<>>]]
  /\ mu = None /\ store = 0 /\ seen = 0 /\ total = 0
  /\ conn = [c \in Conns |-> [net |-> "new", todo |-> <<>>, sent |-> <<>>,
                              gone |-> FALSE, done |-> 0, replies |-> 0]]
  /\ saved = -1

WorkersAt(place) == {w \in Workers : worker[w].at = place}
-----------------------------------------------------------------------------
\* Clients and signals.

Connect(c) ==
  /\ conn[c].net = "new" /\ main.at \notin {"save", "exited"}
  /\ \E s \in Scripts[c] : conn' = [conn EXCEPT ![c].net = "backlog", ![c].todo = s]
  /\ backlog' = Append(backlog, c)
  /\ UNCHANGED <<flag, main, q, worker, mu, store, seen, total, saved>>

Send(c) ==
  /\ conn[c].net \in {"backlog", "open"} /\ ~conn[c].gone /\ conn[c].todo # <<>>
  /\ conn' = [conn EXCEPT ![c].sent = Append(@, Head(conn[c].todo)),
                          ![c].todo = Tail(@)]
  /\ UNCHANGED <<flag, main, backlog, q, worker, mu, store, seen, total, saved>>

Hangup(c) ==
  /\ conn[c].net \in {"backlog", "open"} /\ ~conn[c].gone
  /\ conn' = [conn EXCEPT ![c].gone = TRUE]
  /\ UNCHANGED <<flag, main, backlog, q, worker, mu, store, seen, total, saved>>

on_signal ==
  /\ ~flag
  /\ flag' = TRUE
  /\ UNCHANGED <<main, backlog, q, worker, mu, store, seen, total, conn, saved>>
-----------------------------------------------------------------------------
\* The main thread.

CheckShutdown ==
  /\ main.at = "check"
  /\ main' = [main EXCEPT !.at = IF flag THEN "stop" ELSE "accept"]
  /\ UNCHANGED <<flag, backlog, q, worker, mu, store, seen, total, conn, saved>>

\* A signal does not end accept: signal() installs the handler with
\* SA_RESTART.
Accept ==
  /\ main.at = "accept" /\ backlog # <<>>
  /\ main' = [at |-> "push", fd |-> Head(backlog)]
  /\ backlog' = Tail(backlog)
  /\ conn' = [conn EXCEPT ![Head(backlog)].net = "open"]
  /\ UNCHANGED <<flag, q, worker, mu, store, seen, total, saved>>

\* Out of fds, and tried again; or an error that ends the loop.
AcceptFails ==
  /\ main.at = "accept"
  /\ main' \in {[main EXCEPT !.at = "check"], [main EXCEPT !.at = "stop"]}
  /\ UNCHANGED <<flag, backlog, q, worker, mu, store, seen, total, conn, saved>>

\* Mutant of SignalNotEmpty: only the push into an empty queue signals.
SignalWhenEmpty ==
  IF WorkersAt("empty") = {} \/ q.count > 0 THEN worker' = worker
  ELSE \E w \in WorkersAt("empty") : worker' = [worker EXCEPT ![w].at = "pop"]

\* pthread_cond_signal(&q->not_empty) wakes one of the workers that wait.
SignalNotEmpty ==
  IF WorkersAt("empty") = {} THEN worker' = worker
  ELSE \E w \in WorkersAt("empty") : worker' = [worker EXCEPT ![w].at = "pop"]

\* Mutant of NextSlot: the index is not wrapped around.
NextSlotUnwrapped(i) == i + 1

NextSlot(i) == (i + 1) % QUEUE_CAPACITY

Pushed(fd) == [fds |-> [q.fds EXCEPT ![q.tail] = fd], head |-> q.head,
               tail |-> NextSlot(q.tail), count |-> q.count + 1,
               shutdown |-> q.shutdown]

\* The three ways through wq_push: to wait, to queue the fd, to close it.
wq_push ==
  /\ main.at = "push"
  /\ IF q.count = QUEUE_CAPACITY /\ ~q.shutdown
     THEN /\ main' = [main EXCEPT !.at = "full"]
          /\ UNCHANGED <<q, worker, conn>>
     ELSE /\ main' = [at |-> "check", fd |-> None]
          /\ IF q.shutdown
             THEN /\ conn' = [conn EXCEPT ![main.fd].net = "closed"]
                  /\ UNCHANGED <<q, worker>>
             ELSE /\ q' = Pushed(main.fd)
                  /\ SignalNotEmpty
                  /\ UNCHANGED conn
  /\ UNCHANGED <<flag, backlog, mu, store, seen, total, saved>>

\* Mutant of Broadcast: none.
BroadcastNone == worker

\* pthread_cond_broadcast(&q->not_empty).
Broadcast == [w \in Workers |-> IF worker[w].at = "empty"
                                THEN [worker[w] EXCEPT !.at = "pop"]
                                ELSE worker[w]]

wq_shutdown ==
  /\ main.at = "stop"
  /\ main' = [main EXCEPT !.at = "join"]
  /\ q' = [q EXCEPT !.shutdown = TRUE]
  /\ worker' = Broadcast
  /\ UNCHANGED <<flag, backlog, mu, store, seen, total, conn, saved>>

\* Mutant of AllExited: one worker is waited for, not all.
OneExited == WorkersAt("exited") # {}

AllExited == WorkersAt("exited") = Workers

\* The workers have ended and the listening socket is closed, with it the
\* connections that nobody has accepted.
Join ==
  /\ main.at = "join" /\ AllExited
  /\ main' = [main EXCEPT !.at = "save"]
  /\ backlog' = <<>>
  /\ conn' = [c \in Conns |-> IF conn[c].net = "backlog"
                              THEN [conn[c] EXCEPT !.net = "closed"] ELSE conn[c]]
  /\ UNCHANGED <<flag, q, worker, mu, store, seen, total, saved>>

\* The store is read without g_store_mu.
Save ==
  /\ main.at = "save"
  /\ main' = [main EXCEPT !.at = "exited"]
  /\ saved' = store
  /\ UNCHANGED <<flag, backlog, q, worker, mu, store, seen, total, conn>>
-----------------------------------------------------------------------------
\* The workers.

\* pthread_cond_signal(&q->not_full); only the main thread waits there.
SignalNotFull ==
  main' = IF main.at = "full" THEN [main EXCEPT !.at = "push"] ELSE main

\* Mutant of Popped: the head is not moved.
PoppedStill == [q EXCEPT !.count = @ - 1]

Popped == [q EXCEPT !.head = NextSlot(@), !.count = @ - 1]

\* Mutant of MayPop: the shutdown is looked at before the queue.
MayPopOpen == q.count > 0 /\ ~q.shutdown

MayPop == q.count > 0

\* wq_pop finds an fd, or the shutdown, or nothing.
wq_pop(w) ==
  /\ worker[w].at = "pop"
  /\ IF MayPop
     THEN /\ worker' = [worker EXCEPT ![w] =
                          [at |-> "read", fd |-> q.fds[q.head], in |-> <<>>]]
          /\ q' = Popped
          /\ SignalNotFull
     ELSE /\ worker' = [worker EXCEPT ![w].at =
                          IF q.shutdown THEN "exited" ELSE "empty"]
          /\ UNCHANGED <<q, main>>
  /\ UNCHANGED <<flag, backlog, mu, store, seen, total, conn, saved>>

\* POSIX lets a thread come out of pthread_cond_wait unsignalled.
SpuriousWakeup ==
  \/ /\ main.at = "full"
     /\ main' = [main EXCEPT !.at = "push"]
     /\ UNCHANGED <<flag, backlog, q, worker, mu, store, seen, total, conn, saved>>
  \/ /\ \E w \in WorkersAt("empty") :
          worker' = [worker EXCEPT ![w].at = "pop"]
     /\ UNCHANGED <<flag, main, backlog, q, mu, store, seen, total, conn, saved>>

\* read() returns some of what the client has sent; once the client has gone
\* it returns the end of it, or fails on what a reset has thrown away.
Read(w) ==
  LET c == worker[w].fd IN
  /\ worker[w].at = "read"
  /\ \/ /\ conn[c].gone
        /\ worker' = [worker EXCEPT ![w].at = "close"]
        /\ UNCHANGED conn
     \/ \E n \in 1 .. Min({READ_CHUNK, Len(conn[c].sent)}) :
          /\ conn' = [conn EXCEPT ![c].sent = SubSeq(@, n + 1, Len(@))]
          /\ worker' = IF Len(worker[w].in) + n > MAX_INPUT_BUF
                       THEN [worker EXCEPT ![w].at = "limit"]
                       ELSE [worker EXCEPT ![w].at = "parse",
                               ![w].in = @ \o SubSeq(conn[c].sent, 1, n)]
  /\ UNCHANGED <<flag, main, backlog, q, mu, store, seen, total, saved>>

\* Mutant of StoreFree: g_store_mu is not waited for.
StoreAny == TRUE

\* pthread_mutex_lock(&g_store_mu) returns.
StoreFree == mu = None

\* The error reply for too much input is put together under g_store_mu.
OverLimit(w) ==
  /\ worker[w].at = "limit" /\ StoreFree
  /\ worker' = [worker EXCEPT ![w].at = "fatal"]
  /\ UNCHANGED <<flag, main, backlog, q, mu, store, seen, total, conn, saved>>

\* Where the first unit is that is more than a part of a command, or 0.
Complete(in) == LET ends == {i \in DOMAIN in : in[i] # "part"}
                IN  IF ends = {} THEN 0 ELSE Min(ends)

Parse(w) ==
  LET k == Complete(worker[w].in) IN
  /\ worker[w].at = "parse"
  /\ worker' = [worker EXCEPT ![w].at =
                  IF k = 0 THEN "read"
                  ELSE IF worker[w].in[k] = "cmd" THEN "lock" ELSE "fatal"]
  /\ UNCHANGED <<flag, main, backlog, q, mu, store, seen, total, conn, saved>>

Lock(w) ==
  /\ worker[w].at = "lock" /\ StoreFree
  /\ mu' = w
  /\ seen' = store
  /\ worker' = [worker EXCEPT ![w].at = "dispatch"]
  /\ UNCHANGED <<flag, main, backlog, q, store, total, conn, saved>>

\* cmd_dispatch changes the store that it has read, g_store_mu is let go
\* and the command leaves the input buffer.
Dispatch(w) ==
  LET in == worker[w].in IN
  /\ worker[w].at = "dispatch"
  /\ store' = seen + 1 /\ total' = total + 1
  /\ mu' = None
  /\ conn' = [conn EXCEPT ![worker[w].fd].done = @ + 1]
  /\ worker' = [worker EXCEPT ![w].at = "write",
                              ![w].in = SubSeq(in, Complete(in) + 1, Len(in))]
  /\ UNCHANGED <<flag, main, backlog, q, seen, saved>>

\* Mutant of Answered: one command is done for each read.
AnsweredOne == "read"

\* Where a worker goes on when a reply is out: the rest of its input.
Answered == "parse"

\* write_all of a reply, which fails only if the client has gone.
Write(w) ==
  LET c == worker[w].fd IN
  /\ worker[w].at = "write"
  /\ \/ /\ conn' = [conn EXCEPT ![c].replies = @ + 1]
        /\ worker' = [worker EXCEPT ![w].at = Answered]
     \/ /\ conn[c].gone
        /\ worker' = [worker EXCEPT ![w].at = "close"]
        /\ UNCHANGED conn
  /\ UNCHANGED <<flag, main, backlog, q, mu, store, seen, total, saved>>

\* The last reply, an error, on a connection about to be closed.
WriteError(w) ==
  /\ worker[w].at = "fatal"
  /\ worker' = [worker EXCEPT ![w].at = "close"]
  /\ UNCHANGED <<flag, main, backlog, q, mu, store, seen, total, conn, saved>>

Close(w) ==
  /\ worker[w].at = "close"
  /\ conn' = [conn EXCEPT ![worker[w].fd].net = "closed"]
  /\ worker' = [worker EXCEPT ![w] = [at |-> "pop", fd |-> None, in |-> <<>>]]
  /\ UNCHANGED <<flag, main, backlog, q, mu, store, seen, total, saved>>
-----------------------------------------------------------------------------
MainStep ==
  CheckShutdown \/ Accept \/ wq_push \/ wq_shutdown \/ Join \/ Save

WorkerStep(w) ==
  \/ wq_pop(w) \/ Read(w) \/ OverLimit(w) \/ Parse(w) \/ Lock(w)
  \/ Dispatch(w) \/ Write(w) \/ WriteError(w) \/ Close(w)

Next ==
  \/ \E c \in Conns : Connect(c) \/ Send(c) \/ Hangup(c)
  \/ on_signal
  \/ MainStep \/ AcceptFails
  \/ \E w \in Workers : WorkerStep(w)
  \/ SpuriousWakeup

Spec == Init /\ [][Next]_vars

\* Threads that can run do, and clients do not stay for ever.
Fairness ==
  /\ WF_vars(MainStep)
  /\ \A w \in Workers : WF_vars(WorkerStep(w))
  /\ \A c \in Conns : WF_vars(Hangup(c))

FairSpec == Spec /\ Fairness
-----------------------------------------------------------------------------
Unit == {"cmd", "part", "bad"}

(* Type correctness. *)
TypeOK ==
  /\ flag \in BOOLEAN
  /\ main \in [at : {"check", "accept", "push", "full", "stop", "join", "save",
                     "exited"},
               fd : Conns \cup {None}]
  /\ backlog \in Seq(Conns)
  /\ q \in [fds : [0 .. QUEUE_CAPACITY - 1 -> Conns \cup {None}],
            head : 0 .. QUEUE_CAPACITY - 1, tail : 0 .. QUEUE_CAPACITY - 1,
            count : 0 .. QUEUE_CAPACITY, shutdown : BOOLEAN]
  /\ worker \in [Workers ->
       [at : {"pop", "empty", "read", "limit", "parse", "lock", "dispatch",
              "write", "fatal", "close", "exited"},
        fd : Conns \cup {None}, in : Seq(Unit)]]
  /\ mu \in Workers \cup {None}
  /\ store \in Nat /\ seen \in Nat /\ total \in Nat
  /\ conn \in [Conns -> [net : {"new", "backlog", "open", "closed"},
                         todo : Seq(Unit), sent : Seq(Unit),
                         gone : BOOLEAN, done : Nat, replies : Nat]]
  /\ saved \in Nat \cup {-1}

\* The slots of the ring that hold queued fds, and all that hold fd c.
Queued    == {i \in 0 .. QUEUE_CAPACITY - 1 :
                \/ q.head <= i /\ i < q.head + q.count
                \/ i + QUEUE_CAPACITY < q.head + q.count}
Owners(c) == {<<"slot", i>> : i \in {j \in Queued : q.fds[j] = c}}
               \cup {<<"worker", w>> : w \in {x \in Workers : worker[x].fd = c}}
               \cup {<<"main", x>> : x \in {main.fd} \cap {c}}

(* An accepted fd has exactly one owner until it is closed, and none after *)
(* that: the main thread, a slot of the ring or a worker.  No fd is lost,  *)
(* served by two workers, closed twice or used after close, whichever way  *)
(* push, pop and shutdown interleave and the ring wraps around.            *)
OneOwner ==
  \A c \in Conns : IF conn[c].net = "open" THEN \E o \in Owners(c) : Owners(c) = {o}
                                           ELSE Owners(c) = {}

(* No wakeup is lost.  While a worker sleeps on not_empty there are at     *)
(* least as many workers on their way to the queue as fds in it, so one    *)
(* signal per push and none on wq_pop's side is enough; and the main       *)
(* thread sleeps on not_full only while the queue really is full.          *)
NoLostWakeup ==
  /\ WorkersAt("empty") # {} =>
       q.count <= Cardinality(WorkersAt("pop")) /\ ~q.shutdown
  /\ main.at = "full" => q.count = QUEUE_CAPACITY /\ ~q.shutdown

(* No update of the store is lost: it holds every command done on any      *)
(* connection, whatever the workers do at the same time (g_store_mu        *)
(* "guards ALL store_* calls").                                            *)
NoLostUpdate ==
  store = total

(* Nothing that a client was told is missing from the final snapshot: it   *)
(* is taken when no worker can change the store any more, though without   *)
(* the lock ("after all workers have exited -- no locking needed"), and    *)
(* with every accepted connection served and closed.                       *)
FinalSaveComplete ==
  /\ saved # -1 => saved = store
  /\ main.at \in {"save", "exited"} => \A c \in Conns : conn[c].net # "open"
  /\ \A c \in Conns : conn[c].replies <= conn[c].done

(* A worker blocks in read() for more input only when it owes its client   *)
(* nothing: every command that is whole has been taken out of the input    *)
(* buffer, done and answered, also when several came with one read.        *)
NoCommandLeftBehind ==
  \A w \in WorkersAt("read") :
    /\ Complete(worker[w].in) = 0
    /\ conn[worker[w].fd].replies = conn[worker[w].fd].done

(* A shutdown comes to its end: every worker asleep wakes, the queue is    *)
(* drained and the snapshot is made, once the clients have gone.  signal() *)
(* restarts accept, so it begins when the loop ends or, after a signal,    *)
(* when there is one more connection for accept to return.                 *)
ShutdownCompletes ==
  main.at = "stop" \/ (flag /\ backlog # <<>>) ~> main.at = "exited"

(* Every accepted connection is served to its end, also one that waited    *)
(* for room in the queue or was queued when the shutdown began.            *)
AcceptedAreServed ==
  \A c \in Conns : conn[c].net = "open" ~> conn[c].net = "closed"
=============================================================================
