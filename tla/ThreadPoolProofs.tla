-------------------------- MODULE ThreadPoolProofs --------------------------
(***************************************************************************)
(* Theorems about ThreadPool, for any number of connections and workers,   *)
(* any capacity of the queue and anything that clients send: the inductive *)
(* invariant, that the start and every step of the clients, the workers    *)
(* and the main thread of server_threaded.c satisfy it, and what follows.  *)
(***************************************************************************)
EXTENDS ThreadPool, SetFacts, TLAPS

(* What the lemmas use of finite sets. *)
PoolFacts == Least /\ CountType /\ SubsetCount /\ AddCount

Places   == {"pop", "empty", "read", "limit", "parse", "lock", "dispatch",
             "write", "fatal", "close", "exited"}
MainRec   == [at : {"check", "accept", "push", "full", "stop", "join", "save",
                    "exited"},
              fd : Conns \cup {None}]
QueueRec  == [fds : [0 .. QUEUE_CAPACITY - 1 -> Conns \cup {None}],
              head : 0 .. QUEUE_CAPACITY - 1, tail : 0 .. QUEUE_CAPACITY - 1,
              count : 0 .. QUEUE_CAPACITY, shutdown : BOOLEAN]
WorkerRec == [at : Places, fd : Conns \cup {None}, in : Seq(Unit)]
ConnRec   == [net : {"new", "backlog", "open", "closed"},
              todo : Seq(Unit), sent : Seq(Unit),
              gone : BOOLEAN, done : Nat, replies : Nat]

(* TypeOK, with names for the sets of records.                             *)
Typed ==
  /\ flag \in BOOLEAN
  /\ main \in MainRec
  /\ backlog \in Seq(Conns)
  /\ q \in QueueRec
  /\ worker \in [Workers -> WorkerRec]
  /\ mu \in Workers \cup {None}
  /\ store \in Nat /\ seen \in Nat /\ total \in Nat
  /\ conn \in [Conns -> ConnRec]
  /\ saved \in Nat \cup {-1}

(* The places where a worker has no fd, and those where the main thread    *)
(* has one; the ring's indices agree with its count; what is queued are    *)
(* fds.                                                                    *)
FdsInPlace ==
  /\ main.fd # None <=> main.at \in {"push", "full"}
  /\ \A w \in Workers :
       worker[w].fd # None <=> worker[w].at \notin {"pop", "empty", "exited"}
  /\ q.tail = IF q.head + q.count < QUEUE_CAPACITY
              THEN q.head + q.count ELSE q.head + q.count - QUEUE_CAPACITY
  /\ \A i \in Queued : q.fds[i] # None

(* The holder of g_store_mu is the worker in cmd_dispatch, and what it has *)
(* read of the store is what the store holds.                              *)
Exclusive ==
  /\ \A w \in Workers : worker[w].at = "dispatch" <=> mu = w
  /\ mu # None => seen = store
  /\ NoLostUpdate

(* How far a shutdown has come.                                            *)
Phase ==
  /\ q.shutdown <=> main.at \in {"join", "save", "exited"}
  /\ \A w \in Workers : worker[w].at = "exited" => q.shutdown /\ q.count = 0
  /\ main.at \in {"save", "exited"} => \A w \in Workers : worker[w].at = "exited"
  /\ saved # -1 => main.at = "exited" /\ saved = store

(* OneOwner without counting: owners have open fds, no two of them the     *)
(* same, and every open fd has one.                                        *)
Owned ==
  /\ main.fd # None => /\ conn[main.fd].net = "open"
                       /\ \A i \in Queued : q.fds[i] # main.fd
  /\ \A i \in Queued : conn[q.fds[i]].net = "open"
  /\ \A i, j \in Queued : q.fds[i] = q.fds[j] => i = j
  /\ \A w \in Workers : worker[w].fd # None =>
       /\ conn[worker[w].fd].net = "open"
       /\ worker[w].fd # main.fd
       /\ \A i \in Queued : q.fds[i] # worker[w].fd
       /\ \A x \in Workers : worker[x].fd = worker[w].fd => x = w
  /\ \A c \in Conns : conn[c].net = "open" =>
       \/ main.fd = c
       \/ \E i \in Queued : q.fds[i] = c
       \/ \E w \in Workers : worker[w].fd = c

(* What the kernel holds for accept are connections nobody has accepted,   *)
(* each once.                                                              *)
Waiting ==
  /\ \A i \in 1 .. Len(backlog) : conn[backlog[i]].net = "backlog"
  /\ \A i, j \in 1 .. Len(backlog) : backlog[i] = backlog[j] => i = j

(* A client is owed a reply only while a worker writes it, or after the    *)
(* write has failed.                                                       *)
Even(c) == conn[c].replies = conn[c].done

Paid ==
  /\ \A c \in Conns : conn[c].replies <= conn[c].done
  /\ \A c \in Conns : conn[c].net \in {"new", "backlog"} => Even(c)
  /\ main.fd # None => Even(main.fd)
  /\ \A i \in Queued : Even(q.fds[i])
  /\ \A w \in Workers :
       /\ worker[w].at \in {"read", "limit", "parse", "lock", "dispatch", "fatal"}
            => Even(worker[w].fd)
       /\ worker[w].at = "write"
            => conn[worker[w].fd].replies + 1 = conn[worker[w].fd].done
       /\ worker[w].at = "read" => Complete(worker[w].in) = 0

Inv == /\ Typed /\ FdsInPlace /\ Exclusive /\ Phase
       /\ Owned /\ Waiting /\ NoLostWakeup /\ Paid
-----------------------------------------------------------------------------
(* The index of a ring's next slot, without division.                      *)
LEMMA NextSlotIs ==
  ASSUME NEW i \in 0 .. QUEUE_CAPACITY - 1
  PROVE  NextSlot(i) = IF i = QUEUE_CAPACITY - 1 THEN 0 ELSE i + 1
BY PoolAssumption DEF NextSlot

(* A set of naturals that is not empty has a least element, which is what  *)
(* Min chooses.                                                            *)
LEMMA MinIs ==
  ASSUME PoolFacts, NEW S \in SUBSET Nat, S # {}
  PROVE  Min(S) \in S /\ \A y \in S : Min(S) <= y
<1>1. \E x \in S : \A y \in S : x <= y
  BY Zenon DEF PoolFacts, Least
<1> QED
  BY <1>1, Zenon DEF Min

(* Where Complete finds the end of a command, if there is one.             *)
LEMMA CompleteIs ==
  ASSUME PoolFacts, NEW in \in Seq(Unit)
  PROVE  /\ Complete(in) \in 0 .. Len(in)
         /\ in = <<>> => Complete(in) = 0
<1> DEFINE I == {i \in 1 .. Len(in) : in[i] # "part"}
<1>1. Complete(in) = IF I # {} THEN Min(I) ELSE 0
  <2>1. I = {i \in DOMAIN in : in[i] # "part"}
    OBVIOUS
  <2> QED
    BY <2>1, Zenon DEF Complete
<1>2. I \in SUBSET Nat /\ I \subseteq 1 .. Len(in) /\ Len(in) \in Nat
  OBVIOUS
<1>3. I # {} => Min(I) \in I
  BY <1>2, MinIs, Zenon
<1>4. in = <<>> => I = {}
  OBVIOUS
<1> QED
  BY <1>1, <1>2, <1>3, <1>4

(* What is left of a sequence is a sequence.                               *)
LEMMA RestIs ==
  ASSUME NEW s \in Seq(Unit), NEW n \in 0 .. Len(s)
  PROVE  SubSeq(s, n + 1, Len(s)) \in Seq(Unit) /\ SubSeq(s, 1, n) \in Seq(Unit)
<1>1. Len(s) \in Nat /\ \A i \in 1 .. Len(s) : s[i] \in Unit
  OBVIOUS
<1>2. \A i \in n + 1 .. Len(s) : s[i] \in Unit
  BY <1>1
<1>3. \A i \in 1 .. n : s[i] \in Unit
  BY <1>1
<1>4. SubSeq(s, n + 1, Len(s)) \in Seq(Unit)
  BY <1>1, <1>2
<1>5. SubSeq(s, 1, n) \in Seq(Unit)
  BY <1>1, <1>3
<1> QED
  BY <1>4, <1>5, Zenon
-----------------------------------------------------------------------------
(* A read returns no more than there is.                                   *)
LEMMA ChunkIs ==
  ASSUME PoolFacts, NEW s \in Seq(Unit), NEW n \in 1 .. Min({READ_CHUNK, Len(s)})
  PROVE  n \in 0 .. Len(s)
<1>1. Len(s) \in Nat /\ {READ_CHUNK, Len(s)} \in SUBSET Nat
  BY PoolAssumption
<1>2. /\ Min({READ_CHUNK, Len(s)}) \in {READ_CHUNK, Len(s)}
      /\ \A y \in {READ_CHUNK, Len(s)} : Min({READ_CHUNK, Len(s)}) <= y
  BY <1>1, MinIs, Zenon
<1> QED
  BY <1>1, <1>2, PoolAssumption
-----------------------------------------------------------------------------
(* How the number of workers at a place changes when one comes or leaves.  *)
LEMMA OneMore ==
  ASSUME PoolFacts, NEW S, IsFiniteSet(S), NEW x, x \notin S
  PROVE  /\ Cardinality(S) \in Nat
         /\ Cardinality(S \cup {x}) = Cardinality(S) + 1
BY DEF PoolFacts, CountType, AddCount

(* The workers at a place are finitely many. *)
LEMMA WorkersFinite ==
  ASSUME PoolFacts, NEW S, S \subseteq Workers
  PROVE  IsFiniteSet(S) /\ Cardinality(S) \in Nat
<1>1. IsFiniteSet(S)
  BY PoolAssumption, Zenon DEF PoolFacts, SubsetCount
<1> QED
  BY <1>1, Zenon DEF PoolFacts, CountType

(* Worker w goes to place p, and keeps its fd; no other worker moves.      *)
Goes(w, p) ==
  /\ worker' \in [Workers -> WorkerRec]
  /\ worker'[w].at = p /\ worker'[w].fd = worker[w].fd
  /\ \A x \in Workers \ {w} : worker'[x] = worker[x]

(* An assignment to `at' alone has that effect.                            *)
LEMMA GoesTo ==
  ASSUME NEW w \in Workers, NEW p \in Places, worker \in [Workers -> WorkerRec],
         worker' = [worker EXCEPT ![w].at = p]
  PROVE  Goes(w, p) /\ worker'[w].in = worker[w].in
BY Zenon DEF Goes, WorkerRec

(* So has one that also replaces what the worker has read.                 *)
LEMMA GoesWith ==
  ASSUME NEW w \in Workers, NEW p \in Places, NEW in \in Seq(Unit),
         worker \in [Workers -> WorkerRec],
         worker' = [worker EXCEPT ![w].at = p, ![w].in = in]
  PROVE  Goes(w, p)
<1>1. worker[w] \in WorkerRec
  OBVIOUS
<1>2. [worker[w] EXCEPT !.at = p, !.in = in] \in WorkerRec
  BY <1>1, Zenon DEF WorkerRec
<1>3. worker' = [worker EXCEPT ![w] = [worker[w] EXCEPT !.at = p, !.in = in]]
  BY Zenon
<1>4. /\ worker' \in [Workers -> WorkerRec]
      /\ worker'[w] = [worker[w] EXCEPT !.at = p, !.in = in]
      /\ \A x \in Workers \ {w} : worker'[x] = worker[x]
  BY <1>2, <1>3, Zenon
<1>5. worker'[w].at = p /\ worker'[w].fd = worker[w].fd
  BY <1>1, <1>4, Zenon DEF WorkerRec
<1> QED
  BY <1>4, <1>5, Zenon DEF Goes

(* What the servers' side knows of connection c, and of no other, changes. *)
ConnIs(c, net, done, replies) ==
  /\ conn' \in [Conns -> ConnRec]
  /\ conn'[c].net = net /\ conn'[c].done = done /\ conn'[c].replies = replies
  /\ \A d \in Conns \ {c} : conn'[d] = conn[d]

(* What its client has sent and read() has not returned.                   *)
LEMMA ConnSent ==
  ASSUME conn \in [Conns -> ConnRec], NEW c \in Conns, NEW s \in Seq(Unit),
         conn' = [conn EXCEPT ![c].sent = s]
  PROVE  ConnIs(c, conn[c].net, conn[c].done, conn[c].replies)
BY Zenon DEF ConnIs, ConnRec

(* The count of commands done.                                             *)
LEMMA ConnDone ==
  ASSUME conn \in [Conns -> ConnRec], NEW c \in Conns, NEW n \in Nat,
         conn' = [conn EXCEPT ![c].done = n]
  PROVE  ConnIs(c, conn[c].net, n, conn[c].replies)
BY Zenon DEF ConnIs, ConnRec

(* The count of replies sent.                                              *)
LEMMA ConnReplies ==
  ASSUME conn \in [Conns -> ConnRec], NEW c \in Conns, NEW n \in Nat,
         conn' = [conn EXCEPT ![c].replies = n]
  PROVE  ConnIs(c, conn[c].net, conn[c].done, n)
BY Zenon DEF ConnIs, ConnRec

(* Whether it is accepted or closed.                                       *)
LEMMA ConnNet ==
  ASSUME conn \in [Conns -> ConnRec], NEW c \in Conns, NEW n \in {"open", "closed"},
         conn' = [conn EXCEPT ![c].net = n]
  PROVE  ConnIs(c, n, conn[c].done, conn[c].replies)
BY Zenon DEF ConnIs, ConnRec

(* The fds that somebody has are connections.                              *)
LEMMA FdsAreConns ==
  ASSUME Typed, FdsInPlace
  PROVE  /\ main.fd # None => main.fd \in Conns
         /\ \A w \in Workers : worker[w].fd # None => worker[w].fd \in Conns
         /\ \A i \in Queued : q.fds[i] \in Conns
BY Zenon DEF Typed, FdsInPlace, MainRec, WorkerRec, QueueRec, Queued
-----------------------------------------------------------------------------
(* What a client does after it has connected changes neither where its     *)
(* connection is nor what has been done for it.                            *)
LEMMA ClientStep ==
  ASSUME Inv, conn' \in [Conns -> ConnRec],
         \A c \in Conns : /\ conn'[c].net = conn[c].net
                          /\ conn'[c].done = conn[c].done
                          /\ conn'[c].replies = conn[c].replies,
         UNCHANGED <<flag, main, backlog, q, worker, mu, store, seen, total, saved>>
  PROVE  Inv'
<1> USE DEF Inv
<1>1. Queued' = Queued /\ \A p : WorkersAt(p)' = WorkersAt(p)
  BY Zenon DEF Queued, WorkersAt
<1>2. /\ main.fd # None => main.fd \in Conns
      /\ \A i \in Queued : q.fds[i] \in Conns
      /\ \A w \in Workers : worker[w].fd # None => worker[w].fd \in Conns
  BY FdsAreConns, Zenon
<1>3. Typed'
  BY Zenon DEF Typed
<1>4. FdsInPlace' /\ Exclusive' /\ Phase' /\ NoLostWakeup'
  BY <1>1, Zenon DEF FdsInPlace, Exclusive, NoLostUpdate, Phase, NoLostWakeup
<1>5. Owned'
  BY <1>1, <1>2 DEF Owned
<1>6. Waiting'
  <2>1. \A i \in 1 .. Len(backlog) : backlog[i] \in Conns
    BY DEF Typed
  <2> QED
    BY <2>1, Zenon DEF Waiting
<1>7. Paid'
  <2>1. \A w \in Workers :
          worker[w].at \in {"read", "limit", "parse", "lock", "dispatch", "fatal", "write"}
            => worker[w].fd \in Conns
    BY <1>2, Zenon DEF FdsInPlace
  <2> QED
    BY <1>1, <1>2, <2>1 DEF Paid, Even
<1> QED
  BY <1>3, <1>4, <1>5, <1>6, <1>7, Zenon

(* A client sends the next unit.                                           *)
LEMMA SendStep ==
  ASSUME Inv, NEW c \in Conns, Send(c)
  PROVE  Inv'
<1>1. /\ conn \in [Conns -> ConnRec] /\ conn[c].todo # <<>>
      /\ conn' = [conn EXCEPT ![c].sent = Append(@, Head(conn[c].todo)),
                              ![c].todo = Tail(@)]
      /\ UNCHANGED <<flag, main, backlog, q, worker, mu, store, seen, total, saved>>
  BY Zenon DEF Send, Inv, Typed
<1>2. conn[c].todo \in Seq(Unit) /\ conn[c].sent \in Seq(Unit)
  BY <1>1, Zenon DEF ConnRec
<1>3. Head(conn[c].todo) \in Unit /\ Tail(conn[c].todo) \in Seq(Unit)
  BY <1>1, <1>2
<1>4. Append(conn[c].sent, Head(conn[c].todo)) \in Seq(Unit)
  BY <1>2, <1>3, SMTT(30)
<1>5. ASSUME NEW a \in Seq(Unit), NEW b \in Seq(Unit),
             conn' = [conn EXCEPT ![c].sent = a, ![c].todo = b]
      PROVE  /\ conn' \in [Conns -> ConnRec]
             /\ \A d \in Conns : /\ conn'[d].net = conn[d].net
                                 /\ conn'[d].done = conn[d].done
                                 /\ conn'[d].replies = conn[d].replies
  BY <1>1, <1>5 DEF ConnRec
<1>6. conn' = [conn EXCEPT ![c].sent = Append(conn[c].sent, Head(conn[c].todo)),
                           ![c].todo = Tail(conn[c].todo)]
  BY <1>1, Zenon
<1>7. /\ conn' \in [Conns -> ConnRec]
      /\ \A d \in Conns : /\ conn'[d].net = conn[d].net
                          /\ conn'[d].done = conn[d].done
                          /\ conn'[d].replies = conn[d].replies
  BY <1>3, <1>4, <1>5, <1>6, Zenon
<1> QED
  BY <1>1, <1>7, ClientStep, Zenon

(* A client closes its end.                                                *)
LEMMA HangupStep ==
  ASSUME Inv, NEW c \in Conns, Hangup(c)
  PROVE  Inv'
<1>1. /\ conn \in [Conns -> ConnRec]
      /\ conn' = [conn EXCEPT ![c].gone = TRUE]
      /\ UNCHANGED <<flag, main, backlog, q, worker, mu, store, seen, total, saved>>
  BY Zenon DEF Hangup, Inv, Typed
<1>2. /\ conn' \in [Conns -> ConnRec]
      /\ \A d \in Conns : /\ conn'[d].net = conn[d].net
                          /\ conn'[d].done = conn[d].done
                          /\ conn'[d].replies = conn[d].replies
  BY <1>1, Zenon DEF ConnRec
<1> QED
  BY <1>1, <1>2, ClientStep, Zenon

(* A client connects, while the server still listens.                      *)
LEMMA ConnectStep ==
  ASSUME Inv, NEW c \in Conns, Connect(c)
  PROVE  Inv'
<1> USE DEF Inv
<1>1. /\ conn[c].net = "new" /\ backlog' = Append(backlog, c)
      /\ UNCHANGED <<flag, main, q, worker, mu, store, seen, total, saved>>
  BY Zenon DEF Connect
<1>2. PICK s \in Scripts[c] : conn' = [conn EXCEPT ![c].net = "backlog", ![c].todo = s]
  BY Zenon DEF Connect
<1>3. s \in Seq(Unit)
  BY <1>2, PoolAssumption, Zenon DEF Unit
<1>4. /\ conn' \in [Conns -> ConnRec] /\ conn'[c].net = "backlog"
      /\ conn'[c].done = conn[c].done /\ conn'[c].replies = conn[c].replies
      /\ \A d \in Conns \ {c} : conn'[d] = conn[d]
  BY <1>2, <1>3, ZenonT(40) DEF Typed, ConnRec
<1>5. Queued' = Queued /\ \A p : WorkersAt(p)' = WorkersAt(p)
  BY <1>1, Zenon DEF Queued, WorkersAt
<1>6. /\ main.fd # None => main.fd \in Conns \ {c}
      /\ \A i \in Queued : q.fds[i] \in Conns \ {c}
      /\ \A w \in Workers : worker[w].fd # None => worker[w].fd \in Conns \ {c}
  BY <1>1, FdsAreConns, Zenon DEF Owned
<1>7. backlog \in Seq(Conns)
  BY Zenon DEF Typed
<1>8. /\ backlog' \in Seq(Conns) /\ Len(backlog') = Len(backlog) + 1
      /\ \A i \in 1 .. Len(backlog) : backlog'[i] = backlog[i] /\ backlog[i] \in Conns
      /\ backlog'[Len(backlog) + 1] = c /\ Len(backlog) \in Nat
  BY <1>1, <1>7, SMTT(30)
<1>9. Typed'
  BY <1>1, <1>4, <1>8, Zenon DEF Typed
<1>10. FdsInPlace' /\ Exclusive' /\ Phase' /\ NoLostWakeup'
  BY <1>1, <1>5, Zenon DEF FdsInPlace, Exclusive, NoLostUpdate, Phase, NoLostWakeup
<1>11. Owned'
  BY <1>1, <1>4, <1>5, <1>6, SMTT(30) DEF Owned
<1>12. Waiting'
  <2>1. \A i \in 1 .. Len(backlog) : backlog[i] \in Conns \ {c}
    BY <1>1, <1>8, Zenon DEF Waiting
  <2>2. \A i \in 1 .. Len(backlog') : i \in 1 .. Len(backlog) \/ i = Len(backlog) + 1
    BY <1>8
  <2>3. \A i \in 1 .. Len(backlog') : conn'[backlog'[i]].net = "backlog"
    BY <1>4, <1>8, <2>1, <2>2, SMTT(30) DEF Waiting
  <2>4. \A i, j \in 1 .. Len(backlog') : backlog'[i] = backlog'[j] => i = j
    BY <1>8, <2>1, <2>2, SMTT(30) DEF Waiting
  <2> QED
    BY <2>3, <2>4, Zenon DEF Waiting
<1>13. Paid'
  <2>1. \A w \in Workers :
          worker[w].at \in {"read", "limit", "parse", "lock", "dispatch", "fatal", "write"}
            => worker[w].fd \in Conns \ {c}
    BY <1>6, Zenon DEF FdsInPlace
  <2> QED
    BY <1>1, <1>4, <1>5, <1>6, <2>1, SMTT(30) DEF Paid, Even
<1> QED
  BY <1>9, <1>10, <1>11, <1>12, <1>13

(* The server as it starts.                                                *)
LEMMA InitInv ==
  ASSUME Init
  PROVE  Inv
<1>1. /\ Queued = {} /\ main.fd = None
      /\ \A w \in Workers : worker[w].fd = None /\ worker[w].at = "pop"
      /\ \A c \in Conns : /\ conn[c].net = "new"
                          /\ conn[c].done = 0 /\ conn[c].replies = 0
  BY PoolAssumption DEF Init, Queued
<1>2. Typed
  <2>1. \A S : <<>> \in Seq(S)
    OBVIOUS
  <2>2. main \in MainRec /\ backlog \in Seq(Conns) /\ mu \in Workers \cup {None}
    BY <2>1, Zenon DEF Init, MainRec
  <2>3. q \in QueueRec
    BY PoolAssumption DEF Init, QueueRec
  <2>4. worker \in [Workers -> WorkerRec]
    BY <2>1, Zenon DEF Init, WorkerRec, Places
  <2>5. conn \in [Conns -> ConnRec]
    BY <2>1, Zenon DEF Init, ConnRec
  <2> QED
    BY <2>2, <2>3, <2>4, <2>5, Zenon DEF Init, Typed
<1>3. FdsInPlace
  BY <1>1, PoolAssumption DEF Init, FdsInPlace
<1>4. Exclusive /\ Phase /\ NoLostWakeup
  BY <1>1, PoolAssumption, Zenon
  DEF Init, Exclusive, NoLostUpdate, Phase, NoLostWakeup, WorkersAt
<1>5. Owned
  BY <1>1, Zenon DEF Owned
<1>6. Waiting
  BY DEF Init, Waiting
<1>7. Paid
  BY <1>1 DEF Paid, Even
<1> QED
  BY <1>2, <1>3, <1>4, <1>5, <1>6, <1>7, SMTT(30) DEF Inv
-----------------------------------------------------------------------------
(* A worker with an fd goes on with it and with no other.  Nothing that    *)
(* the queue or the main thread depends on changes, and no one is owed     *)
(* more if this worker's client is not.                                    *)
LEMMA ServingStep ==
  ASSUME Inv, NEW w \in Workers, worker[w].fd # None,
         NEW p \in Places \ {"pop", "empty", "exited"}, Goes(w, p),
         UNCHANGED <<main, backlog, q, saved>>,
         NEW done \in Nat, NEW replies \in Nat, replies <= done,
         ConnIs(worker[w].fd, conn[worker[w].fd].net, done, replies),
         p \notin {"write", "close"} => replies = done,
         p = "write" => replies + 1 = done,
         p = "read" => Complete(worker'[w].in) = 0
  PROVE  FdsInPlace' /\ Phase' /\ Owned' /\ Waiting' /\ NoLostWakeup' /\ Paid'
<1> USE PoolAssumption DEF Inv, Goes
<1>1. worker[w].at \notin {"pop", "empty", "exited"}
  BY Zenon DEF FdsInPlace
<1>2. /\ Queued' = Queued
      /\ \A x \in Workers : worker'[x].fd = worker[x].fd
      /\ \A c \in Conns : conn'[c].net = conn[c].net
  BY Zenon DEF Queued, ConnIs
<1>3. FdsInPlace'
  BY <1>1, Zenon DEF FdsInPlace, Queued
<1>4. Phase'
  BY <1>1, ZenonT(40) DEF Phase
<1>5. Owned'
  BY <1>2, FdsAreConns DEF Owned
<1>6. Waiting'
  <2>1. \A i \in 1 .. Len(backlog) : backlog[i] \in Conns
    BY DEF Typed
  <2> QED
    BY <1>2, <2>1 DEF Waiting
<1>7. NoLostWakeup'
  <2>1. WorkersAt("empty")' = WorkersAt("empty") /\ WorkersAt("pop")' = WorkersAt("pop")
    BY <1>1, Zenon DEF WorkersAt
  <2> QED
    BY <2>1, Zenon DEF NoLostWakeup
<1>8. Paid'
  <2>1. /\ main.fd # worker[w].fd
        /\ \A i \in Queued : q.fds[i] # worker[w].fd
        /\ \A x \in Workers \ {w} : worker[x].fd # worker[w].fd
        /\ conn[worker[w].fd].net = "open"
    BY Zenon DEF Owned
  <2>2. /\ \A c \in Conns : conn'[c].replies <= conn'[c].done
        /\ \A c \in Conns : conn'[c].net \in {"new", "backlog"} => Even(c)'
    BY <1>2, <2>1, FdsAreConns DEF ConnIs, Paid, Even
  <2>3. main.fd # None => Even(main.fd)'
    BY <2>1, FdsAreConns, ZenonT(40) DEF ConnIs, Paid, Even
  <2>4. \A i \in Queued' : Even(q.fds[i])'
    BY <1>2, <2>1, FdsAreConns, SMTT(30) DEF ConnIs, Paid, Even
  <2>5. \A x \in Workers \ {w} : worker[x].fd # None => conn'[worker[x].fd] = conn[worker[x].fd]
    BY <2>1, FdsAreConns, ZenonT(40) DEF ConnIs
  <2>6. \A x \in Workers \ {w} :
          /\ worker'[x].at \in {"read", "limit", "parse", "lock", "dispatch", "fatal"}
               => Even(worker[x].fd)'
          /\ worker'[x].at = "write"
               => conn'[worker'[x].fd].replies + 1 = conn'[worker'[x].fd].done
          /\ worker'[x].at = "read" => Complete(worker'[x].in) = 0
    BY <2>5 DEF Paid, Even, FdsInPlace
  <2>7. /\ worker'[w].at \in {"read", "limit", "parse", "lock", "dispatch", "fatal"}
             => Even(worker[w].fd)'
        /\ worker'[w].at = "write"
             => conn'[worker'[w].fd].replies + 1 = conn'[worker'[w].fd].done
        /\ worker'[w].at = "read" => Complete(worker'[w].in) = 0
    BY Zenon DEF ConnIs, Even
  <2> QED
    BY <2>2, <2>3, <2>4, <2>6, <2>7, Zenon DEF Paid, Even
<1> QED
  BY <1>3, <1>4, <1>5, <1>6, <1>7, <1>8, Zenon

(* The steps of a worker that leave its connection alone: Inv is kept if   *)
(* the lock is, and the place it goes to owes no more than the one before. *)
LEMMA QuietStep ==
  ASSUME Inv, NEW w \in Workers, worker[w].fd # None,
         NEW p \in Places \ {"pop", "empty", "exited", "write"},
         worker' = [worker EXCEPT ![w].at = p],
         p # "close" => Even(worker[w].fd),
         p = "read" => Complete(worker[w].in) = 0,
         Exclusive',
         mu' \in Workers \cup {None}, seen' \in Nat,
         UNCHANGED <<flag, main, backlog, q, store, total, conn, saved>>
  PROVE  Inv'
<1> USE DEF Inv
<1> DEFINE c == worker[w].fd
<1>1. Goes(w, p) /\ worker'[w].in = worker[w].in
  BY GoesTo, Zenon DEF Typed
<1>2. c \in Conns /\ conn[c].done \in Nat /\ conn[c].replies \in Nat
  BY FdsAreConns, Zenon DEF Typed, ConnRec
<1>3. conn[c].replies <= conn[c].done
  BY <1>2, Zenon DEF Paid
<1>4. ConnIs(c, conn[c].net, conn[c].done, conn[c].replies)
  BY <1>2, Zenon DEF ConnIs, Typed
<1>5. FdsInPlace' /\ Phase' /\ Owned' /\ Waiting' /\ NoLostWakeup' /\ Paid'
  BY <1>1, <1>2, <1>3, <1>4, ServingStep, Zenon DEF Even
<1>6. Typed'
  BY <1>1, Zenon DEF Goes, Typed
<1> QED
  BY <1>5, <1>6, Zenon

(* OverLimit: the reply is written under the lock but reads no store.      *)
LEMMA OverLimitStep ==
  ASSUME Inv, NEW w \in Workers, OverLimit(w)
  PROVE  Inv'
<1>1. worker[w].fd # None /\ Even(worker[w].fd)
  BY Zenon DEF OverLimit, Inv, FdsInPlace, Paid
<1>2. Exclusive'
  BY GoesTo, Zenon DEF OverLimit, Inv, Typed, Exclusive, NoLostUpdate, Goes, Places
<1> QED
  BY <1>1, <1>2, QuietStep, Zenon DEF OverLimit, Places, Inv, Typed

(* WriteError: the connection is given up, whatever it is owed.            *)
LEMMA WriteErrorStep ==
  ASSUME Inv, NEW w \in Workers, WriteError(w)
  PROVE  Inv'
<1>1. worker[w].fd # None
  BY Zenon DEF WriteError, Inv, FdsInPlace
<1>2. Exclusive'
  BY GoesTo, ZenonT(40) DEF WriteError, Inv, Typed, Exclusive, NoLostUpdate, Goes, Places
<1> QED
  BY <1>1, <1>2, QuietStep, Zenon DEF WriteError, Places, Inv, Typed

(* Parse: it goes back to read() only if no command is whole.              *)
LEMMA ParseStep ==
  ASSUME Inv, NEW w \in Workers, Parse(w)
  PROVE  Inv'
<1>1. worker[w].fd # None /\ Even(worker[w].fd)
  BY Zenon DEF Parse, Inv, FdsInPlace, Paid
<1>2. PICK p \in {"read", "lock", "fatal"} :
        /\ worker' = [worker EXCEPT ![w].at = p]
        /\ p = "read" => Complete(worker[w].in) = 0
  BY Zenon DEF Parse
<1>3. Goes(w, p)
  BY <1>2, GoesTo, Zenon DEF Inv, Typed, Places
<1>4. Exclusive'
  BY <1>3, Zenon DEF Parse, Inv, Typed, Exclusive, NoLostUpdate, Goes
<1>5. p \in Places \ {"pop", "empty", "exited", "write"}
  BY DEF Places
<1> QED
  BY <1>1, <1>2, <1>4, <1>5, QuietStep, ZenonT(40) DEF Parse, Inv, Typed

(* Lock: g_store_mu was free.                                              *)
LEMMA LockStep ==
  ASSUME Inv, NEW w \in Workers, Lock(w)
  PROVE  Inv'
<1>1. worker[w].fd # None /\ Even(worker[w].fd)
  BY Zenon DEF Lock, Inv, FdsInPlace, Paid
<1>2. Goes(w, "dispatch")
  BY GoesTo, Zenon DEF Lock, Inv, Typed, Places
<1>3. Exclusive'
  BY <1>2, PoolAssumption, Zenon DEF Lock, StoreFree, Inv, Typed, Exclusive, NoLostUpdate, Goes
<1> QED
  BY <1>1, <1>3, QuietStep, Zenon DEF Lock, Places, Inv, Typed

(* Read: the end of the input, or some of it, within the limit or not.     *)
LEMMA ReadStep ==
  ASSUME PoolFacts, Inv, NEW w \in Workers, Read(w)
  PROVE  Inv'
<1> USE DEF Inv
<1> DEFINE c    == worker[w].fd
           sent == conn[c].sent
           in   == worker[w].in
<1>1. /\ c \in Conns /\ c # None /\ Even(c) /\ worker[w].at = "read"
      /\ UNCHANGED <<flag, main, backlog, q, mu, store, seen, total, saved>>
  BY FdsAreConns, Zenon DEF Read, FdsInPlace, Paid
<1>2. conn[c].done \in Nat /\ conn[c].replies = conn[c].done /\ sent \in Seq(Unit)
  BY <1>1, Zenon DEF Even, Typed, ConnRec
<1>3. in \in Seq(Unit)
  BY Zenon DEF Typed, WorkerRec
<1>4. CASE worker' = [worker EXCEPT ![w].at = "close"] /\ UNCHANGED conn
  <2>1. Exclusive'
    BY <1>1, <1>4, GoesTo, ZenonT(40) DEF Typed, Exclusive, NoLostUpdate, Goes, Places
  <2> QED
    BY <1>1, <1>4, <2>1, QuietStep, Zenon DEF Places, Typed
<1>5. ASSUME NEW n \in 1 .. Min({READ_CHUNK, Len(sent)}),
             conn' = [conn EXCEPT ![c].sent = SubSeq(sent, n + 1, Len(sent))],
             worker' = IF Len(in) + n > MAX_INPUT_BUF
                       THEN [worker EXCEPT ![w].at = "limit"]
                       ELSE [worker EXCEPT ![w].at = "parse",
                                           ![w].in = in \o SubSeq(sent, 1, n)]
      PROVE  Inv'
  <2>1. /\ SubSeq(sent, n + 1, Len(sent)) \in Seq(Unit)
        /\ SubSeq(sent, 1, n) \in Seq(Unit)
    BY <1>2, ChunkIs, RestIs, Zenon
  <2>2. PICK p \in {"limit", "parse"} : Goes(w, p)
    <3>1. CASE worker' = [worker EXCEPT ![w].at = "limit"]
      BY <3>1, GoesTo, Zenon DEF Typed, Places
    <3>2. ASSUME NEW all \in Seq(Unit),
                 worker' = [worker EXCEPT ![w].at = "parse", ![w].in = all]
          PROVE  Goes(w, "parse")
      BY <3>2, GoesWith, Zenon DEF Typed, Places
    <3>3. in \o SubSeq(sent, 1, n) \in Seq(Unit)
      BY <1>3, <2>1
    <3> QED
      BY <1>5, <3>1, <3>2, <3>3, Zenon
  <2>3. ConnIs(c, conn[c].net, conn[c].done, conn[c].replies)
    BY <1>1, <1>5, <2>1, ConnSent, Zenon DEF Typed
  <2>4. FdsInPlace' /\ Phase' /\ Owned' /\ Waiting' /\ NoLostWakeup' /\ Paid'
    <3>1. /\ p \in Places \ {"pop", "empty", "exited"}
          /\ p \notin {"write", "close"} /\ p # "write" /\ p # "read"
      BY <2>2, Zenon DEF Places
    <3>2. conn[c].replies \in Nat /\ conn[c].replies <= conn[c].done
      BY <1>2
    <3> QED
      BY <1>1, <1>2, <2>2, <2>3, <3>1, <3>2, ServingStep, Zenon
  <2>5. Typed'
    BY <1>1, <2>2, <2>3, Zenon DEF Typed, Goes, ConnIs
  <2>6. Exclusive'
    BY <1>1, <2>2, Zenon DEF Exclusive, NoLostUpdate, Goes
  <2> QED
    BY <2>4, <2>5, <2>6, Zenon
<1> QED
  BY <1>4, <1>5, Zenon DEF Read

(* Dispatch: the update is made to what the lock's holder has read.        *)
LEMMA DispatchStep ==
  ASSUME PoolFacts, Inv, NEW w \in Workers, Dispatch(w)
  PROVE  Inv'
<1> USE DEF Inv
<1> DEFINE c  == worker[w].fd
           in == worker[w].in
<1>1. /\ c \in Conns /\ c # None /\ Even(c) /\ worker[w].at = "dispatch"
      /\ UNCHANGED <<flag, main, backlog, q, seen, saved>>
  BY FdsAreConns, Zenon DEF Dispatch, FdsInPlace, Paid
<1>2. conn[c].done \in Nat /\ conn[c].replies = conn[c].done
  BY <1>1, Zenon DEF Even, Typed, ConnRec
<1>3. Goes(w, "write")
  <2>1. ASSUME NEW rest \in Seq(Unit),
               worker' = [worker EXCEPT ![w].at = "write", ![w].in = rest]
        PROVE  Goes(w, "write")
    BY <2>1, GoesWith, Zenon DEF Typed, Places
  <2>2. in \in Seq(Unit)
    BY Zenon DEF Typed, WorkerRec
  <2>3. SubSeq(in, Complete(in) + 1, Len(in)) \in Seq(Unit)
    BY <2>2, CompleteIs, RestIs
  <2> QED
    BY <2>1, <2>3, Zenon DEF Dispatch
<1>4. ConnIs(c, conn[c].net, conn[c].done + 1, conn[c].replies)
  <2>1. conn' = [conn EXCEPT ![c].done = conn[c].done + 1]
    BY Zenon DEF Dispatch
  <2>2. conn[c].done + 1 \in Nat /\ conn \in [Conns -> ConnRec]
    BY <1>2 DEF Typed
  <2> QED
    BY <1>1, <2>1, <2>2, ConnDone, Zenon
<1>5. FdsInPlace' /\ Phase' /\ Owned' /\ Waiting' /\ NoLostWakeup' /\ Paid'
  BY <1>1, <1>2, <1>3, <1>4, ServingStep DEF Places
<1>6. store = seen /\ store = total /\ mu = w
  BY <1>1, PoolAssumption, Zenon DEF Exclusive, NoLostUpdate
<1>7. Typed'
  BY <1>1, <1>3, <1>4 DEF Dispatch, Typed, Goes, ConnIs
<1>8. Exclusive'
  BY <1>1, <1>3, <1>6, PoolAssumption, Zenon DEF Dispatch, Typed, Exclusive, NoLostUpdate, Goes
<1> QED
  BY <1>5, <1>7, <1>8

(* Write: the reply goes out, or the connection is given up.               *)
LEMMA WriteStep ==
  ASSUME Inv, NEW w \in Workers, Write(w)
  PROVE  Inv'
<1> USE DEF Inv
<1> DEFINE c == worker[w].fd
<1>1. /\ c \in Conns /\ c # None /\ worker[w].at = "write"
      /\ conn[c].replies + 1 = conn[c].done
      /\ UNCHANGED <<flag, main, backlog, q, mu, store, seen, total, saved>>
  BY FdsAreConns, Zenon DEF Write, FdsInPlace, Paid
<1>2. conn[c].done \in Nat /\ conn[c].replies \in Nat
  BY <1>1, Zenon DEF Typed, ConnRec
<1>3. CASE /\ conn' = [conn EXCEPT ![c].replies = conn[c].replies + 1]
           /\ worker' = [worker EXCEPT ![w].at = "parse"]
  <2>1. Goes(w, "parse")
    BY <1>3, GoesTo, Zenon DEF Typed, Places
  <2>2. ConnIs(c, conn[c].net, conn[c].done, conn[c].replies + 1)
    <3>1. conn[c].replies + 1 \in Nat /\ conn \in [Conns -> ConnRec]
      BY <1>2, SMTT(30) DEF Typed
    <3> QED
      BY <1>1, <1>3, <3>1, ConnReplies, Zenon
  <2>3. FdsInPlace' /\ Phase' /\ Owned' /\ Waiting' /\ NoLostWakeup' /\ Paid'
    BY <1>1, <1>2, <2>1, <2>2, ServingStep, SMTT(30) DEF Places
  <2>4. Typed'
    BY <1>1, <2>1, <2>2, Zenon DEF Typed, Goes, ConnIs
  <2>5. Exclusive'
    BY <1>1, <2>1, Zenon DEF Exclusive, NoLostUpdate, Goes
  <2> QED
    BY <2>3, <2>4, <2>5
<1>4. CASE UNCHANGED conn /\ worker' = [worker EXCEPT ![w].at = "close"]
  <2>1. Exclusive'
    BY <1>1, <1>4, GoesTo, ZenonT(40) DEF Typed, Exclusive, NoLostUpdate, Goes, Places
  <2> QED
    BY <1>1, <1>4, <2>1, QuietStep, Zenon DEF Places, Typed
<1> QED
  BY <1>3, <1>4, Zenon DEF Write, Answered

(* Close: the fd has no owner any more, and the worker returns to the      *)
(* queue.                                                                  *)
LEMMA CloseStep ==
  ASSUME PoolFacts, Inv, NEW w \in Workers, Close(w)
  PROVE  Inv'
<1> USE DEF Inv
<1> DEFINE c == worker[w].fd
<1>1. /\ c \in Conns /\ c # None /\ worker[w].at = "close"
      /\ UNCHANGED <<flag, main, backlog, q, mu, store, seen, total, saved>>
  BY FdsAreConns, Zenon DEF Close, FdsInPlace
<1>2. /\ worker' \in [Workers -> WorkerRec]
      /\ worker'[w].at = "pop" /\ worker'[w].fd = None
      /\ \A x \in Workers \ {w} : worker'[x] = worker[x]
  BY DEF Close, Typed, WorkerRec, Places
<1>3. ConnIs(c, "closed", conn[c].done, conn[c].replies)
  BY <1>1, ConnNet, Zenon DEF Close, Typed
<1>4. /\ main.fd # c
      /\ \A i \in Queued : q.fds[i] # c
      /\ \A x \in Workers \ {w} : worker[x].fd # c
      /\ conn[c].net = "open"
  BY <1>1, Zenon DEF Owned
<1>5. Queued' = Queued
  BY <1>1, Zenon DEF Queued
<1>6. Typed'
  BY <1>1, <1>2, <1>3, Zenon DEF Typed, ConnIs
<1>7. FdsInPlace'
  BY <1>1, <1>2, <1>5, Zenon DEF FdsInPlace
<1>8. Exclusive'
  BY <1>1, <1>2, Zenon DEF Exclusive, NoLostUpdate
<1>9. Phase'
  BY <1>1, <1>2, Zenon DEF Phase
<1>10. Owned'
  <2>1. /\ main.fd # None => main.fd \in Conns \ {c}
        /\ \A i \in Queued : q.fds[i] \in Conns \ {c}
        /\ \A x \in Workers \ {w} :
             worker[x].fd # None => worker[x].fd \in Conns \ {c}
    BY <1>4, FdsAreConns, Zenon
  <2>2. \A d \in Conns \ {c} : conn'[d] = conn[d]
    BY <1>3, Zenon DEF ConnIs
  <2>3. main'.fd # None => /\ conn'[main'.fd].net = "open"
                           /\ \A i \in Queued' : q'.fds[i] # main'.fd
    BY <1>1, <1>5, <2>1, <2>2, Zenon DEF Owned
  <2>4. /\ \A i \in Queued' : conn'[q'.fds[i]].net = "open"
        /\ \A i, j \in Queued' : q'.fds[i] = q'.fds[j] => i = j
    BY <1>1, <1>5, <2>1, <2>2 DEF Owned
  <2>5. \A x \in Workers : worker'[x].fd # None =>
           /\ conn'[worker'[x].fd].net = "open"
           /\ worker'[x].fd # main'.fd
           /\ \A i \in Queued' : q'.fds[i] # worker'[x].fd
           /\ \A y \in Workers : worker'[y].fd = worker'[x].fd => y = x
    <3> SUFFICES ASSUME NEW x \in Workers, worker'[x].fd # None
                 PROVE  /\ conn'[worker'[x].fd].net = "open"
                        /\ worker'[x].fd # main'.fd
                        /\ \A i \in Queued' : q'.fds[i] # worker'[x].fd
                        /\ \A y \in Workers : worker'[y].fd = worker'[x].fd => y = x
      BY Zenon
    <3>1. x # w /\ worker'[x] = worker[x]
      BY <1>2, Zenon
    <3>2. /\ conn[worker[x].fd].net = "open" /\ worker[x].fd # main.fd
          /\ \A i \in Queued : q.fds[i] # worker[x].fd
          /\ \A y \in Workers : worker[y].fd = worker[x].fd => y = x
      BY <3>1, Zenon DEF Owned
    <3>3. conn'[worker[x].fd] = conn[worker[x].fd]
      BY <2>1, <2>2, <3>1, Zenon
    <3>4. ASSUME NEW y \in Workers, worker'[y].fd = worker'[x].fd
          PROVE  y = x
      BY <1>2, <3>1, <3>2, <3>4, Zenon
    <3> QED
      BY <1>1, <1>5, <3>1, <3>2, <3>3, <3>4, Zenon
  <2>6. \A d \in Conns : conn'[d].net = "open" =>
           \/ main'.fd = d
           \/ \E i \in Queued' : q'.fds[i] = d
           \/ \E x \in Workers : worker'[x].fd = d
    <3>1. \A d \in Conns : conn'[d].net = "open" => d # c /\ conn[d].net = "open"
      BY <1>3, <2>2, Zenon DEF ConnIs
    <3> QED
      BY <1>1, <1>2, <1>5, <3>1 DEF Owned
  <2> QED
    BY <2>3, <2>4, <2>5, <2>6, Zenon DEF Owned
<1>11. Waiting'
  <2>1. \A i \in 1 .. Len(backlog) : backlog[i] \in Conns
    BY DEF Typed
  <2> QED
    BY <1>1, <1>3, <1>4, <2>1, ZenonT(40) DEF Waiting, ConnIs
<1>12. NoLostWakeup'
  <2>1. WorkersAt("empty")' = WorkersAt("empty")
    BY <1>1, <1>2, Zenon DEF WorkersAt
  <2>2. WorkersAt("pop")' = WorkersAt("pop") \cup {w}
    BY <1>1, <1>2, Zenon DEF WorkersAt
  <2>3. IsFiniteSet(WorkersAt("pop")) /\ w \notin WorkersAt("pop")
    BY <1>1, WorkersFinite, Zenon DEF WorkersAt
  <2>4. /\ Cardinality(WorkersAt("pop")) \in Nat
        /\ Cardinality(WorkersAt("pop")') = Cardinality(WorkersAt("pop")) + 1
    BY <2>2, <2>3, OneMore
  <2>5. q.count \in Nat
    BY SMTT(30) DEF Typed, QueueRec
  <2> QED
    BY <1>1, <2>1, <2>4, <2>5, SMTT(30) DEF NoLostWakeup
<1>13. Paid'
  <2>1. conn[c].replies <= conn[c].done
    BY <1>1, Zenon DEF Paid
  <2>2. \A x \in Workers \ {w} : worker[x].fd # None => conn'[worker[x].fd] = conn[worker[x].fd]
    BY <1>3, <1>4, FdsAreConns, Zenon DEF ConnIs
  <2>3. /\ \A d \in Conns : conn'[d].replies <= conn'[d].done
        /\ \A d \in Conns : conn'[d].net \in {"new", "backlog"} => Even(d)'
    BY <1>1, <1>3, <2>1, Zenon DEF Paid, Even, ConnIs
  <2>4. main.fd # None => Even(main.fd)'
    BY <1>1, <1>3, <1>4, FdsAreConns, Zenon DEF Paid, Even, ConnIs
  <2>5. \A i \in Queued' : Even(q.fds[i])'
    <3>1. \A i \in Queued : conn'[q.fds[i]] = conn[q.fds[i]]
      BY <1>3, <1>4, FdsAreConns, Zenon DEF ConnIs
    <3>2. \A i \in Queued : conn[q.fds[i]].replies = conn[q.fds[i]].done
      BY Zenon DEF Paid, Even
    <3> QED
      BY <1>1, <1>5, <3>1, <3>2, Zenon DEF Even
  <2> QED
    BY <1>1, <1>2, <2>2, <2>3, <2>4, <2>5, SMTT(30) DEF Paid, Even, FdsInPlace
<1> QED
  BY <1>6, <1>7, <1>8, <1>9, <1>10, <1>11, <1>12, <1>13, SMTT(30)

(* The ring after a pop: the slot at the head is free.                     *)
LEMMA PopSlots ==
  ASSUME q \in QueueRec, q' \in QueueRec, q.count > 0,
         q'.head = NextSlot(q.head), q'.count = q.count - 1
  PROVE  q.head \in Queued /\ Queued' = Queued \ {q.head}
<1> DEFINE N == QUEUE_CAPACITY
           h == q.head
           n == q.count
<1>1. N \in Nat \ {0} /\ h \in 0 .. N - 1 /\ n \in 1 .. N
  BY PoolAssumption DEF QueueRec
<1>2. q'.head = IF h = N - 1 THEN 0 ELSE h + 1
  BY <1>1, NextSlotIs
<1> QED
  BY <1>1, <1>2 DEF Queued

(* The ring after a push: the slot at the tail, which was free, is taken.  *)
LEMMA PushSlots ==
  ASSUME q \in QueueRec, q' \in QueueRec, q.count < QUEUE_CAPACITY,
         q.tail = (IF q.head + q.count < QUEUE_CAPACITY
                   THEN q.head + q.count ELSE q.head + q.count - QUEUE_CAPACITY),
         q'.head = q.head, q'.count = q.count + 1
  PROVE  q.tail \notin Queued /\ Queued' = Queued \cup {q.tail}
<1> DEFINE N == QUEUE_CAPACITY
           h == q.head
           n == q.count
<1>1. N \in Nat \ {0} /\ h \in 0 .. N - 1 /\ n \in 0 .. N - 1
  BY PoolAssumption DEF QueueRec
<1> QED
  BY <1>1 DEF Queued

(* wq_pop when there is an fd: its owner is now the worker.                *)
LEMMA PopStep ==
  ASSUME PoolFacts, Inv, NEW w \in Workers, wq_pop(w), MayPop
  PROVE  Inv'
<1> USE DEF Inv
<1> DEFINE c == q.fds[q.head]
<1>1. /\ worker[w].at = "pop" /\ q.count > 0 /\ q' = Popped
      /\ worker' = [worker EXCEPT ![w] = [at |-> "read", fd |-> c, in |-> <<>>]]
      /\ main' = IF main.at = "full" THEN [main EXCEPT !.at = "push"] ELSE main
      /\ UNCHANGED <<flag, backlog, mu, store, seen, total, conn, saved>>
  BY Zenon DEF wq_pop, MayPop, SignalNotFull
<1>2. NextSlot(q.head) \in 0 .. QUEUE_CAPACITY - 1
  BY NextSlotIs, PoolAssumption DEF Typed, QueueRec
<1>3. /\ q' \in QueueRec /\ q'.fds = q.fds /\ q'.head = NextSlot(q.head)
      /\ q'.tail = q.tail /\ q'.count = q.count - 1 /\ q'.shutdown = q.shutdown
  <2>1. ASSUME NEW h \in 0 .. QUEUE_CAPACITY - 1, NEW n \in 0 .. QUEUE_CAPACITY,
               q' = [q EXCEPT !.head = h, !.count = n]
        PROVE  /\ q' \in QueueRec /\ q'.fds = q.fds /\ q'.head = h
               /\ q'.tail = q.tail /\ q'.count = n /\ q'.shutdown = q.shutdown
    BY <2>1, Zenon DEF Typed, QueueRec
  <2>2. q.count - 1 \in 0 .. QUEUE_CAPACITY
    BY <1>1, PoolAssumption, SMTT(30) DEF Typed, QueueRec
  <2>3. q' = [q EXCEPT !.head = NextSlot(q.head), !.count = q.count - 1]
    BY <1>1, Zenon DEF Popped
  <2> QED
    BY <1>2, <2>1, <2>2, <2>3, Zenon
<1>4. q.head \in Queued /\ Queued' = Queued \ {q.head}
  BY <1>1, <1>3, PopSlots, Zenon DEF Typed
<1>5. c \in Conns /\ c # None
  BY <1>4, FdsAreConns, Zenon DEF FdsInPlace
<1>6. /\ worker' \in [Workers -> WorkerRec]
      /\ worker'[w].at = "read" /\ worker'[w].fd = c /\ worker'[w].in = <<>>
      /\ \A x \in Workers \ {w} : worker'[x] = worker[x]
  BY <1>1, <1>5 DEF Typed, WorkerRec, Places
<1>7. /\ main' \in MainRec /\ main'.fd = main.fd
      /\ main'.at # "full"
      /\ main.at # "full" => main'.at = main.at
      /\ main.at = "full" => main'.at = "push"
  BY <1>1, Zenon DEF Typed, MainRec
<1>8. worker[w].fd = None
  BY <1>1, Zenon DEF FdsInPlace
<1>9. Typed'
  BY <1>1, <1>3, <1>6, <1>7, Zenon DEF Typed
<1>10. FdsInPlace'
  <2>1. main'.fd # None <=> main'.at \in {"push", "full"}
    BY <1>7, Zenon DEF FdsInPlace
  <2>2. \A x \in Workers :
          worker'[x].fd # None <=> worker'[x].at \notin {"pop", "empty", "exited"}
    BY <1>5, <1>6, Zenon DEF FdsInPlace
  <2>3. q'.tail = IF q'.head + q'.count < QUEUE_CAPACITY
                  THEN q'.head + q'.count ELSE q'.head + q'.count - QUEUE_CAPACITY
    <3>1. q'.head = IF q.head = QUEUE_CAPACITY - 1 THEN 0 ELSE q.head + 1
      BY <1>3, NextSlotIs, Zenon DEF Typed, QueueRec
    <3>2. /\ QUEUE_CAPACITY \in Nat /\ q.head \in 0 .. QUEUE_CAPACITY - 1
          /\ q.count \in 1 .. QUEUE_CAPACITY
      BY <1>1, PoolAssumption DEF Typed, QueueRec
    <3>3. q.tail = IF q.head + q.count < QUEUE_CAPACITY
                   THEN q.head + q.count ELSE q.head + q.count - QUEUE_CAPACITY
      BY Zenon DEF FdsInPlace
    <3> QED
      BY <1>3, <3>1, <3>2, <3>3
  <2>4. \A i \in Queued' : q'.fds[i] # None
    BY <1>3, <1>4, Zenon DEF FdsInPlace
  <2> QED
    BY <2>1, <2>2, <2>3, <2>4, Zenon DEF FdsInPlace
<1>11. Exclusive'
  BY <1>1, <1>6, Zenon DEF Exclusive, NoLostUpdate
<1>12. Phase'
  <2>1. q'.shutdown <=> main'.at \in {"join", "save", "exited"}
    BY <1>3, <1>7, Zenon DEF Phase
  <2>2. \A x \in Workers : worker'[x].at # "exited"
    BY <1>1, <1>6 DEF Phase
  <2>3. main'.at \notin {"save", "exited"} /\ saved' = -1
    BY <1>1, <1>7, Zenon DEF Phase
  <2> QED
    BY <2>1, <2>2, <2>3 DEF Phase
<1>13. Owned'
  <2>1. /\ main.fd # None => main.fd # c
        /\ \A x \in Workers : worker[x].fd # c
        /\ conn[c].net = "open"
        /\ \A i \in Queued' : q.fds[i] # c
    BY <1>4, <1>5 DEF Owned
  <2>2. main'.fd # None => /\ conn'[main'.fd].net = "open"
                           /\ \A i \in Queued' : q'.fds[i] # main'.fd
    BY <1>1, <1>3, <1>4, <1>7, SMTT(30) DEF Owned
  <2>3. /\ \A i \in Queued' : conn'[q'.fds[i]].net = "open"
        /\ \A i, j \in Queued' : q'.fds[i] = q'.fds[j] => i = j
    BY <1>1, <1>3, <1>4, SMTT(30) DEF Owned
  <2>4. \A x \in Workers : worker'[x].fd # None =>
           /\ conn'[worker'[x].fd].net = "open"
           /\ worker'[x].fd # main'.fd
           /\ \A i \in Queued' : q'.fds[i] # worker'[x].fd
           /\ \A y \in Workers : worker'[y].fd = worker'[x].fd => y = x
    <3> SUFFICES ASSUME NEW x \in Workers, worker'[x].fd # None
                 PROVE  /\ conn'[worker'[x].fd].net = "open"
                        /\ worker'[x].fd # main'.fd
                        /\ \A i \in Queued' : q'.fds[i] # worker'[x].fd
                        /\ \A y \in Workers : worker'[y].fd = worker'[x].fd => y = x
      BY Zenon
    <3>1. CASE x = w
      BY <1>1, <1>3, <1>5, <1>6, <1>7, <2>1, <3>1, ZenonT(40)
    <3>2. CASE x # w
      <4>1. worker'[x] = worker[x]
        BY <1>6, <3>2
      <4>2. /\ conn[worker[x].fd].net = "open" /\ worker[x].fd # main.fd
            /\ \A i \in Queued : q.fds[i] # worker[x].fd
            /\ \A y \in Workers : worker[y].fd = worker[x].fd => y = x
        BY <4>1, Zenon DEF Owned
      <4> QED
        BY <1>1, <1>3, <1>4, <1>6, <1>7, <2>1, <4>1, <4>2
    <3> QED
      BY <3>1, <3>2, Zenon
  <2>5. \A d \in Conns : conn'[d].net = "open" =>
           \/ main'.fd = d
           \/ \E i \in Queued' : q'.fds[i] = d
           \/ \E x \in Workers : worker'[x].fd = d
    BY <1>1, <1>3, <1>4, <1>6, <1>7, <1>8, PoolAssumption, SMTT(30) DEF Owned
  <2> QED
    BY <2>2, <2>3, <2>4, <2>5, Zenon DEF Owned
<1>14. Waiting'
  BY <1>1, Zenon DEF Waiting
<1>15. NoLostWakeup'
  <2>1. WorkersAt("empty")' = WorkersAt("empty")
    BY <1>1, <1>6, Zenon DEF WorkersAt
  <2>2. WorkersAt("pop") = WorkersAt("pop")' \cup {w} /\ w \notin WorkersAt("pop")'
    BY <1>1, <1>6, Zenon DEF WorkersAt
  <2>3. IsFiniteSet(WorkersAt("pop")')
    <3>1. WorkersAt("pop")' \subseteq Workers
      BY DEF WorkersAt
    <3> QED
      BY <3>1, WorkersFinite
  <2>4. /\ Cardinality(WorkersAt("pop")') \in Nat
        /\ Cardinality(WorkersAt("pop")) = Cardinality(WorkersAt("pop")') + 1
    BY <2>2, <2>3, OneMore, SMTT(30)
  <2>5. q.count \in Nat
    BY DEF Typed, QueueRec
  <2> QED
    BY <1>3, <1>7, <2>1, <2>4, <2>5, SMTT(30) DEF NoLostWakeup
<1>16. Paid'
  <2>1. Even(c) /\ Complete(<<>>) = 0
    <3>1. <<>> \in Seq(Unit)
      OBVIOUS
    <3> QED
      BY <1>4, <3>1, CompleteIs, Zenon DEF Paid
  <2> QED
    <3>1. main'.fd # None => conn'[main'.fd].replies = conn'[main'.fd].done
      BY <1>1, <1>7, Zenon DEF Paid, Even
    <3>2. \A i \in Queued' : conn'[q'.fds[i]].replies = conn'[q'.fds[i]].done
      BY <1>1, <1>3, <1>4, Zenon DEF Paid, Even
    <3>3. ASSUME NEW x \in Workers
          PROVE  /\ worker'[x].at \in {"read", "limit", "parse", "lock", "dispatch", "fatal"}
                      => conn'[worker'[x].fd].replies = conn'[worker'[x].fd].done
                 /\ worker'[x].at = "write"
                      => conn'[worker'[x].fd].replies + 1 = conn'[worker'[x].fd].done
                 /\ worker'[x].at = "read" => Complete(worker'[x].in) = 0
      <4>1. CASE x = w
        BY <1>1, <1>6, <2>1, <4>1, Zenon DEF Even
      <4>2. CASE x # w
        BY <1>1, <1>6, <4>2, Zenon DEF Paid, Even
      <4> QED
        BY <4>1, <4>2, Zenon
    <3> QED
      BY <1>1, <3>1, <3>2, <3>3, Zenon DEF Paid, Even
<1> QED
  BY <1>9, <1>10, <1>11, <1>12, <1>13, <1>14, <1>15, <1>16, SMTT(30)

(* wq_pop when the queue is empty: the worker sleeps or, in a shutdown,    *)
(* ends.                                                                   *)
LEMMA PopEmptyStep ==
  ASSUME PoolFacts, Inv, NEW w \in Workers, wq_pop(w), ~MayPop
  PROVE  Inv'
<1> USE DEF Inv
<1>1. PICK p \in {"exited", "empty"} :
        /\ worker' = [worker EXCEPT ![w].at = p]
        /\ p = "exited" <=> q.shutdown
  BY Zenon DEF wq_pop
<1>2. /\ worker[w].at = "pop" /\ ~(q.count > 0)
      /\ UNCHANGED <<flag, main, backlog, q, mu, store, seen, total, conn, saved>>
  BY Zenon DEF wq_pop, MayPop
<1>3. q.count = 0 /\ Queued' = Queued
  BY <1>2 DEF Typed, QueueRec, Queued
<1>4. Goes(w, p)
  BY <1>1, GoesTo, Zenon DEF Typed, Places
<1>5. \A x \in Workers : worker'[x].fd = worker[x].fd
  BY <1>4, Zenon DEF Goes
<1>6. Typed'
  BY <1>2, <1>4, Zenon DEF Typed, Goes
<1>7. FdsInPlace'
  BY <1>2, <1>3, <1>4, Zenon DEF FdsInPlace, Goes
<1>8. Exclusive'
  BY <1>2, <1>4, Zenon DEF Exclusive, NoLostUpdate, Goes
<1>9. Phase'
  BY <1>1, <1>2, <1>3, <1>4, ZenonT(40) DEF Phase, Goes
<1>10. Owned'
  BY <1>2, <1>3, <1>5, SMTT(30) DEF Owned
<1>11. Waiting'
  BY <1>2, Zenon DEF Waiting
<1>12. NoLostWakeup'
  <2>1. p = "exited" => WorkersAt("empty")' = WorkersAt("empty")
    BY <1>2, <1>4, Zenon DEF WorkersAt, Goes
  <2>2. q.shutdown => WorkersAt("empty") = {}
    BY Zenon DEF NoLostWakeup
  <2>3. WorkersAt("pop")' \subseteq Workers
    BY DEF WorkersAt
  <2>4. 0 <= Cardinality(WorkersAt("pop")')
    BY <2>3, WorkersFinite
  <2> QED
    BY <1>1, <1>2, <1>3, <2>1, <2>2, <2>4, SMTT(30) DEF NoLostWakeup
<1>13. Paid'
  BY <1>2, <1>3, <1>4, SMTT(30) DEF Paid, Even, Goes
<1> QED
  BY <1>6, <1>7, <1>8, <1>9, <1>10, <1>11, <1>12, <1>13, SMTT(30)

(* The steps of a worker, one by one.                                      *)
LEMMA WorkerSteps ==
  ASSUME PoolFacts, Inv, NEW w \in Workers, WorkerStep(w)
  PROVE  Inv'
<1>1. CASE wq_pop(w)
  BY <1>1, PopStep, PopEmptyStep, SMTT(30)
<1>2. CASE Read(w)
  BY <1>2, ReadStep
<1>3. CASE OverLimit(w)
  BY <1>3, OverLimitStep, SMTT(30)
<1>4. CASE Parse(w)
  BY <1>4, ParseStep
<1>5. CASE Lock(w)
  BY <1>5, LockStep
<1>6. CASE Dispatch(w)
  BY <1>6, DispatchStep
<1>7. CASE Write(w)
  BY <1>7, WriteStep
<1>8. CASE WriteError(w)
  BY <1>8, WriteErrorStep
<1>9. CASE Close(w)
  BY <1>9, CloseStep
<1> QED
  BY <1>1, <1>2, <1>3, <1>4, <1>5, <1>6, <1>7, <1>8, <1>9, SMTT(30) DEF WorkerStep
-----------------------------------------------------------------------------
(* The steps of the main thread that leave its fd alone.                   *)
LEMMA MainMoves ==
  ASSUME Inv, main' \in MainRec, main'.fd = main.fd,
         main'.at \in {"push", "full"} <=> main.at \in {"push", "full"},
         main'.at = "full" => q.count = QUEUE_CAPACITY /\ ~q.shutdown,
         flag' \in BOOLEAN, saved' \in Nat \cup {-1}, Phase',
         UNCHANGED <<backlog, q, worker, mu, store, seen, total, conn>>
  PROVE  Inv'
<1> USE DEF Inv
<1>1. Queued' = Queued /\ \A p : WorkersAt(p)' = WorkersAt(p)
  BY Zenon DEF Queued, WorkersAt
<1>2. Typed'
  BY Zenon DEF Typed
<1>3. FdsInPlace'
  BY <1>1, Zenon DEF FdsInPlace
<1>4. Exclusive' /\ Waiting'
  BY Zenon DEF Exclusive, NoLostUpdate, Waiting
<1>5. Owned'
  BY <1>1 DEF Owned
<1>6. NoLostWakeup'
  BY <1>1, Zenon DEF NoLostWakeup
<1>7. Paid'
  BY <1>1, Zenon DEF Paid, Even
<1> QED
  BY <1>2, <1>3, <1>4, <1>5, <1>6, <1>7, SMTT(30)

(* on_signal.                                                              *)
LEMMA SignalStep ==
  ASSUME Inv, on_signal
  PROVE  Inv'
<1>1. Phase'
  BY Zenon DEF on_signal, Inv, Phase
<1>2. main.at = "full" => q.count = QUEUE_CAPACITY /\ ~q.shutdown
  BY DEF Inv, NoLostWakeup
<1>3. main \in MainRec /\ saved \in Nat \cup {-1}
  BY DEF Inv, Typed
<1> QED
  BY <1>1, <1>2, <1>3, MainMoves DEF on_signal

(* The test of g_shutdown.                                                 *)
LEMMA CheckShutdownStep ==
  ASSUME Inv, CheckShutdown
  PROVE  Inv'
<1>1. /\ main' \in MainRec /\ main'.fd = main.fd /\ main'.at \in {"stop", "accept"}
      /\ main.at = "check"
  BY Zenon DEF CheckShutdown, Inv, Typed, MainRec
<1>2. Phase'
  BY <1>1, Zenon DEF CheckShutdown, Inv, Phase
<1>3. flag \in BOOLEAN /\ saved \in Nat \cup {-1}
  BY DEF Inv, Typed
<1> QED
  BY <1>1, <1>2, <1>3, MainMoves, Zenon DEF CheckShutdown

(* An accept that fails.                                                   *)
LEMMA AcceptFailsStep ==
  ASSUME Inv, AcceptFails
  PROVE  Inv'
<1>1. /\ main' \in MainRec /\ main'.fd = main.fd /\ main'.at \in {"stop", "check"}
      /\ main.at = "accept"
  BY Zenon DEF AcceptFails, Inv, Typed, MainRec
<1>2. Phase'
  BY <1>1, Zenon DEF AcceptFails, Inv, Phase
<1>3. flag \in BOOLEAN /\ saved \in Nat \cup {-1}
  BY DEF Inv, Typed
<1> QED
  BY <1>1, <1>2, <1>3, MainMoves, SMTT(30) DEF AcceptFails

(* The final save: nobody can change the store any more.                   *)
LEMMA SaveStep ==
  ASSUME Inv, Save
  PROVE  Inv'
<1>1. /\ main' \in MainRec /\ main'.fd = main.fd /\ main'.at = "exited"
      /\ main.at = "save"
  BY Zenon DEF Save, Inv, Typed, MainRec
<1>2. Phase'
  BY <1>1, Zenon DEF Save, Inv, Phase
<1>3. flag \in BOOLEAN /\ store \in Nat
  BY DEF Inv, Typed
<1> QED
  BY <1>1, <1>2, <1>3, MainMoves DEF Save

(* Some of the workers asleep come out of pthread_cond_wait.               *)
Wake ==
  /\ worker' \in [Workers -> WorkerRec]
  /\ \A x \in Workers :
       /\ worker'[x].fd = worker[x].fd /\ worker'[x].in = worker[x].in
       /\ worker'[x].at # worker[x].at => worker[x].at = "empty" /\ worker'[x].at = "pop"

(* The one that pthread_cond_signal wakes.                                 *)
LEMMA WakeOne ==
  ASSUME PoolFacts, Inv, NEW x \in WorkersAt("empty"), worker' = [worker EXCEPT ![x].at = "pop"]
  PROVE  /\ Wake
         /\ Cardinality(WorkersAt("pop")) \in Nat
         /\ Cardinality(WorkersAt("pop")') = Cardinality(WorkersAt("pop")) + 1
<1>1. x \in Workers /\ worker[x].at = "empty"
  BY DEF WorkersAt
<1>2. Goes(x, "pop") /\ worker'[x].in = worker[x].in
  BY <1>1, GoesTo, Zenon DEF Inv, Typed, Places
<1>3. Wake
  BY <1>1, <1>2, Zenon DEF Goes, Wake
<1>4. WorkersAt("pop")' = WorkersAt("pop") \cup {x} /\ x \notin WorkersAt("pop")
  BY <1>1, <1>2 DEF Goes, WorkersAt
<1>5. IsFiniteSet(WorkersAt("pop"))
  BY WorkersFinite DEF WorkersAt
<1> QED
  BY <1>3, <1>4, <1>5, OneMore, SMTT(30)

(* What a wakeup does not touch.                                           *)
LEMMA WakeKeeps ==
  ASSUME Inv, Wake, UNCHANGED <<mu, store, seen, total, conn>>
  PROVE  /\ \A x \in Workers :
              worker'[x].fd # None <=> worker'[x].at \notin {"pop", "empty", "exited"}
         /\ \A x \in Workers : worker'[x].at = "exited" <=> worker[x].at = "exited"
         /\ Exclusive'
         /\ \A x \in Workers :
              /\ worker'[x].at \in {"read", "limit", "parse", "lock", "dispatch", "fatal"}
                   => Even(worker[x].fd)'
              /\ worker'[x].at = "write"
                   => conn'[worker'[x].fd].replies + 1 = conn'[worker'[x].fd].done
              /\ worker'[x].at = "read" => Complete(worker'[x].in) = 0
<1>1. \A x \in Workers :
        worker'[x].fd # None <=> worker'[x].at \notin {"pop", "empty", "exited"}
  BY Zenon DEF Inv, Wake, FdsInPlace
<1>2. \A x \in Workers : worker'[x].at = "exited" <=> worker[x].at = "exited"
  BY Zenon DEF Wake
<1>3. Exclusive'
  BY Zenon DEF Inv, Wake, Exclusive, NoLostUpdate
<1>4. \A x \in Workers :
        /\ worker'[x].at \in {"read", "limit", "parse", "lock", "dispatch", "fatal"}
             => Even(worker[x].fd)'
        /\ worker'[x].at = "write"
             => conn'[worker'[x].fd].replies + 1 = conn'[worker'[x].fd].done
        /\ worker'[x].at = "read" => Complete(worker'[x].in) = 0
  BY DEF Inv, Wake, Paid, Even
<1> QED
  BY <1>1, <1>2, <1>3, <1>4, Zenon

(* A wakeup that nobody has asked for, of a worker or the main thread.     *)
LEMMA SpuriousStep ==
  ASSUME PoolFacts, Inv, SpuriousWakeup
  PROVE  Inv'
<1> USE DEF Inv
<1>1. CASE /\ main.at = "full" /\ main' = [main EXCEPT !.at = "push"]
           /\ UNCHANGED <<flag, backlog, q, worker, mu, store, seen, total, conn, saved>>
  <2>1. main' \in MainRec /\ main'.fd = main.fd /\ main'.at = "push"
    BY <1>1 DEF Typed, MainRec
  <2>2. Phase'
    BY <1>1, <2>1 DEF Phase
  <2>3. flag' \in BOOLEAN /\ saved' \in Nat \cup {-1}
    BY <1>1 DEF Typed
  <2> QED
    BY <1>1, <2>1, <2>2, <2>3, MainMoves, Zenon
<1>2. ASSUME NEW x \in WorkersAt("empty"), worker' = [worker EXCEPT ![x].at = "pop"],
             UNCHANGED <<flag, main, backlog, q, mu, store, seen, total, conn, saved>>
      PROVE  Inv'
  <2>1. /\ Wake
        /\ Cardinality(WorkersAt("pop")) \in Nat
        /\ Cardinality(WorkersAt("pop")') = Cardinality(WorkersAt("pop")) + 1
    BY <1>2, WakeOne, Zenon
  <2>2. Queued' = Queued
    BY <1>2 DEF Queued
  <2>3. Typed'
    BY <1>2, <2>1, Zenon DEF Typed, Wake
  <2>4. FdsInPlace' /\ Exclusive'
    BY <1>2, <2>1, <2>2, WakeKeeps, Zenon DEF FdsInPlace
  <2>5. Phase'
    BY <1>2, <2>1, WakeKeeps, Zenon DEF Phase
  <2>6. Owned' /\ Waiting'
    BY <1>2, <2>1, <2>2, SMTT(30) DEF Owned, Waiting, Wake
  <2>7. NoLostWakeup'
    <3>1. q.count \in Nat /\ WorkersAt("empty") # {}
      BY <1>2 DEF Typed, QueueRec
    <3> QED
      BY <1>2, <2>1, <3>1 DEF NoLostWakeup
  <2>8. Paid'
    BY <1>2, <2>1, <2>2, WakeKeeps, Zenon DEF Paid, Even
  <2> QED
    BY <2>3, <2>4, <2>5, <2>6, <2>7, <2>8, SMTT(30)
<1> QED
  BY <1>1, <1>2, Zenon DEF SpuriousWakeup

(* wq_push.  There is no shutdown yet, so the main thread waits or hands   *)
(* its fd to the ring.                                                     *)
LEMMA PushStep ==
  ASSUME PoolFacts, Inv, wq_push
  PROVE  Inv'
<1> USE DEF Inv
<1> DEFINE c == main.fd
<1>1. /\ main.at = "push" /\ ~q.shutdown /\ c # None /\ c \in Conns
      /\ UNCHANGED <<flag, backlog, mu, store, seen, total, saved>>
  BY FdsAreConns, Zenon DEF wq_push, Phase, FdsInPlace
<1>2. CASE /\ q.count = QUEUE_CAPACITY
           /\ main' = [main EXCEPT !.at = "full"]
           /\ UNCHANGED <<q, worker, conn>>
  <2>1. main' \in MainRec /\ main'.fd = main.fd /\ main'.at = "full"
    BY <1>2 DEF Typed, MainRec
  <2>2. Phase'
    BY <1>1, <1>2, <2>1, SMTT(30) DEF Phase
  <2>3. flag' \in BOOLEAN /\ saved' \in Nat \cup {-1}
    BY <1>1 DEF Typed
  <2> QED
    BY <1>1, <1>2, <2>1, <2>2, <2>3, MainMoves, SMTT(30)
<1>3. CASE /\ q.count # QUEUE_CAPACITY
           /\ main' = [at |-> "check", fd |-> None]
           /\ q' = Pushed(c) /\ SignalNotEmpty /\ UNCHANGED conn
  <2>1. q.count < QUEUE_CAPACITY /\ q.count + 1 \in 0 .. QUEUE_CAPACITY
    BY <1>3, PoolAssumption DEF Typed, QueueRec
  <2>2. NextSlot(q.tail) \in 0 .. QUEUE_CAPACITY - 1
    BY NextSlotIs, PoolAssumption DEF Typed, QueueRec
  <2>3. /\ q' \in QueueRec /\ q'.head = q.head /\ q'.tail = NextSlot(q.tail)
        /\ q'.count = q.count + 1 /\ ~q'.shutdown
        /\ q'.fds[q.tail] = c
        /\ \A i \in 0 .. QUEUE_CAPACITY - 1 : i # q.tail => q'.fds[i] = q.fds[i]
    BY <1>1, <1>3, <2>1, <2>2, Zenon DEF Typed, QueueRec, Pushed
  <2>4. q.tail \notin Queued /\ Queued' = Queued \cup {q.tail}
    BY <2>1, <2>3, PushSlots, Zenon DEF Typed, FdsInPlace
  <2>5. /\ Wake
        /\ WorkersAt("empty") # {} =>
             /\ Cardinality(WorkersAt("pop")) \in Nat
             /\ Cardinality(WorkersAt("pop")') = Cardinality(WorkersAt("pop")) + 1
    <3>1. CASE WorkersAt("empty") = {} /\ worker' = worker
      BY <3>1 DEF Wake, Typed
    <3>2. CASE \E x \in WorkersAt("empty") : worker' = [worker EXCEPT ![x].at = "pop"]
      BY <3>2, WakeOne, Zenon
    <3> QED
      BY <1>3, <3>1, <3>2 DEF SignalNotEmpty
  <2>6. \A i \in Queued : q'.fds[i] = q.fds[i]
    BY <2>3, <2>4, Zenon DEF Queued
  <2>7. Typed'
    BY <1>1, <1>3, <2>3, <2>5, Zenon DEF Typed, Wake, MainRec
  <2>8. FdsInPlace'
    <3>1. main'.fd = None /\ main'.at = "check"
      BY <1>3
    <3>2. q'.tail = IF q'.head + q'.count < QUEUE_CAPACITY
                    THEN q'.head + q'.count ELSE q'.head + q'.count - QUEUE_CAPACITY
      <4>1. q'.tail = IF q.tail = QUEUE_CAPACITY - 1 THEN 0 ELSE q.tail + 1
        BY <2>3, NextSlotIs, Zenon DEF Typed, QueueRec
      <4>2. /\ QUEUE_CAPACITY \in Nat /\ q.head \in 0 .. QUEUE_CAPACITY - 1
            /\ q.count \in 0 .. QUEUE_CAPACITY - 1
        BY <2>1, PoolAssumption DEF Typed, QueueRec
      <4>3. q.tail = IF q.head + q.count < QUEUE_CAPACITY
                     THEN q.head + q.count ELSE q.head + q.count - QUEUE_CAPACITY
        BY Zenon DEF FdsInPlace
      <4> QED
        BY <2>3, <4>1, <4>2, <4>3, SMTT(30)
    <3>3. \A i \in Queued' : q'.fds[i] # None
      BY <1>1, <2>3, <2>4, <2>6, Zenon DEF FdsInPlace
    <3> QED
      BY <1>1, <1>3, <2>5, <3>1, <3>2, <3>3, WakeKeeps, Zenon DEF FdsInPlace
  <2>9. Exclusive'
    BY <1>1, <1>3, <2>5, WakeKeeps, Zenon
  <2>10. Phase'
    <3>1. \A x \in Workers : worker'[x].at # "exited"
      BY <1>1, <2>5, Zenon DEF Phase, Wake
    <3>2. saved = -1
      BY <1>1 DEF Phase
    <3> QED
      BY <1>1, <1>3, <2>3, <3>1, <3>2, Zenon DEF Phase
  <2>11. Owned'
    <3>1. /\ conn[c].net = "open" /\ \A i \in Queued : q.fds[i] # c
          /\ \A x \in Workers : worker[x].fd # c
      BY <1>1, Zenon DEF Owned
    <3>2. \A x \in Workers : worker'[x].fd = worker[x].fd
      BY <2>5, ZenonT(40) DEF Wake
    <3>3. /\ \A i \in Queued' : conn'[q'.fds[i]].net = "open"
          /\ \A i, j \in Queued' : q'.fds[i] = q'.fds[j] => i = j
      BY <1>3, <2>3, <2>4, <2>6, <3>1, SMTT(30) DEF Owned
    <3>4. \A x \in Workers : worker'[x].fd # None =>
            /\ conn'[worker'[x].fd].net = "open"
            /\ worker'[x].fd # main'.fd
            /\ \A i \in Queued' : q'.fds[i] # worker'[x].fd
            /\ \A y \in Workers : worker'[y].fd = worker'[x].fd => y = x
      BY <1>3, <2>3, <2>4, <2>6, <3>1, <3>2, SMTT(30) DEF Owned
    <3>5. \A d \in Conns : conn'[d].net = "open" =>
            \/ \E i \in Queued' : q'.fds[i] = d
            \/ \E x \in Workers : worker'[x].fd = d
      BY <1>3, <2>3, <2>4, <2>6, <3>2, SMTT(30) DEF Owned
    <3> QED
      BY <1>3, <3>3, <3>4, <3>5, Zenon DEF Owned
  <2>12. Waiting'
    BY <1>1, <1>3, Zenon DEF Waiting
  <2>13. NoLostWakeup'
    <3>1. q.count \in Nat
      BY DEF Typed, QueueRec
    <3>2. WorkersAt("empty")' # {} => WorkersAt("empty") # {}
      BY <2>5 DEF Wake, WorkersAt
    <3> QED
      BY <1>3, <2>3, <2>5, <3>1, <3>2, SMTT(30) DEF NoLostWakeup
  <2>14. Paid'
    <3>1. \A i \in Queued' : Even(q.fds[i])'
      BY <1>1, <1>3, <2>3, <2>4, <2>6, ZenonT(40) DEF Paid, Even
    <3> QED
      BY <1>1, <1>3, <2>5, <3>1, WakeKeeps, Zenon DEF Paid, Even
  <2> QED
    BY <2>7, <2>8, <2>9, <2>10, <2>11, <2>12, <2>13, <2>14, SMTT(30)
<1> QED
  BY <1>1, <1>2, <1>3, Zenon DEF wq_push

(* wq_shutdown: every worker asleep is woken.                              *)
LEMMA ShutdownStep ==
  ASSUME Inv, wq_shutdown
  PROVE  Inv'
<1> USE DEF Inv
<1>1. /\ main.at = "stop" /\ main' = [main EXCEPT !.at = "join"]
      /\ q' = [q EXCEPT !.shutdown = TRUE] /\ worker' = Broadcast
      /\ UNCHANGED <<flag, backlog, mu, store, seen, total, conn, saved>>
  BY DEF wq_shutdown
<1>2. /\ main' \in MainRec /\ main'.at = "join" /\ main'.fd = main.fd
  BY <1>1, Zenon DEF Typed, MainRec
<1>3. /\ q' \in QueueRec /\ q'.shutdown
      /\ q'.fds = q.fds /\ q'.head = q.head /\ q'.tail = q.tail /\ q'.count = q.count
  BY <1>1, Zenon DEF Typed, QueueRec
<1>4. Queued' = Queued
  BY <1>3 DEF Queued
<1>5. Wake /\ WorkersAt("empty")' = {}
  <2>1. worker' \in [Workers -> WorkerRec]
    BY <1>1, ZenonT(40) DEF Typed, WorkerRec, Broadcast, Places
  <2>2. \A x \in Workers :
          /\ worker'[x].fd = worker[x].fd /\ worker'[x].in = worker[x].in
          /\ worker'[x].at = IF worker[x].at = "empty" THEN "pop" ELSE worker[x].at
    BY <1>1 DEF Typed, WorkerRec, Broadcast
  <2> QED
    BY <2>1, <2>2, Zenon DEF Wake, WorkersAt
<1>6. Typed'
  BY <1>1, <1>2, <1>3, <1>5, Zenon DEF Typed, Wake
<1>7. FdsInPlace' /\ Exclusive'
  BY <1>1, <1>2, <1>3, <1>4, <1>5, WakeKeeps, SMTT(30) DEF FdsInPlace
<1>8. Phase'
  <2>1. \A x \in Workers : worker'[x].at # "exited"
    BY <1>1, <1>5 DEF Phase, Wake
  <2> QED
    BY <1>1, <1>2, <1>3, <2>1, Zenon DEF Phase
<1>9. Owned'
  BY <1>1, <1>2, <1>3, <1>4, <1>5, SMTT(30) DEF Owned, Wake
<1>10. Waiting'
  BY <1>1 DEF Waiting
<1>11. NoLostWakeup'
  BY <1>2, <1>5, SMTT(30) DEF NoLostWakeup
<1>12. Paid'
  BY <1>1, <1>2, <1>3, <1>4, <1>5, WakeKeeps, SMTT(30) DEF Paid, Even
<1> QED
  BY <1>6, <1>7, <1>8, <1>9, <1>10, <1>11, <1>12, SMTT(30)

(* The workers have ended; nobody has an fd, and the backlog is closed.    *)
LEMMA JoinStep ==
  ASSUME Inv, Join
  PROVE  Inv'
<1> USE DEF Inv
<1>1. /\ main.at = "join" /\ main' = [main EXCEPT !.at = "save"] /\ backlog' = <<>>
      /\ \A w \in Workers : worker[w].at = "exited"
      /\ UNCHANGED <<flag, q, worker, mu, store, seen, total, saved>>
  BY Zenon DEF Join, AllExited, WorkersAt
<1>2. /\ main' \in MainRec /\ main'.at = "save" /\ main'.fd = main.fd
  BY <1>1 DEF Typed, MainRec
<1>3. /\ conn' \in [Conns -> ConnRec]
      /\ \A c \in Conns :
           /\ conn'[c].net = IF conn[c].net = "backlog" THEN "closed" ELSE conn[c].net
           /\ conn'[c].done = conn[c].done /\ conn'[c].replies = conn[c].replies
  BY ZenonT(40) DEF Join, Typed, ConnRec
<1>4. main.fd = None /\ \A w \in Workers : worker[w].fd = None
  BY <1>1 DEF FdsInPlace
<1>5. Queued' = Queued /\ \A p : WorkersAt(p)' = WorkersAt(p)
  BY <1>1 DEF Queued, WorkersAt
<1>6. \A i \in Queued : q.fds[i] \in Conns
  BY FdsAreConns
<1>7. Typed'
  BY <1>1, <1>2, <1>3 DEF Typed
<1>8. FdsInPlace'
  BY <1>1, <1>2, <1>5 DEF FdsInPlace
<1>9. Exclusive'
  BY <1>1 DEF Exclusive, NoLostUpdate
<1>10. Phase'
  BY <1>1, <1>2 DEF Phase
<1>11. Owned'
  BY <1>1, <1>2, <1>3, <1>4, <1>5, <1>6, SMTT(30) DEF Owned
<1>12. Waiting'
  BY <1>1 DEF Waiting
<1>13. NoLostWakeup'
  BY <1>1, <1>2, <1>5 DEF NoLostWakeup
<1>14. Paid'
  BY <1>1, <1>2, <1>3, <1>4, <1>5, <1>6, ZenonT(40) DEF Paid, Even
<1> QED
  BY <1>7, <1>8, <1>9, <1>10, <1>11, <1>12, <1>13, <1>14

(* Accept: the connection leaves the backlog and is the main thread's.     *)
LEMMA AcceptStep ==
  ASSUME Inv, Accept
  PROVE  Inv'
<1> USE DEF Inv
<1> DEFINE c == Head(backlog)
<1>1. /\ main.at = "accept" /\ backlog # <<>>
      /\ main' = [at |-> "push", fd |-> c] /\ backlog' = Tail(backlog)
      /\ conn' = [conn EXCEPT ![c].net = "open"]
      /\ UNCHANGED <<flag, q, worker, mu, store, seen, total, saved>>
  BY Zenon DEF Accept
<1>2. backlog \in Seq(Conns) /\ Len(backlog) \in Nat
  BY DEF Typed
<1>3. /\ c \in Conns /\ c # None /\ c = backlog[1] /\ Len(backlog) > 0
      /\ backlog' \in Seq(Conns) /\ Len(backlog') = Len(backlog) - 1
      /\ \A i \in 1 .. Len(backlog') : backlog'[i] = backlog[i + 1]
  BY <1>1, <1>2, PoolAssumption, SMTT(30)
<1>4. conn[c].net = "backlog"
  BY <1>2, <1>3 DEF Waiting
<1>5. ConnIs(c, "open", conn[c].done, conn[c].replies)
  BY <1>1, <1>3, ConnNet, Zenon DEF Typed
<1>6. Queued' = Queued /\ \A p : WorkersAt(p)' = WorkersAt(p)
  BY <1>1 DEF Queued, WorkersAt
<1>7. /\ main.fd = None
      /\ \A i \in Queued : q.fds[i] # c /\ q.fds[i] \in Conns
      /\ \A w \in Workers : worker[w].fd # c /\ (worker[w].fd # None => worker[w].fd \in Conns)
  BY <1>1, <1>3, <1>4, FdsAreConns, SMTT(30) DEF Owned, FdsInPlace
<1>8. Typed'
  BY <1>1, <1>3, <1>5, Zenon DEF Typed, ConnIs, MainRec
<1>9. FdsInPlace'
  BY <1>1, <1>3, <1>6, Zenon DEF FdsInPlace
<1>10. Exclusive'
  BY <1>1, Zenon DEF Exclusive, NoLostUpdate
<1>11. Phase'
  BY <1>1, Zenon DEF Phase
<1>12. Owned'
  <2>1. /\ conn'[c].net = "open" /\ main'.fd = c
        /\ \A d \in Conns \ {c} : conn'[d].net = conn[d].net
    BY <1>1, <1>3, <1>5, Zenon DEF ConnIs
  <2>2. \A i \in Queued : conn'[q.fds[i]].net = "open"
    BY <1>7, <2>1, Zenon DEF Owned
  <2>3. \A w \in Workers : worker[w].fd # None => conn'[worker[w].fd].net = "open"
    BY <1>7, <2>1, Zenon DEF Owned
  <2>4. ASSUME NEW d \in Conns, conn'[d].net = "open", d # c
        PROVE  (\E i \in Queued : q.fds[i] = d) \/ (\E w \in Workers : worker[w].fd = d)
    <3>1. conn[d].net = "open" /\ main.fd # d
      BY <1>7, <2>1, <2>4, PoolAssumption, Zenon
    <3> QED
      BY <3>1, Zenon DEF Owned
  <2> QED
    BY <1>1, <1>3, <1>6, <1>7, <2>1, <2>2, <2>3, <2>4, SMTT(30) DEF Owned
<1>13. Waiting'
  <2>1. \A i, j \in 1 .. Len(backlog') : backlog'[i] = backlog'[j] => i = j
    BY <1>2, <1>3 DEF Waiting
  <2>2. \A i \in 1 .. Len(backlog') : backlog'[i] # c /\ backlog'[i] \in Conns
    BY <1>2, <1>3 DEF Waiting
  <2>3. \A i \in 1 .. Len(backlog') : conn[backlog'[i]].net = "backlog"
    BY <1>2, <1>3 DEF Waiting
  <2> QED
    BY <1>5, <2>1, <2>2, <2>3, Zenon DEF Waiting, ConnIs
<1>14. NoLostWakeup'
  BY <1>1, <1>6, Zenon DEF NoLostWakeup
<1>15. Paid'
  <2>1. conn[c].replies = conn[c].done /\ conn[c].done \in Nat
    BY <1>3, <1>4, Zenon DEF Paid, Even, Typed, ConnRec
  <2>2. \A w \in Workers : worker[w].fd # None => conn'[worker[w].fd] = conn[worker[w].fd]
    BY <1>5, <1>7, Zenon DEF ConnIs
  <2>3. \A w \in Workers :
          worker[w].at \in {"read", "limit", "parse", "lock", "dispatch", "fatal", "write"}
            => worker[w].fd # None
    BY Zenon DEF FdsInPlace
  <2>4. \A i \in Queued' : Even(q.fds[i])'
    BY <1>1, <1>5, <1>6, <1>7, ZenonT(40) DEF Paid, Even, ConnIs
  <2>5. \A d \in Conns : /\ conn'[d].replies <= conn'[d].done
                         /\ conn'[d].net \in {"new", "backlog"} => Even(d)'
    BY <1>3, <1>5, <2>1, SMTT(30) DEF Paid, Even, ConnIs
  <2>6. Even(main.fd)'
    BY <1>1, <1>5, <2>1, Zenon DEF Even, ConnIs
  <2> QED
    BY <1>1, <2>2, <2>3, <2>4, <2>5, <2>6, SMTT(30) DEF Paid, Even
<1> QED
  BY <1>8, <1>9, <1>10, <1>11, <1>12, <1>13, <1>14, <1>15
-----------------------------------------------------------------------------
(* Every step of the threads, the clients and the kernel keeps Inv.        *)
LEMMA NextInv ==
  ASSUME PoolFacts, Inv, [Next]_vars
  PROVE  Inv'
<1>1. ASSUME NEW c \in Conns, Connect(c) \/ Send(c) \/ Hangup(c)
      PROVE  Inv'
  BY <1>1, ConnectStep, SendStep, HangupStep, SMTT(30)
<1>2. CASE on_signal
  BY <1>2, SignalStep
<1>3. CASE MainStep
  BY <1>3, CheckShutdownStep, AcceptStep, PushStep, ShutdownStep, JoinStep, SaveStep, SMTT(30)
  DEF MainStep
<1>4. CASE AcceptFails
  BY <1>4, AcceptFailsStep
<1>5. ASSUME NEW w \in Workers, WorkerStep(w)
      PROVE  Inv'
  BY <1>5, WorkerSteps, SMTT(30)
<1>6. CASE SpuriousWakeup
  BY <1>6, SpuriousStep
<1>7. CASE UNCHANGED vars
  <2>1. UNCHANGED <<flag, main, backlog, q, worker, mu, store, seen, total, saved>>
        /\ conn' = conn
    BY <1>7 DEF vars
  <2> QED
    BY <2>1, ClientStep, Zenon DEF Inv, Typed
<1> QED
  BY <1>1, <1>2, <1>3, <1>4, <1>5, <1>6, <1>7, SMTT(30) DEF Next

-----------------------------------------------------------------------------
(* The facts about finite sets, from the library. *)
INSTANCE FiniteSetTheorems

LEMMA PoolFactsHold == PoolFacts
<1>1. Least
  <2>1. IsWellFoundedOn(OpToRel(<, Nat), Nat)
    BY NatLessThanWellFounded, Zenon
  <2>2. \A S \in SUBSET Nat : S # {} =>
          \E x \in S : \A y \in S : ~ (<<y, x>> \in OpToRel(<, Nat))
    BY <2>1, WFMin, Zenon
  <2>3. \A x, y \in Nat : y < x => <<y, x>> \in OpToRel(<, Nat)
    BY Zenon DEF OpToRel
  <2>4. \A S \in SUBSET Nat : S # {} => \E x \in S : \A y \in S : ~ (y < x)
    BY <2>2, <2>3, Zenon
  <2>5. \A x, y \in Nat : ~ (y < x) => x <= y
    OBVIOUS
  <2>6. QED
    BY <2>4, <2>5, Zenon DEF Least
<1>2. CountType
  BY FS_EmptySet, FS_CardinalityType DEF CountType
<1>3. SubsetCount
  BY FS_Subset DEF SubsetCount
<1>4. AddCount
  BY FS_AddElement DEF AddCount
<1> QED
  BY <1>1, <1>2, <1>3, <1>4, Zenon DEF PoolFacts

(* In every state of the server Inv holds: it relates where every thread   *)
(* of server_threaded.c is to the queue, the store and the connections.    *)
THEOREM Invariance == Spec => []Inv
<1>1. Inv /\ [Next]_vars => Inv'
  BY PoolFactsHold, NextInv
<1> QED
  BY <1>1, InitInv, PTL DEF Spec
-----------------------------------------------------------------------------
(* Every variable of server_threaded.c keeps its type; among them the      *)
(* ring's head, tail and count stay in range.                              *)
THEOREM TypeCorrect == Spec => []TypeOK
<1>1. Inv => TypeOK
  BY ZenonT(40) DEF Inv, Typed, TypeOK, MainRec, QueueRec, WorkerRec, ConnRec, Places
<1> QED
  BY <1>1, Invariance, PTL

(* An accepted fd is the main thread's, in one slot of the ring or one     *)
(* worker's until it is closed, and nobody's after that.                   *)
THEOREM OwnersUnique == Spec => []OneOwner
<1>1. ASSUME Inv, NEW c \in Conns
      PROVE  IF conn[c].net = "open" THEN \E o \in Owners(c) : Owners(c) = {o}
                                     ELSE Owners(c) = {}
  <2> USE <1>1
  <2>1. Owned /\ c # None
    BY PoolAssumption DEF Inv
  <2>2. ASSUME main.fd = c
        PROVE  Owners(c) = {<<"main", c>>}
    <3>1. {j \in Queued : q.fds[j] = c} = {} /\ {x \in Workers : worker[x].fd = c} = {}
      BY <2>1, <2>2 DEF Owned
    <3>2. {main.fd} \cap {c} = {c}
      BY <2>2
    <3> QED
      BY <3>1, <3>2, Zenon DEF Owners
  <2>3. ASSUME NEW i \in Queued, q.fds[i] = c
        PROVE  Owners(c) = {<<"slot", i>>}
    <3>1. {j \in Queued : q.fds[j] = c} = {i} /\ {x \in Workers : worker[x].fd = c} = {}
      BY <2>1, <2>3, SMTT(30) DEF Owned
    <3>2. {main.fd} \cap {c} = {}
      BY <2>1, <2>3 DEF Owned
    <3> QED
      BY <3>1, <3>2, Zenon DEF Owners
  <2>4. ASSUME NEW w \in Workers, worker[w].fd = c
        PROVE  Owners(c) = {<<"worker", w>>}
    <3>1. {j \in Queued : q.fds[j] = c} = {} /\ {x \in Workers : worker[x].fd = c} = {w}
      BY <2>1, <2>4, SMTT(30) DEF Owned
    <3>2. {main.fd} \cap {c} = {}
      BY <2>1, <2>4 DEF Owned
    <3> QED
      BY <3>1, <3>2, Zenon DEF Owners
  <2>5. CASE conn[c].net = "open"
    <3>1. \/ main.fd = c
          \/ \E i \in Queued : q.fds[i] = c
          \/ \E w \in Workers : worker[w].fd = c
      BY <2>1, <2>5, Zenon DEF Owned
    <3>2. \E o : Owners(c) = {o}
      BY <2>2, <2>3, <2>4, <3>1, ZenonT(40)
    <3> QED
      BY <2>5, <3>2, Zenon
  <2>6. CASE conn[c].net # "open"
    <3>1. {j \in Queued : q.fds[j] = c} = {} /\ {x \in Workers : worker[x].fd = c} = {}
      BY <2>1, <2>6, SMTT(30) DEF Owned
    <3>2. {main.fd} \cap {c} = {}
      BY <2>1, <2>6, ZenonT(40) DEF Owned
    <3> QED
      BY <2>6, <3>1, <3>2, ZenonT(40) DEF Owners
  <2> QED
    BY <2>5, <2>6, ZenonT(40)
<1>2. Inv => OneOwner
  BY <1>1, Zenon DEF OneOwner
<1> QED
  BY <1>2, Invariance, PTL

(* No signal of not_empty or not_full is lost: one per push, sent with the *)
(* queue locked, is enough however many workers sleep or are on their way. *)
THEOREM WakeupsKept == Spec => []NoLostWakeup
<1>1. Inv => NoLostWakeup
  BY SMTT(30) DEF Inv
<1> QED
  BY <1>1, Invariance, PTL

(* g_store_mu makes the read and the write of the store one step: no       *)
(* command's change is overwritten by another worker's.                    *)
THEOREM UpdatesKept == Spec => []NoLostUpdate
<1>1. Inv => NoLostUpdate
  BY DEF Inv, Exclusive
<1> QED
  BY <1>1, Invariance, PTL

(* The save made at the end of main holds every command that any client    *)
(* has been sent a reply for, though it does not lock the store.           *)
THEOREM FinalSave == Spec => []FinalSaveComplete
<1>1. ASSUME Inv
      PROVE  FinalSaveComplete
  <2> USE <1>1 DEF Inv
  <2>1. saved # -1 => saved = store
    BY DEF Phase
  <2>2. ASSUME main.at \in {"save", "exited"}, NEW c \in Conns
        PROVE  conn[c].net # "open"
    <3>1. \A w \in Workers : worker[w].at = "exited"
      BY <2>2 DEF Phase
    <3>2. main.fd = None /\ \A w \in Workers : worker[w].fd = None
      BY <2>2, <3>1, SMTT(30) DEF FdsInPlace
    <3>3. q.count = 0
      BY <3>1, PoolAssumption, SMTT(30) DEF Phase
    <3>4. Queued = {}
      BY <3>3, PoolAssumption, SMTT(30) DEF Queued, Typed, QueueRec
    <3> QED
      BY <3>2, <3>4, PoolAssumption, SMTT(30) DEF Owned
  <2>3. \A c \in Conns : conn[c].replies <= conn[c].done
    BY Zenon DEF Paid
  <2> QED
    BY <2>1, <2>2, <2>3, SMTT(30) DEF FinalSaveComplete
<1> QED
  BY <1>1, Invariance, PTL

(* A worker of serve_connection goes back to read() only when no whole     *)
(* command is left in its buffer and its client is owed no reply.          *)
THEOREM NothingLeftBehind == Spec => []NoCommandLeftBehind
<1>1. Inv => NoCommandLeftBehind
  BY Zenon DEF Inv, Paid, Even, NoCommandLeftBehind, WorkersAt
<1> QED
  BY <1>1, Invariance, PTL
=============================================================================
