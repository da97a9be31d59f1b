--------------------------- MODULE EventLoopProofs --------------------------
(***************************************************************************)
(* Theorems about EventLoop, for any number of clients and descriptors,    *)
(* any sizes of the buffers and anything that clients send: the inductive  *)
(* invariant, facts about the operators, what a step does to the invariant *)
(* that only moves the loop, serves one connection or closes one; that     *)
(* every step keeps it; and what follows from it.                          *)
(***************************************************************************)
EXTENDS EventLoop, SetFacts, TLAPS

(* What the lemmas use of finite sets. *)
LoopFacts ==
  /\ Least /\ CountType /\ IntervalCount /\ SubsetCount /\ AddCount
  /\ UnionCount

Reply    == {"ok", "err"}
EventRec == [fd : Fds \cup {Listen}, who : Clients \cup {Null},
             ev : SUBSET {"in", "out", "hup"}]
LoopRec  == [at : {"check", "enter", "wait", "next", "accept", "read", "flush",
                   "exited"},
             batch : Seq(EventRec), fd : Fds \cup {Listen}, ev : SUBSET {"out"}]
ConnRec  == [who : Clients, in : Seq(Unit), out : Seq(Reply), out_sent : Nat,
             closing : BOOLEAN, want_write : BOOLEAN]
SockRec  == [net : {"new", "backlog", "open", "closed"},
             peer : {"here", "half", "gone", "reset"},
             sent : Seq(Unit), todo : Seq(Unit), wbuf : 0 .. SendBuf,
             asked : Nat, done : Nat, wrote : Nat]

(* A conn_t, and what an entry of g_conns may be.                          *)
GoodConn == {c \in ConnRec : /\ Len(c.in) <= MAX_CONN_INPUT_BUF
                             /\ c.out_sent <= Len(c.out)}
Slots    == GoodConn \cup {Free}

Typed ==
  /\ flag \in BOOLEAN
  /\ loop \in LoopRec
  /\ backlog \in Seq(Clients)
  /\ g_conns \in [Fds -> Slots]
  /\ sock \in [Clients -> SockRec]

(* The handlers are at work on a connection, and its fd has no other event *)
(* in what is left of the batch, which holds no fd twice.                  *)
Handling ==
  /\ loop.at \in {"read", "flush"} =>
       /\ loop.fd \in Fds /\ Present(loop.fd)
       /\ \A i \in 1 .. Len(loop.batch) : loop.batch[i].fd # loop.fd
  /\ \A i, j \in 1 .. Len(loop.batch) : loop.batch[i].fd = loop.batch[j].fd => i = j
  /\ \A i \in 1 .. Len(loop.batch) : loop.batch[i].fd # Listen =>
       /\ loop.batch[i].who # Null
       /\ g_conns[loop.batch[i].fd].who = loop.batch[i].who
  /\ loop.at \in {"check", "enter", "wait", "exited"} => loop.batch = <<>>

(* TableExact without counting.                                            *)
Table ==
  /\ \A f \in Fds : Present(f) => Peer(f).net = "open"
  /\ \A f, g \in Fds : Present(f) /\ g_conns[f].who = g_conns[g].who => f = g
  /\ \A c \in Clients : sock[c].net = "open" => \E f \in Fds : g_conns[f].who = c

(* What the kernel holds for accept4 are connections nobody has accepted,  *)
(* each once, for which nothing has been done.                             *)
Backlogged ==
  /\ \A i \in 1 .. Len(backlog) : sock[backlog[i]].net = "backlog"
  /\ \A i, j \in 1 .. Len(backlog) : backlog[i] = backlog[j] => i = j
  /\ \A c \in Clients : sock[c].net \in {"new", "backlog"} =>
       sock[c].done = 0 /\ sock[c].wrote = 0

(* OutputArmed, NoCommandLeftBehind and RepliesExact, of one conn_t.       *)
ArmedRight(c) == /\ c.want_write <=> c.out_sent < Len(c.out)
                 /\ c.closing => c.want_write
Parsed(c)     == c.closing \/ \A i \in 1 .. Len(c.in) : c.in[i] = "part"
Unsent(c)     == Count(c.out, "ok", c.out_sent + 1, Len(c.out))

Served ==
  \A f \in Fds : Present(f) =>
    /\ ~(loop.at \in {"read", "flush"} /\ loop.fd = f) => ArmedRight(g_conns[f])
    /\ ~(loop.at = "read" /\ loop.fd = f) => Parsed(g_conns[f])
    /\ Peer(f).done = Peer(f).wrote + Unsent(g_conns[f])

Inv == Typed /\ Handling /\ Table /\ Backlogged /\ Served
-----------------------------------------------------------------------------
(* A set of naturals that is not empty has a least element.                *)
LEMMA MinIs ==
  ASSUME LoopFacts, NEW S \in SUBSET Nat, S # {}
  PROVE  Min(S) \in S /\ \A y \in S : Min(S) <= y
<1>1. \E x \in S : \A y \in S : x <= y
  BY Zenon DEF LoopFacts, Least
<1> QED
  BY <1>1, Zenon DEF Min

(* A set of places in a sequence that is not empty has a greatest element. *)
LEMMA MaxIs ==
  ASSUME LoopFacts, NEW n \in Nat, NEW S \in SUBSET (0 .. n), S # {}
  PROVE  Max(S) \in S /\ \A y \in S : Max(S) >= y
<1> DEFINE T == {m \in Nat : n - m \in S}
<1>1. \A y \in S : n - y \in Nat /\ n - (n - y) = y
  OBVIOUS
<1>2. T # {} /\ T \in SUBSET Nat
  BY <1>1, Zenon
<1>3. Min(T) \in T /\ \A m \in T : Min(T) <= m
  BY <1>2, MinIs, Zenon
<1>4. n - Min(T) \in S /\ Min(T) \in Nat
  BY <1>3, Zenon
<1>5. \A y \in S : n - y \in T
  BY <1>1
<1>6. \A y \in S : n - Min(T) >= y
  BY <1>3, <1>4, <1>5
<1>7. \E x \in S : \A y \in S : x >= y
  BY <1>4, <1>6, Zenon
<1> QED
  BY <1>7, Zenon DEF Max

(* Part of a sequence is a sequence.                                       *)
LEMMA PartIs ==
  ASSUME NEW S, NEW s \in Seq(S), NEW m \in Nat \ {0}, NEW n \in Nat, n <= Len(s)
  PROVE  /\ SubSeq(s, m, n) \in Seq(S)
         /\ Len(SubSeq(s, m, n)) = IF m <= n THEN n - m + 1 ELSE 0
         /\ \A i \in 1 .. n - m + 1 : SubSeq(s, m, n)[i] = s[m + i - 1]
<1>1. Len(s) \in Nat /\ \A i \in 1 .. Len(s) : s[i] \in S
  OBVIOUS
<1>2. \A i \in m .. n : s[i] \in S
  BY <1>1
<1> QED
  BY <1>2

(* Counting is of a finite set.                                            *)
LEMMA CountIs ==
  ASSUME LoopFacts, NEW s, NEW u, NEW a \in Int, NEW b \in Int
  PROVE  /\ IsFiniteSet({i \in a .. b : s[i] = u})
         /\ Count(s, u, a, b) \in Nat
<1>1. IsFiniteSet(a .. b)
  BY DEF LoopFacts, IntervalCount
<1>2. IsFiniteSet({i \in a .. b : s[i] = u})
  BY <1>1, Zenon DEF LoopFacts, SubsetCount
<1> QED
  BY <1>2, Zenon DEF Count, LoopFacts, CountType

(* A range without u has no u.                                             *)
LEMMA CountNone ==
  ASSUME LoopFacts, NEW s, NEW u, NEW a \in Int, NEW b \in Int, \A i \in a .. b : s[i] # u
  PROVE  Count(s, u, a, b) = 0
<1>1. {i \in a .. b : s[i] = u} = {}
  OBVIOUS
<1> QED
  BY <1>1, Zenon DEF Count, LoopFacts, CountType

(* A range of u alone.                                                     *)
LEMMA CountAll ==
  ASSUME LoopFacts, NEW s, NEW u, NEW a \in Int, NEW b \in Int, a <= b + 1, \A i \in a .. b : s[i] = u
  PROVE  Count(s, u, a, b) = b - a + 1
<1>1. {i \in a .. b : s[i] = u} = a .. b
  OBVIOUS
<1>2. Cardinality(a .. b) = b - a + 1
  BY DEF LoopFacts, IntervalCount
<1> QED
  BY <1>1, <1>2, Zenon DEF Count

(* A range is counted in two parts; what is in the first may be counted in *)
(* another sequence that agrees there.                                     *)
LEMMA CountSplit ==
  ASSUME LoopFacts, NEW s, NEW t, NEW u, NEW a \in Int, NEW m \in Int, NEW b \in Int,
         a <= m + 1, m <= b, \A i \in a .. m : s[i] = t[i]
  PROVE  Count(t, u, a, b) = Count(s, u, a, m) + Count(t, u, m + 1, b)
<1> DEFINE A == {i \in a .. m : s[i] = u}
           B == {i \in m + 1 .. b : t[i] = u}
<1>1. {i \in a .. b : t[i] = u} = A \cup B /\ A \cap B = {}
  OBVIOUS
<1>2. IsFiniteSet(A) /\ IsFiniteSet(B) /\ Cardinality(A) \in Nat /\ Cardinality(B) \in Nat
  <2>1. m + 1 \in Int
    OBVIOUS
  <2> QED
    BY <2>1, CountIs, Zenon DEF Count
<1>3. Cardinality(A \cup B) = Cardinality(A) + Cardinality(B) - Cardinality(A \cap B)
  BY <1>2, Zenon DEF LoopFacts, UnionCount
<1>4. Cardinality(A \cap B) = 0
  BY <1>1, Zenon DEF LoopFacts, CountType
<1>5. Cardinality(A \cup B) = Cardinality(A) + Cardinality(B)
  BY <1>2, <1>3, <1>4
<1> QED
  BY <1>1, <1>5, Zenon DEF Count
-----------------------------------------------------------------------------
(* The input before the first bad unit is no longer than the input.        *)
LEMMA ValidIs ==
  ASSUME LoopFacts, NEW in \in Seq(Unit)
  PROVE  /\ Valid(in) \in Seq(Unit) /\ Len(Valid(in)) <= Len(in)
         /\ Valid(in) = in => \A i \in 1 .. Len(in) : in[i] # "bad"
<1> DEFINE I == {i \in 1 .. Len(in) : in[i] = "bad"}
           b == Min(I)
<1>1. Valid(in) = IF I = {} THEN in ELSE SubSeq(in, 1, b - 1)
  <2>1. Places(in, {"bad"}) = I
    BY DEF Places
  <2> QED
    BY <2>1, Zenon DEF Valid
<1>2. Len(in) \in Nat /\ I \in SUBSET Nat /\ I \subseteq 1 .. Len(in)
  OBVIOUS
<1>3. CASE I = {}
  BY <1>1, <1>2, <1>3
<1>4. CASE I # {}
  <2>1. b \in I
    BY <1>2, <1>4, MinIs, Zenon
  <2> HIDE DEF b
  <2>2. b \in 1 .. Len(in) /\ b - 1 \in Nat /\ b - 1 <= Len(in) /\ b # 0
    BY <1>2, <2>1
  <2>3. Valid(in) = SubSeq(in, 1, b - 1)
    BY <1>1, <1>4, Zenon
  <2>4. /\ SubSeq(in, 1, b - 1) \in Seq(Unit)
        /\ Len(SubSeq(in, 1, b - 1)) = IF 1 <= b - 1 THEN b - 1 - 1 + 1 ELSE 0
    BY <2>2, PartIs
  <2>5. Len(Valid(in)) < Len(in)
    BY <1>2, <2>2, <2>3, <2>4
  <2> QED
    BY <1>2, <2>3, <2>4, <2>5
<1> QED
  BY <1>3, <1>4, Zenon

(* What conn_process_input leaves of the input.                            *)
LEMMA LastIs ==
  ASSUME LoopFacts, NEW s \in Seq(Unit)
  PROVE  LET last == Max({0} \cup Places(s, {"cmd"})) IN
         /\ last \in 0 .. Len(s)
         /\ \A i \in 1 .. Len(s) : i > last => s[i] # "cmd"
<1> DEFINE I    == {0} \cup Places(s, {"cmd"})
           last == Max(I)
<1>1. \A i \in 1 .. Len(s) : s[i] = "cmd" => i \in I
  BY DEF Places
<1>2. Len(s) \in Nat /\ I \in SUBSET (0 .. Len(s)) /\ I # {}
  BY DEF Places
<1>3. last \in I /\ \A y \in I : last >= y
  BY <1>2, MaxIs, Zenon
<1> HIDE DEF last, I
<1>4. last \in 0 .. Len(s)
  BY <1>2, <1>3
<1>5. \A i \in 1 .. Len(s) : i > last => s[i] # "cmd"
  BY <1>1, <1>3, <1>4
<1> QED
  BY <1>4, <1>5, Zenon DEF last, I

(* Queue p is o, then n replies for commands, and then others.             *)
Follows(p, o, n) ==
  /\ p \in Seq(Reply) /\ Len(o) + n <= Len(p)
  /\ \A i \in 1 .. Len(o) : o[i] = p[i]
  /\ \A i \in Len(o) + 1 .. Len(o) + n : p[i] = "ok"
  /\ \A i \in Len(o) + n + 1 .. Len(p) : p[i] # "ok"

Errors           == {<<>>, <<"err">>}
Replies(o, n, e) == o \o [i \in 1 .. n |-> "ok"] \o e

(* Of the replies for commands, n more are waiting to be written.          *)
LEMMA Queueing ==
  ASSUME LoopFacts, NEW o \in Seq(Reply), NEW n \in Nat, NEW p, Follows(p, o, n),
         NEW k \in Nat, k <= Len(o)
  PROVE  Count(p, "ok", k + 1, Len(p)) = Count(o, "ok", k + 1, Len(o)) + n
<1> USE DEF Follows
<1>1. Len(o) \in Nat /\ Len(p) \in Nat
  OBVIOUS
<1>2. Count(p, "ok", k + 1, Len(p))
        = Count(o, "ok", k + 1, Len(o)) + Count(p, "ok", Len(o) + 1, Len(p))
  <2>1. k + 1 \in Int /\ Len(o) \in Int /\ Len(p) \in Int /\ k + 1 <= Len(o) + 1 /\ Len(o) <= Len(p)
    BY <1>1
  <2>2. \A i \in k + 1 .. Len(o) : o[i] = p[i]
    BY <1>1
  <2> QED
    BY <2>1, <2>2, CountSplit
<1>3. Count(p, "ok", Len(o) + 1, Len(p))
        = Count(p, "ok", Len(o) + 1, Len(o) + n) + Count(p, "ok", Len(o) + n + 1, Len(p))
  <2>1. /\ Len(o) + 1 \in Int /\ Len(o) + n \in Int /\ Len(p) \in Int
        /\ Len(o) + 1 <= Len(o) + n + 1 /\ Len(o) + n <= Len(p)
    BY <1>1
  <2>2. \A i \in Len(o) + 1 .. Len(o) + n : p[i] = p[i]
    OBVIOUS
  <2> QED
    BY <2>1, <2>2, CountSplit
<1>4. Count(p, "ok", Len(o) + 1, Len(o) + n) = n
  <2>1. Len(o) + 1 \in Int /\ Len(o) + n \in Int /\ Len(o) + 1 <= Len(o) + n + 1
    BY <1>1
  <2>2. Count(p, "ok", Len(o) + 1, Len(o) + n) = Len(o) + n - (Len(o) + 1) + 1
    BY <2>1, CountAll
  <2> QED
    BY <1>1, <2>2
<1>5. Count(p, "ok", Len(o) + n + 1, Len(p)) = 0
  <2>1. Len(o) + n + 1 \in Int /\ Len(p) \in Int
    BY <1>1
  <2> QED
    BY <2>1, CountNone, Zenon
<1>6. Count(o, "ok", k + 1, Len(o)) \in Nat
  <2>1. k + 1 \in Int /\ Len(o) \in Int
    BY <1>1
  <2> QED
    BY <2>1, CountIs, Zenon
<1> QED
  BY <1>2, <1>3, <1>4, <1>5, <1>6, SMTT(30)

(* The replies that conn_process_input queues.                             *)
LEMMA Behind ==
  ASSUME NEW o \in Seq(Reply), NEW n \in Nat, NEW e \in Errors
  PROVE  Follows(Replies(o, n, e), o, n)
<1> DEFINE s == [i \in 1 .. n |-> "ok"]
           t == o \o s
           p == t \o e
<1>1. s \in Seq(Reply) /\ Len(s) = n /\ Len(o) \in Nat
  BY DEF Reply
<1>2. e \in Seq(Reply) /\ Len(e) \in Nat /\ \A i \in 1 .. Len(e) : e[i] = "err"
  <2>1. CASE e = <<>>
    BY <2>1
  <2>2. CASE e = <<"err">>
    BY <2>2 DEF Reply
  <2> QED
    BY <2>1, <2>2 DEF Errors
<1>3. /\ t \in Seq(Reply) /\ Len(t) = Len(o) + Len(s)
      /\ \A i \in 1 .. Len(o) + Len(s) : t[i] = IF i <= Len(o) THEN o[i] ELSE s[i - Len(o)]
  BY <1>1
<1>4. /\ p \in Seq(Reply) /\ Len(p) = Len(t) + Len(e)
      /\ \A i \in 1 .. Len(t) + Len(e) : p[i] = IF i <= Len(t) THEN t[i] ELSE e[i - Len(t)]
  <2> HIDE DEF t
  <2>1. t \in Seq(Reply) /\ e \in Seq(Reply)
    BY <1>2, <1>3, Zenon
  <2> QED
    BY <2>1
<1>5. \A i \in 1 .. n : s[i] = "ok"
  OBVIOUS
<1> HIDE DEF s, t, p
<1>6. \A i \in 1 .. Len(o) : o[i] = p[i]
  BY <1>1, <1>2, <1>3, <1>4
<1>7. \A i \in Len(o) + 1 .. Len(o) + n : p[i] = "ok"
  BY <1>1, <1>2, <1>3, <1>4, <1>5, SMTT(30)
<1>8. \A i \in Len(o) + n + 1 .. Len(p) : p[i] # "ok"
  <2>1. \A i \in Len(o) + n + 1 .. Len(p) :
          i \in 1 .. Len(t) + Len(e) /\ ~(i <= Len(t)) /\ i - Len(t) \in 1 .. Len(e)
    BY <1>1, <1>2, <1>3, <1>4
  <2> QED
    BY <1>2, <1>4, <2>1, Zenon
<1>9. Len(o) + n <= Len(p)
  BY <1>1, <1>2, <1>3, <1>4
<1> QED
  BY <1>4, <1>6, <1>7, <1>8, <1>9, Zenon DEF p, t, s, Follows, Replies

(* What conn_process_input makes of a conn_t: every whole command is done  *)
(* and its reply queued; the input that is left ends no command, unless    *)
(* the connection is to be closed.                                         *)
LEMMA ProcessIs ==
  ASSUME LoopFacts, NEW c \in GoodConn
  PROVE  LET p == conn_process_input(c) IN
         /\ p.conn \in GoodConn /\ p.conn.who = c.who /\ Parsed(p.conn)
         /\ p.done \in Nat /\ Unsent(p.conn) = Unsent(c) + p.done
<1> DEFINE p    == conn_process_input(c)
           good == Valid(c.in)
           last == Max({0} \cup Places(good, {"cmd"}))
           n    == Count(good, "cmd", 1, Len(good))
           bad  == good # c.in
           rest == SubSeq(c.in, last + 1, Len(c.in))
           e    == IF bad THEN <<"err">> ELSE <<>>
           o    == Replies(c.out, n, e)
<1>1. /\ c \in ConnRec /\ c.in \in Seq(Unit) /\ c.out \in Seq(Reply) /\ c.out_sent \in Nat
      /\ c.closing \in BOOLEAN
      /\ Len(c.in) <= MAX_CONN_INPUT_BUF /\ c.out_sent <= Len(c.out)
  BY DEF GoodConn, ConnRec
<1>2. Len(c.in) \in Nat /\ Len(c.out) \in Nat
  BY <1>1
<1>3. CASE c.closing
  <2>1. p.conn = c /\ p.done = 0
    BY <1>3, Zenon DEF conn_process_input
  <2>2. Unsent(c) \in Nat
    <3>1. c.out_sent + 1 \in Int /\ Len(c.out) \in Int
      BY <1>1, <1>2
    <3> QED
      BY <3>1, CountIs, Zenon DEF Unsent
  <2> QED
    BY <1>3, <2>1, <2>2 DEF Parsed
<1>4. CASE ~c.closing
  <2>1. /\ good \in Seq(Unit) /\ Len(good) \in Nat /\ Len(good) <= Len(c.in)
        /\ good = c.in => \A i \in 1 .. Len(c.in) : c.in[i] # "bad"
    BY <1>1, ValidIs
  <2>2. /\ last \in 0 .. Len(good)
        /\ \A i \in 1 .. Len(good) : i > last => good[i] # "cmd"
    BY <2>1, LastIs, Zenon
  <2>3. n \in Nat
    <3>1. 1 \in Int /\ Len(good) \in Int
      BY <2>1
    <3> QED
      BY <3>1, CountIs, Zenon
  <2>4. /\ p.conn = [c EXCEPT !.in = rest, !.out = o, !.closing = bad]
        /\ p.done = n
    BY <1>4 DEF conn_process_input, Replies
  <2> HIDE DEF good, last, n, e, p
  <2>5. /\ rest \in Seq(Unit)
        /\ Len(rest) = IF last + 1 <= Len(c.in) THEN Len(c.in) - (last + 1) + 1 ELSE 0
        /\ \A i \in 1 .. Len(c.in) - (last + 1) + 1 : rest[i] = c.in[last + 1 + i - 1]
    <3>1. last + 1 \in Nat \ {0} /\ Len(c.in) \in Nat /\ Len(c.in) <= Len(c.in)
      BY <1>2, <2>1, <2>2
    <3> QED
      BY <1>1, <3>1, PartIs
  <2>6. Follows(o, c.out, n)
    <3>1. e \in Errors
      BY DEF e, Errors
    <3>2. c.out \in Seq(Reply)
      BY <1>1, Zenon
    <3> QED
      BY <2>3, <3>1, <3>2, Behind, Zenon
  <2> HIDE DEF o, rest, bad
  <2>7. bad \in BOOLEAN
    BY Zenon DEF bad
  <2>8. /\ p.conn \in ConnRec /\ p.conn.in = rest /\ p.conn.out = o
        /\ p.conn.closing = bad /\ p.conn.who = c.who /\ p.conn.out_sent = c.out_sent
    <3>1. c \in ConnRec /\ rest \in Seq(Unit) /\ o \in Seq(Reply)
      BY <1>1, <2>5, <2>6, Zenon DEF Follows
    <3> QED
      BY <2>4, <2>7, <3>1, Zenon DEF ConnRec
  <2>9. Len(rest) <= Len(c.in) /\ Len(rest) \in Nat /\ c.out_sent <= Len(o)
    BY <1>1, <1>2, <2>1, <2>2, <2>3, <2>5, <2>6, SMTT(30) DEF Follows
  <2>10. p.conn \in GoodConn
    <3>1. MAX_CONN_INPUT_BUF \in Nat
      BY LoopAssumption, Zenon
    <3>2. Len(rest) <= MAX_CONN_INPUT_BUF
      BY <1>1, <1>2, <2>9, <3>1, SMTT(30)
    <3> QED
      BY <2>8, <2>9, <3>2, Zenon DEF GoodConn
  <2>11. Parsed(p.conn)
    <3>1. ASSUME ~bad, NEW i \in 1 .. Len(rest)
          PROVE  rest[i] = "part"
      <4>1. good = c.in
        BY <3>1, Zenon DEF bad
      <4>2. /\ i \in 1 .. Len(c.in) - (last + 1) + 1 /\ last + 1 + i - 1 = last + i
            /\ last + i \in 1 .. Len(c.in) /\ last + i > last
        BY <1>2, <2>2, <2>1, <2>5, <4>1, SMTT(30)
      <4>3. rest[i] = c.in[last + i]
        BY <2>5, <4>2, Zenon
      <4>4. c.in[last + i] # "bad" /\ c.in[last + i] # "cmd" /\ c.in[last + i] \in Unit
        BY <1>1, <2>1, <2>2, <4>1, <4>2, SMTT(30)
      <4> QED
        BY <4>3, <4>4, Zenon DEF Unit
    <3> QED
      BY <2>7, <2>8, <3>1, Zenon DEF Parsed
  <2>12. Unsent(p.conn) = Unsent(c) + p.done
    <3>1. Count(o, "ok", c.out_sent + 1, Len(o))
            = Count(c.out, "ok", c.out_sent + 1, Len(c.out)) + n
      <4>1. c.out \in Seq(Reply) /\ c.out_sent \in Nat /\ c.out_sent <= Len(c.out)
        BY <1>1, Zenon
      <4> QED
        BY <2>3, <2>6, <4>1, Queueing, Zenon
    <3> QED
      BY <2>4, <2>8, <3>1, Zenon DEF Unsent
  <2> QED
    BY <2>3, <2>4, <2>8, <2>10, <2>11, <2>12, Zenon DEF p
<1> QED
  BY <1>1, <1>3, <1>4, Zenon
-----------------------------------------------------------------------------
(* What a handler changes: the entry of one fd, and what the kernel and    *)
(* the client know of one connection.                                      *)
SlotIs(f, c) ==
  /\ g_conns' \in [Fds -> Slots] /\ g_conns'[f] = c
  /\ \A g \in Fds \ {f} : g_conns'[g] = g_conns[g]

SockIs(c, net, done, wrote) ==
  /\ sock' \in [Clients -> SockRec]
  /\ sock'[c].net = net /\ sock'[c].done = done /\ sock'[c].wrote = wrote
  /\ \A d \in Clients \ {c} : sock'[d] = sock[d]

(* An assignment to one entry of g_conns.                                  *)
LEMMA SlotSet ==
  ASSUME g_conns \in [Fds -> Slots], NEW f \in Fds, NEW c \in Slots,
         g_conns' = [g_conns EXCEPT ![f] = c]
  PROVE  SlotIs(f, c)
BY Zenon DEF SlotIs

(* One connection is given another record.                                 *)
LEMMA SockSet ==
  ASSUME sock \in [Clients -> SockRec], NEW c \in Clients, NEW r \in SockRec,
         sock' = [sock EXCEPT ![c] = r]
  PROVE  /\ SockIs(c, r.net, r.done, r.wrote) /\ sock'[c] = r
BY Zenon DEF SockIs

(* A connection is queued, accepted or closed.                             *)
LEMMA SockNet ==
  ASSUME sock \in [Clients -> SockRec], NEW c \in Clients,
         NEW net \in {"backlog", "open", "closed"}, sock' = [sock EXCEPT ![c].net = net]
  PROVE  SockIs(c, net, sock[c].done, sock[c].wrote)
BY ZenonT(40) DEF SockIs, SockRec

(* What the fields of a conn_t are.                                        *)
LEMMA ConnOf ==
  ASSUME NEW c \in GoodConn
  PROVE  /\ c.who \in Clients /\ c.who # Null /\ c \in Slots
         /\ c.in \in Seq(Unit) /\ Len(c.in) \in Nat /\ Len(c.in) <= MAX_CONN_INPUT_BUF
         /\ c.out \in Seq(Reply) /\ Len(c.out) \in Nat
         /\ c.out_sent \in 0 .. Len(c.out)
         /\ c.closing \in BOOLEAN /\ c.want_write \in BOOLEAN /\ c \in ConnRec
<1>1. /\ c \in ConnRec /\ c.who \in Clients /\ c.in \in Seq(Unit) /\ c.out \in Seq(Reply)
      /\ c.closing \in BOOLEAN /\ c.want_write \in BOOLEAN /\ c.out_sent \in Nat
      /\ Len(c.in) <= MAX_CONN_INPUT_BUF /\ c.out_sent <= Len(c.out) /\ c \in Slots
  BY Zenon DEF GoodConn, ConnRec, Slots
<1> QED
  BY <1>1, LoopAssumption

(* The entry of an fd that is not free is a conn_t, and only that one has  *)
(* a client.                                                               *)
LEMMA PresentIs ==
  ASSUME Typed, NEW f \in Fds
  PROVE  /\ Present(f) => g_conns[f] \in GoodConn /\ g_conns[f].who \in Clients
         /\ g_conns[f].who \in Clients => Present(f)
<1>1. g_conns[f] \in GoodConn \/ g_conns[f] = Free
  BY Zenon DEF Typed, Slots
<1>2. Null \notin Clients
  BY LoopAssumption
<1>3. CASE g_conns[f] \in GoodConn
  BY <1>3, ConnOf, Zenon DEF Present
<1>4. CASE g_conns[f] = Free
  <2>1. g_conns[f].who = Null
    BY <1>4 DEF Free
  <2> QED
    BY <1>2, <2>1, Zenon DEF Present
<1> QED
  BY <1>1, <1>3, <1>4, Zenon

(* The events left are what the batch can hold.                            *)
LEMMA BatchIs ==
  ASSUME Typed
  PROVE  /\ loop.batch \in Seq(EventRec) /\ Len(loop.batch) \in Nat
         /\ \A i \in 1 .. Len(loop.batch) :
              /\ loop.batch[i].fd # Listen => loop.batch[i].fd \in Fds
              /\ loop.batch[i].fd \in Fds \cup {Listen}
<1>1. loop.batch \in Seq(EventRec)
  BY DEF Typed, LoopRec
<1>2. Len(loop.batch) \in Nat /\ \A i \in 1 .. Len(loop.batch) : loop.batch[i] \in EventRec
  BY <1>1
<1>3. \A e \in EventRec : e.fd \in Fds \cup {Listen}
  BY DEF EventRec
<1> QED
  BY <1>1, <1>2, <1>3, Zenon

(* A handler goes on with its connection, or is through with it.           *)
LEMMA ServeStep ==
  ASSUME Inv, loop.at \in {"read", "flush"}, NEW c \in GoodConn,
         SlotIs(loop.fd, c), c.who = g_conns[loop.fd].who,
         loop' \in LoopRec, loop'.at \in {"read", "flush", "next"},
         loop'.fd = loop.fd, loop'.batch = loop.batch,
         NEW D, NEW W, SockIs(c.who, sock[c.who].net, D, W), D = W + Unsent(c),
         loop'.at # "read" => Parsed(c), loop'.at = "next" => ArmedRight(c),
         UNCHANGED <<flag, backlog>>
  PROVE  Inv'
<1> USE DEF Inv
<1> DEFINE f == loop.fd
<1>1. f \in Fds /\ Present(f) /\ c.who \in Clients /\ c.who # Null
  BY ConnOf, Zenon DEF Handling
<1>2. \A g \in Fds : g_conns'[g].who = g_conns[g].who
  BY <1>1, Zenon DEF SlotIs
<1>3. \A g \in Fds : Present(g)' <=> Present(g)
  BY <1>2, Zenon DEF Present
<1>4. \A d \in Clients : sock'[d].net = sock[d].net
  BY <1>1, Zenon DEF SockIs
<1>5. sock[c.who].net = "open"
  BY <1>1, ZenonT(40) DEF Table, Peer
<1>6. \A g \in Fds \ {f} : Present(g) => g_conns[g].who \in Clients \ {c.who}
  BY <1>1, PresentIs, ZenonT(40) DEF Table
<1>7. Typed'
  BY Zenon DEF Typed, SlotIs, SockIs
<1>8. Handling'
  <2>1. \A i \in 1 .. Len(loop.batch) : loop.batch[i].fd # Listen => loop.batch[i].fd \in Fds
    BY BatchIs, Zenon
  <2> QED
    BY <1>1, <1>2, <1>3, <2>1 DEF Handling
<1>9. Table'
  <2>1. \A g \in Fds : Present(g) => g_conns[g].who \in Clients
    BY PresentIs, Zenon
  <2>2. \A g \in Fds : Present(g) => Peer(g)'.net = "open"
    BY <1>2, <1>4, <2>1 DEF Table, Peer
  <2>3. \A g, h \in Fds : Present(g) /\ g_conns[g].who = g_conns[h].who => g = h
    BY Zenon DEF Table
  <2>4. \A d \in Clients : sock'[d].net = "open" => \E g \in Fds : g_conns'[g].who = d
    BY <1>2, <1>4, ZenonT(40) DEF Table
  <2> QED
    BY <1>2, <1>3, <2>2, <2>3, <2>4, SMTT(30) DEF Table
<1>10. Backlogged'
  <2>1. \A d \in Clients : sock[d].net \in {"new", "backlog"} => sock'[d] = sock[d]
    BY <1>1, <1>5, Zenon DEF SockIs
  <2>2. \A i \in 1 .. Len(backlog) : backlog[i] \in Clients
    BY DEF Typed
  <2> QED
    BY <1>4, <2>1, <2>2, Zenon DEF Backlogged
<1>11. Served'
  <2>1. /\ ~(loop'.at \in {"read", "flush"}) => ArmedRight(g_conns'[f])
        /\ loop'.at # "read" => Parsed(g_conns'[f])
        /\ Peer(f)'.done = Peer(f)'.wrote + Unsent(g_conns'[f])
    BY <1>1, Zenon DEF SlotIs, SockIs, Peer
  <2>2. ASSUME NEW g \in Fds \ {f}, Present(g)
        PROVE  /\ ArmedRight(g_conns'[g]) /\ Parsed(g_conns'[g])
               /\ Peer(g)'.done = Peer(g)'.wrote + Unsent(g_conns'[g])
    <3>1. g_conns'[g] = g_conns[g] /\ Peer(g)' = Peer(g)
      BY <1>6, <2>2, Zenon DEF SlotIs, SockIs, Peer
    <3> QED
      BY <2>2, <3>1, Zenon DEF Served
  <2> QED
    BY <1>1, <1>3, <2>1, <2>2, Zenon DEF Served
<1> QED
  BY <1>7, <1>8, <1>9, <1>10, <1>11, Zenon

(* conn_close, of a connection with no event left in the batch.            *)
LEMMA CloseStep ==
  ASSUME Inv, NEW f \in Fds, Present(f), conn_close(f),
         loop.at \in {"next", "read", "flush"},
         loop.at \in {"read", "flush"} => loop.fd = f,
         loop' \in LoopRec, loop'.at = "next",
         Handling', UNCHANGED <<flag, backlog>>
  PROVE  Inv'
<1> USE DEF Inv
<1> DEFINE c == g_conns[f].who
<1>1. c \in Clients /\ c # Null
  BY PresentIs, Zenon DEF Present
<1>2. SlotIs(f, Free)
  <2>1. Free \in Slots
    BY Zenon DEF Slots
  <2> QED
    BY <2>1, SlotSet, Zenon DEF conn_close, Typed
<1>3. SockIs(c, "closed", sock[c].done, sock[c].wrote)
  BY <1>1, SockNet, Zenon DEF conn_close, Typed
<1>4. ~Present(f)'
  BY <1>2 DEF SlotIs, Present, Free
<1>5. \A g \in Fds \ {f} :
        /\ g_conns'[g] = g_conns[g]
        /\ Present(g)' <=> Present(g)
        /\ Present(g) => g_conns[g].who \in Clients \ {c} /\ Peer(g)' = Peer(g)
  <2>1. \A g \in Fds \ {f} : g_conns'[g] = g_conns[g]
    BY <1>2, Zenon DEF SlotIs
  <2>2. \A g \in Fds \ {f} : Present(g) => g_conns[g].who \in Clients \ {c}
    BY <1>1, PresentIs, Zenon DEF Table
  <2> QED
    BY <1>3, <2>1, <2>2, ZenonT(40) DEF SockIs, Peer, Present
<1>6. Typed'
  BY <1>2, <1>3, Zenon DEF Typed, SlotIs, SockIs
<1>7. sock[c].net = "open"
  BY Zenon DEF Table, Peer
<1>8. Table'
  <2>1. \A g \in Fds : Present(g)' => g # f /\ Present(g) /\ Peer(g)'.net = "open"
    BY <1>4, <1>5 DEF Table
  <2>2. \A g, h \in Fds : Present(g)' /\ g_conns'[g].who = g_conns'[h].who => Present(h)'
    BY Zenon DEF Present
  <2>3. \A g, h \in Fds : Present(g)' /\ g_conns'[g].who = g_conns'[h].who => g = h
    BY <1>5, <2>1, <2>2, SMTT(30) DEF Table
  <2>4. \A d \in Clients : sock'[d].net = "open" => d # c /\ sock[d].net = "open"
    BY <1>3, Zenon DEF SockIs
  <2>5. \A d \in Clients : sock'[d].net = "open" => \E g \in Fds : g_conns'[g].who = d
    BY <1>5, <2>4 DEF Table
  <2> QED
    BY <2>1, <2>3, <2>5, Zenon DEF Table
<1>9. Backlogged'
  <2>1. \A d \in Clients : sock[d].net = "backlog" => d # c /\ sock'[d] = sock[d]
    BY <1>1, <1>3, <1>7, Zenon DEF SockIs
  <2>2. \A d \in Clients : sock'[d].net \in {"new", "backlog"} => d # c /\ sock'[d] = sock[d]
    BY <1>1, <1>3, <1>7, Zenon DEF SockIs
  <2>3. \A i \in 1 .. Len(backlog) : backlog[i] \in Clients
    BY DEF Typed
  <2> QED
    BY <2>1, <2>2, <2>3, SMTT(30) DEF Backlogged
<1>10. Served'
  <2>1. \A g \in Fds : Present(g)' => g # f /\ Present(g)
    BY <1>4, <1>5, Zenon
  <2>2. ASSUME NEW g \in Fds, Present(g)'
        PROVE  /\ ArmedRight(g_conns'[g]) /\ Parsed(g_conns'[g])
               /\ Peer(g)'.done = Peer(g)'.wrote + Unsent(g_conns'[g])
    <3>1. g_conns'[g] = g_conns[g] /\ Peer(g)' = Peer(g) /\ Present(g) /\ g # f
      BY <1>5, <2>1, <2>2, Zenon
    <3> QED
      BY <3>1, Zenon DEF Served
  <2> QED
    BY <2>2, Zenon DEF Served
<1> QED
  BY <1>6, <1>8, <1>9, <1>10, Zenon

(* The loop moves on, between two connections.                             *)
LEMMA LoopMoves ==
  ASSUME Inv, loop.at \notin {"read", "flush"}, loop' \in LoopRec, flag' \in BOOLEAN,
         Handling', UNCHANGED <<backlog, g_conns, sock>>
  PROVE  Inv'
<1> USE DEF Inv
<1>1. Typed'
  BY Zenon DEF Typed
<1>2. Table'
  BY Zenon DEF Table, Present, Peer
<1>3. Backlogged'
  BY Zenon DEF Backlogged
<1>4. Served'
  <2>1. ASSUME NEW f \in Fds, Present(f)
        PROVE  /\ ArmedRight(g_conns[f]) /\ Parsed(g_conns[f])
               /\ Peer(f).done = Peer(f).wrote + Unsent(g_conns[f])
    BY <2>1, Zenon DEF Served
  <2> QED
    BY <2>1, Zenon DEF Served, Present, Peer
<1> QED
  BY <1>1, <1>2, <1>3, <1>4, Zenon
-----------------------------------------------------------------------------
(* Clients and the network do nothing that the server knows of.            *)
LEMMA ClientStep ==
  ASSUME Inv, sock' \in [Clients -> SockRec],
         \A c \in Clients : /\ sock'[c].net = sock[c].net
                            /\ sock'[c].done = sock[c].done
                            /\ sock'[c].wrote = sock[c].wrote,
         UNCHANGED <<flag, loop, backlog, g_conns>>
  PROVE  Inv'
<1> USE DEF Inv
<1>1. \A f \in Fds : (Present(f)' <=> Present(f)) /\ (Present(f) => g_conns[f].who \in Clients)
  BY PresentIs, Zenon DEF Present
<1>2. Typed'
  BY Zenon DEF Typed
<1>3. Handling'
  BY <1>1, Zenon DEF Handling
<1>4. Table'
  BY <1>1 DEF Table, Peer
<1>5. Backlogged'
  <2>1. \A i \in 1 .. Len(backlog) : backlog[i] \in Clients
    BY DEF Typed
  <2> QED
    BY <2>1 DEF Backlogged
<1>6. Served'
  <2>1. \A f \in Fds : Present(f) => Peer(f)'.done = Peer(f).done /\ Peer(f)'.wrote = Peer(f).wrote
    BY <1>1, Zenon DEF Peer
  <2> QED
    BY <1>1, <2>1, Zenon DEF Served
<1> QED
  BY <1>2, <1>3, <1>4, <1>5, <1>6, Zenon

(* A client sends the next unit.                                           *)
LEMMA SendStep ==
  ASSUME Inv, NEW c \in Clients, Send(c)
  PROVE  Inv'
<1>1. sock \in [Clients -> SockRec] /\ sock[c].todo # <<>> /\ UNCHANGED <<flag, loop, backlog, g_conns>>
  BY Zenon DEF Send, Inv, Typed
<1> DEFINE u == Head(sock[c].todo)
           a == Append(sock[c].sent, u)
           b == Tail(sock[c].todo)
           n == IF u = "cmd" THEN sock[c].asked + 1 ELSE sock[c].asked
<1>2. sock[c].todo \in Seq(Unit) /\ sock[c].sent \in Seq(Unit) /\ sock[c].asked \in Nat
  BY <1>1, Zenon DEF SockRec
<1>3. u \in Unit /\ b \in Seq(Unit)
  BY <1>1, <1>2
<1>4. a \in Seq(Unit)
  BY <1>2, <1>3
<1>5. n \in Nat
  BY <1>2
<1>6. sock' = [sock EXCEPT ![c].sent = a, ![c].todo = b, ![c].asked = n]
  BY Zenon DEF Send
<1> HIDE DEF a, b, n
<1>7. /\ sock' \in [Clients -> SockRec]
      /\ \A d \in Clients : /\ sock'[d].net = sock[d].net
                            /\ sock'[d].done = sock[d].done
                            /\ sock'[d].wrote = sock[d].wrote
  <2> DEFINE r == [sock[c] EXCEPT !.sent = a, !.todo = b, !.asked = n]
  <2>1. sock' = [sock EXCEPT ![c] = r]
    BY <1>6, Zenon
  <2>2. /\ r \in SockRec /\ r.net = sock[c].net /\ r.done = sock[c].done
        /\ r.wrote = sock[c].wrote
    BY <1>1, <1>3, <1>4, <1>5, ZenonT(40) DEF SockRec
  <2> HIDE DEF r
  <2> QED
    BY <1>1, <2>1, <2>2, SockSet, Zenon DEF SockIs
<1> QED
  BY <1>1, <1>7, ClientStep, Zenon

(* A client receives.                                                      *)
LEMMA ReceiveStep ==
  ASSUME Inv, NEW c \in Clients, Receive(c)
  PROVE  Inv'
<1>1. sock \in [Clients -> SockRec] /\ sock[c].wbuf > 0 /\ UNCHANGED <<flag, loop, backlog, g_conns>>
  BY DEF Receive, Inv, Typed
<1> DEFINE n == sock[c].wbuf - 1
<1>2. n \in 0 .. SendBuf
  <2>1. sock[c].wbuf \in 0 .. SendBuf
    BY <1>1, Zenon DEF SockRec
  <2> QED
    BY <1>1, <2>1, LoopAssumption
<1>3. sock' = [sock EXCEPT ![c].wbuf = n]
  BY Zenon DEF Receive
<1> HIDE DEF n
<1>4. /\ sock' \in [Clients -> SockRec]
      /\ \A d \in Clients : /\ sock'[d].net = sock[d].net
                            /\ sock'[d].done = sock[d].done
                            /\ sock'[d].wrote = sock[d].wrote
  BY <1>1, <1>2, <1>3, ZenonT(40) DEF SockRec
<1> QED
  BY <1>1, <1>4, ClientStep, Zenon

(* The client ends its side, closes, or its host resets the connection.    *)
LEMMA LeaveStep ==
  ASSUME Inv, NEW c \in Clients, Leave(c) \/ Reset(c)
  PROVE  Inv'
<1>1. sock \in [Clients -> SockRec] /\ UNCHANGED <<flag, loop, backlog, g_conns>>
  BY Zenon DEF Leave, Reset, Inv, Typed
<1>2. PICK p \in {"half", "gone", "reset"} : sock' = [sock EXCEPT ![c].peer = p]
  BY Zenon DEF Leave, Reset
<1>3. /\ sock' \in [Clients -> SockRec]
      /\ \A d \in Clients : /\ sock'[d].net = sock[d].net
                            /\ sock'[d].done = sock[d].done
                            /\ sock'[d].wrote = sock[d].wrote
  BY <1>1, <1>2, ZenonT(40) DEF SockRec
<1> QED
  BY <1>1, <1>3, ClientStep, Zenon

(* A client connects.                                                      *)
LEMMA ConnectStep ==
  ASSUME Inv, NEW c \in Clients, Connect(c)
  PROVE  Inv'
<1> USE DEF Inv
<1>1. /\ sock \in [Clients -> SockRec] /\ backlog \in Seq(Clients)
      /\ sock[c].net = "new" /\ backlog' = Append(backlog, c)
      /\ UNCHANGED <<flag, loop, g_conns>>
  BY Zenon DEF Connect, Typed
<1>2. PICK s \in Scripts[c] : sock' = [sock EXCEPT ![c].net = "backlog", ![c].todo = s]
  BY Zenon DEF Connect
<1>3. s \in Seq(Unit)
  BY <1>2, LoopAssumption DEF Unit
<1>4. SockIs(c, "backlog", sock[c].done, sock[c].wrote)
  <2> DEFINE r == [sock[c] EXCEPT !.net = "backlog", !.todo = s]
  <2>1. sock' = [sock EXCEPT ![c] = r]
    BY <1>2, Zenon
  <2>2. /\ r \in SockRec /\ r.net = "backlog" /\ r.done = sock[c].done
        /\ r.wrote = sock[c].wrote
    BY <1>1, <1>3, ZenonT(40) DEF SockRec
  <2> HIDE DEF r
  <2> QED
    BY <1>1, <2>1, <2>2, SockSet, ZenonT(40)
<1>5. \A f \in Fds :
        /\ Present(f)' <=> Present(f)
        /\ Present(f) => g_conns[f].who \in Clients \ {c} /\ Peer(f)' = Peer(f)
  <2>1. \A f \in Fds : Present(f) => g_conns[f].who \in Clients \ {c}
    BY <1>1, PresentIs, Zenon DEF Table, Peer
  <2> QED
    BY <1>1, <1>4, <2>1, Zenon DEF Present, Peer, SockIs
<1>6. /\ backlog' \in Seq(Clients) /\ Len(backlog') = Len(backlog) + 1
      /\ \A i \in 1 .. Len(backlog) : backlog'[i] = backlog[i] /\ backlog[i] \in Clients
      /\ backlog'[Len(backlog) + 1] = c /\ Len(backlog) \in Nat
  BY <1>1
<1>7. Typed'
  BY <1>1, <1>4, <1>6, Zenon DEF Typed, SockIs
<1>8. Handling'
  BY <1>1, <1>5, Zenon DEF Handling
<1>9. Table'
  <2>1. \A d \in Clients : sock'[d].net = "open" => sock[d].net = "open"
    BY <1>4, Zenon DEF SockIs
  <2> QED
    BY <1>1, <1>5, <2>1 DEF Table
<1>10. Backlogged'
  <2>1. \A i \in 1 .. Len(backlog) : backlog[i] \in Clients \ {c}
    BY <1>1, <1>6, Zenon DEF Backlogged
  <2>2. \A i \in 1 .. Len(backlog') : i \in 1 .. Len(backlog) \/ i = Len(backlog) + 1
    BY <1>6
  <2>3. \A i \in 1 .. Len(backlog') : sock'[backlog'[i]].net = "backlog"
    BY <1>4, <1>6, <2>1, <2>2 DEF Backlogged, SockIs
  <2>4. \A i, j \in 1 .. Len(backlog') : backlog'[i] = backlog'[j] => i = j
    BY <1>6, <2>1, <2>2 DEF Backlogged
  <2>5. \A d \in Clients : sock'[d].net \in {"new", "backlog"} =>
          sock'[d].done = 0 /\ sock'[d].wrote = 0
    BY <1>1, <1>4 DEF Backlogged, SockIs
  <2> QED
    BY <2>3, <2>4, <2>5, Zenon DEF Backlogged
<1>11. Served'
  BY <1>1, <1>5, Zenon DEF Served
<1> QED
  BY <1>7, <1>8, <1>9, <1>10, <1>11, Zenon

(* A signal ends an epoll_wait.                                            *)
LEMMA SignalStep ==
  ASSUME Inv, on_shutdown_signal
  PROVE  Inv'
<1> USE DEF Inv
<1>1. /\ flag' \in BOOLEAN /\ UNCHANGED <<backlog, g_conns, sock>>
      /\ loop' = [loop EXCEPT !.at = IF @ = "wait" THEN "check" ELSE @]
  BY DEF on_shutdown_signal
<1>2. CASE loop.at = "wait"
  <2>1. loop' \in LoopRec /\ loop'.at = "check" /\ loop'.batch = loop.batch
    BY <1>1, <1>2, Zenon DEF Typed, LoopRec
  <2>2. Handling'
    BY <1>1, <1>2, <2>1 DEF Handling
  <2> QED
    BY <1>1, <1>2, <2>1, <2>2, LoopMoves, SMTT(30)
<1>3. CASE loop.at # "wait"
  <2>1. loop' = loop
    BY <1>1, <1>3 DEF Typed, LoopRec
  <2>2. \A f \in Fds : (Present(f)' <=> Present(f)) /\ Peer(f)' = Peer(f)
    BY <1>1 DEF Present, Peer
  <2>3. Typed' /\ Handling' /\ Table' /\ Backlogged'
    BY <1>1, <2>1, <2>2 DEF Typed, Handling, Table, Backlogged
  <2>4. Served'
    BY <1>1, <2>1, <2>2, Zenon DEF Served
  <2> QED
    BY <2>3, <2>4, Zenon
<1> QED
  BY <1>2, <1>3
-----------------------------------------------------------------------------
(* Between two calls of epoll_wait nothing is left of a batch.             *)
LEMMA MoveSteps ==
  ASSUME Inv, Block \/ BatchDone \/ AcceptEnds
  PROVE  Inv'
<1> USE DEF Inv
<1>1. PICK p \in {"wait", "check", "next"} :
        /\ loop' = [loop EXCEPT !.at = p]
        /\ loop.at \in {"enter", "next", "accept"}
        /\ p # "next" => loop.batch = <<>>
        /\ UNCHANGED <<flag, backlog, g_conns, sock>>
  BY Zenon DEF Block, BatchDone, AcceptEnds, Handling
<1>2. loop' \in LoopRec /\ loop'.at = p /\ loop'.batch = loop.batch
  BY <1>1, Zenon DEF Typed, LoopRec
<1>3. Handling'
  BY <1>1, <1>2 DEF Handling
<1>4. flag' \in BOOLEAN
  BY <1>1 DEF Typed
<1> QED
  BY <1>1, <1>2, <1>3, <1>4, LoopMoves, SMTT(30)

(* shutdown_cleanly closes every connection.                               *)
LEMMA CheckShutdownStep ==
  ASSUME Inv, CheckShutdown
  PROVE  Inv'
<1> USE DEF Inv
<1>1. loop.at = "check" /\ flag' = flag /\ flag \in BOOLEAN /\ loop.batch = <<>>
  BY Zenon DEF CheckShutdown, Typed, Handling
<1>2. CASE ~flag
  <2>1. loop' = [loop EXCEPT !.at = "enter"] /\ UNCHANGED <<g_conns, sock, backlog>>
    BY <1>2 DEF CheckShutdown
  <2>2. loop' \in LoopRec /\ loop'.at = "enter" /\ loop'.batch = loop.batch
    BY <2>1, Zenon DEF Typed, LoopRec
  <2>3. Handling'
    BY <1>1, <2>2 DEF Handling
  <2> QED
    BY <1>1, <2>1, <2>2, <2>3, LoopMoves, SMTT(30)
<1>3. CASE flag
  <2>1. /\ loop' = [loop EXCEPT !.at = "exited"] /\ g_conns' = [f \in Fds |-> Free]
        /\ sock' = [c \in Clients |-> IF Connected(c)
                                      THEN [sock[c] EXCEPT !.net = "closed"] ELSE sock[c]]
        /\ backlog' = <<>>
    BY <1>3, Zenon DEF CheckShutdown
  <2>2. loop' \in LoopRec /\ loop'.at = "exited" /\ loop'.batch = <<>>
    BY <1>1, <2>1, Zenon DEF Typed, LoopRec
  <2>3. g_conns' \in [Fds -> Slots] /\ \A f \in Fds : ~Present(f)'
    BY <2>1 DEF Slots, Present, Free
  <2>4. /\ sock' \in [Clients -> SockRec]
        /\ \A c \in Clients : /\ sock'[c].net \in {"new", "closed"}
                              /\ sock'[c].net = "new" => sock'[c] = sock[c]
    <3>1. \A c \in Clients : /\ sock[c] \in SockRec /\ [sock[c] EXCEPT !.net = "closed"] \in SockRec
                             /\ [sock[c] EXCEPT !.net = "closed"].net = "closed"
      BY ZenonT(40) DEF Typed, SockRec
    <3>2. \A c \in Clients : ~Connected(c) => sock[c].net \in {"new", "closed"}
      BY Zenon DEF Typed, SockRec, Connected
    <3>3. \A c \in Clients : IF Connected(c)
                             THEN sock'[c] = [sock[c] EXCEPT !.net = "closed"]
                             ELSE sock'[c] = sock[c]
      BY <2>1, Zenon
    <3>4. sock' \in [Clients -> SockRec]
      BY <2>1, <3>1, Zenon
    <3> QED
      BY <3>1, <3>2, <3>3, <3>4, Zenon
  <2>5. backlog' \in Seq(Clients) /\ Len(backlog') = 0
    BY <2>1
  <2>6. Typed'
    BY <1>1, <2>2, <2>3, <2>4, <2>5, Zenon DEF Typed
  <2>7. Handling'
    BY <2>2 DEF Handling
  <2>8. Table'
    BY <2>3, <2>4, Zenon DEF Table
  <2>9. Backlogged'
    BY <2>4, <2>5 DEF Backlogged
  <2>10. Served'
    BY <2>3, Zenon DEF Served
  <2> QED
    BY <2>6, <2>7, <2>8, <2>9, <2>10, Zenon
<1> QED
  BY <1>1, <1>2, <1>3

(* epoll_wait reports each fd once, with the connection it has.            *)
LEMMA EpollWaitStep ==
  ASSUME LoopFacts, Inv, EpollWait
  PROVE  Inv'
<1> USE DEF Inv
<1>0. PICK S \in kSubset(Min({MAX_EVENTS, Cardinality(Ready)}), Ready) :
        \E fds \in Injection(1 .. Cardinality(S), S) :
          loop' = [loop EXCEPT !.at = "next",
                     !.batch = [i \in DOMAIN fds |->
                       IF fds[i] = Listen
                       THEN [fd |-> Listen, who |-> Null, ev |-> {"in"}]
                       ELSE [fd |-> fds[i], who |-> g_conns[fds[i]].who,
                             ev |-> Events(fds[i])]]]
  BY Zenon DEF EpollWait
<1>1. PICK fds \in Injection(1 .. Cardinality(S), S) :
        loop' = [loop EXCEPT !.at = "next",
                   !.batch = [i \in DOMAIN fds |->
                     IF fds[i] = Listen
                     THEN [fd |-> Listen, who |-> Null, ev |-> {"in"}]
                     ELSE [fd |-> fds[i], who |-> g_conns[fds[i]].who,
                           ev |-> Events(fds[i])]]]
  BY <1>0, Zenon
<1>2. loop.at = "wait" /\ UNCHANGED <<flag, backlog, g_conns, sock>>
  BY Zenon DEF EpollWait
<1>3. S \subseteq Ready
  BY <1>0, Zenon DEF kSubset
<1>4. Ready \subseteq Fds \cup {Listen} /\ \A f \in Ready \cap Fds : Present(f)
  BY LoopAssumption, Zenon DEF Ready
<1>5. IsFiniteSet(S) /\ Cardinality(S) \in Nat
  <2>1. IsFiniteSet(Fds \cup {Listen})
    BY LoopAssumption, Zenon DEF LoopFacts, AddCount
  <2>2. IsFiniteSet(S)
    BY <1>3, <1>4, <2>1, SMTT(30) DEF LoopFacts, SubsetCount
  <2> QED
    BY <2>2 DEF LoopFacts, CountType
<1> DEFINE n == Cardinality(S)
<1>6. /\ fds \in [1 .. n -> S] /\ DOMAIN fds = 1 .. n
      /\ \A i, j \in 1 .. n : fds[i] = fds[j] => i = j
  BY <1>1, Zenon DEF Injection, IsInjective
<1> HIDE DEF n
<1> DEFINE B == [i \in DOMAIN fds |->
                   IF fds[i] = Listen
                   THEN [fd |-> Listen, who |-> Null, ev |-> {"in"}]
                   ELSE [fd |-> fds[i], who |-> g_conns[fds[i]].who,
                         ev |-> Events(fds[i])]]
<1>7. \A i \in 1 .. n : /\ B[i] \in EventRec /\ B[i].fd = fds[i]
                        /\ B[i].fd # Listen => B[i].fd \in Fds /\ Present(B[i].fd)
                                               /\ B[i].who = g_conns[B[i].fd].who
  <2> SUFFICES ASSUME NEW i \in 1 .. n
               PROVE  /\ B[i] \in EventRec /\ B[i].fd = fds[i]
                      /\ B[i].fd # Listen => B[i].fd \in Fds /\ Present(B[i].fd)
                                             /\ B[i].who = g_conns[B[i].fd].who
    BY Zenon
  <2>1. fds[i] \in Ready
    BY <1>3, <1>6
  <2>2. CASE fds[i] = Listen
    <3>1. B[i] = [fd |-> Listen, who |-> Null, ev |-> {"in"}]
      BY <1>6, <2>2, Zenon
    <3> HIDE DEF B
    <3> QED
      BY <2>2, <3>1 DEF EventRec
  <2>3. CASE fds[i] # Listen
    <3>1. B[i] = [fd |-> fds[i], who |-> g_conns[fds[i]].who, ev |-> Events(fds[i])]
      BY <1>6, <2>3, Zenon
    <3>2. fds[i] \in Fds /\ Present(fds[i])
      BY <1>4, <2>1, <2>3
    <3>3. g_conns[fds[i]].who \in Clients /\ Events(fds[i]) \in SUBSET {"in", "out", "hup"}
      BY <3>2, PresentIs, Zenon DEF Events
    <3> HIDE DEF B
    <3> QED
      BY <2>3, <3>1, <3>2, <3>3 DEF EventRec
  <2> QED
    BY <2>2, <2>3, ZenonT(40)
<1>8. B \in Seq(EventRec) /\ Len(B) = n /\ n \in Nat
  <2>1. n \in Nat /\ B \in [1 .. n -> EventRec]
    BY <1>5, <1>6, <1>7, Zenon DEF n
  <2> HIDE DEF B
  <2> QED
    BY <2>1
<1>9. loop' = [loop EXCEPT !.at = "next", !.batch = B]
  BY <1>1, Zenon
<1> HIDE DEF B
<1>10. loop' \in LoopRec /\ loop'.at = "next" /\ loop'.batch = B
  BY <1>8, <1>9, Zenon DEF Typed, LoopRec
<1>11. Handling'
  <2>1. \A i \in 1 .. n : B[i].fd # Listen => B[i].who # Null /\ g_conns'[B[i].fd].who = B[i].who
    BY <1>2, <1>7, Zenon DEF Present
  <2>2. \A i, j \in 1 .. n : B[i].fd = B[j].fd => i = j
    BY <1>6, <1>7
  <2> QED
    BY <1>8, <1>10, <2>1, <2>2, Zenon DEF Handling
<1>12. flag' \in BOOLEAN
  BY <1>2 DEF Typed
<1> QED
  BY <1>2, <1>10, <1>11, <1>12, LoopMoves, SMTT(30)

(* The next event of the batch: a handler begins, or a connection is       *)
(* closed for an error, or gone already.                                   *)
LEMMA NextEventStep ==
  ASSUME Inv, NextEvent
  PROVE  Inv'
<1> USE DEF Inv
<1> DEFINE e        == Head(loop.batch)
           t        == Tail(loop.batch)
           Go(a, l) == loop' = [at |-> a, batch |-> t, fd |-> e.fd, ev |-> l]
<1>1. loop.at = "next" /\ loop.batch # <<>> /\ flag' \in BOOLEAN /\ UNCHANGED <<flag, backlog>>
  BY Zenon DEF NextEvent, Typed
<1>2. loop.batch \in Seq(EventRec)
  BY BatchIs, Zenon
<1>3. /\ e \in EventRec /\ e = loop.batch[1] /\ Len(loop.batch) > 0 /\ Len(loop.batch) \in Nat
      /\ t \in Seq(EventRec) /\ Len(t) = Len(loop.batch) - 1
      /\ \A i \in 1 .. Len(t) : t[i] = loop.batch[i + 1]
  BY <1>1, <1>2
<1>4. e.fd \in Fds \cup {Listen} /\ e.ev \in SUBSET {"in", "out", "hup"}
  BY <1>3, Zenon DEF EventRec
<1> HIDE DEF e, t
<1>5. /\ \A i \in 1 .. Len(t) : t[i].fd # e.fd
      /\ \A i, j \in 1 .. Len(t) : t[i].fd = t[j].fd => i = j
      /\ \A i \in 1 .. Len(t) : t[i].fd # Listen =>
           t[i].fd \in Fds /\ t[i].who # Null /\ g_conns[t[i].fd].who = t[i].who
  <2>1. \A i \in 1 .. Len(t) : i + 1 \in 1 .. Len(loop.batch) /\ i + 1 # 1
    BY <1>3
  <2>2. 1 \in 1 .. Len(loop.batch)
    BY <1>3
  <2>3. \A i \in 1 .. Len(t) : t[i].fd # e.fd
    BY <1>3, <2>1, <2>2, SMTT(30) DEF Handling
  <2>4. ASSUME NEW i \in 1 .. Len(t), NEW j \in 1 .. Len(t), t[i].fd = t[j].fd
        PROVE  i = j
    <3>1. /\ i + 1 \in 1 .. Len(loop.batch) /\ j + 1 \in 1 .. Len(loop.batch)
          /\ loop.batch[i + 1].fd = loop.batch[j + 1].fd
      BY <1>3, <2>1, <2>4, Zenon
    <3>2. i + 1 = j + 1
      BY <3>1, Zenon DEF Handling
    <3> QED
      BY <3>2, <1>3
  <2>5. \A i \in 1 .. Len(t) : t[i].fd # Listen =>
          t[i].fd \in Fds /\ t[i].who # Null /\ g_conns[t[i].fd].who = t[i].who
    BY <1>3, <2>1, BatchIs DEF Handling
  <2> QED
    BY <2>3, <2>4, <2>5, Zenon
<1>6. ASSUME NEW a \in {"next", "accept", "read", "flush"}, NEW l \in SUBSET {"out"}, Go(a, l),
             a \in {"read", "flush"} => e.fd \in Fds /\ g_conns'[e.fd].who # Null,
             \A g \in Fds \ {e.fd} : g_conns'[g] = g_conns[g]
      PROVE  loop' \in LoopRec /\ loop'.at = a /\ Handling'
  <2>1. /\ loop' \in LoopRec /\ loop'.at = a /\ loop'.fd = e.fd /\ loop'.batch = t
    BY <1>3, <1>4, <1>6, Zenon DEF LoopRec
  <2>2. \A i \in 1 .. Len(t) : t[i].fd # Listen => g_conns'[t[i].fd].who = t[i].who
    BY <1>5, <1>6, Zenon
  <2>3. loop'.at \in {"read", "flush"} =>
          /\ loop'.fd \in Fds /\ Present(loop.fd)'
          /\ \A i \in 1 .. Len(loop'.batch) : loop'.batch[i].fd # loop'.fd
    BY <1>5, <1>6, <2>1, Zenon DEF Present
  <2>4. loop'.at \notin {"check", "enter", "wait", "exited"}
    BY <2>1
  <2>5. \A i \in 1 .. Len(loop'.batch) : loop'.batch[i].fd # Listen =>
          /\ loop'.batch[i].who # Null
          /\ g_conns'[loop'.batch[i].fd].who = loop'.batch[i].who
    BY <1>5, <2>1, <2>2, Zenon
  <2>6. \A i, j \in 1 .. Len(loop'.batch) : loop'.batch[i].fd = loop'.batch[j].fd => i = j
    BY <1>5, <2>1, Zenon
  <2> QED
    BY <2>1, <2>3, <2>4, <2>5, <2>6, Zenon DEF Handling
<1>7. CASE e.fd = Listen /\ Go("accept", {}) /\ UNCHANGED <<g_conns, sock>>
  <2>1. loop' \in LoopRec /\ Handling'
    BY <1>6, <1>7, Zenon
  <2> QED
    BY <1>1, <1>7, <2>1, LoopMoves, Zenon
<1>8. CASE /\ e.fd # Listen /\ Go("next", {})
           /\ IF Present(e.fd) THEN conn_close(e.fd) ELSE UNCHANGED <<g_conns, sock>>
  <2>1. CASE ~Present(e.fd)
    <3>1. loop' \in LoopRec /\ Handling'
      BY <1>6, <1>8, <2>1, Zenon
    <3> QED
      BY <1>1, <1>8, <2>1, <3>1, LoopMoves, Zenon
  <2>2. CASE Present(e.fd)
    <3>1. e.fd \in Fds /\ conn_close(e.fd)
      BY <1>4, <1>8, <2>2
    <3>2. \A g \in Fds \ {e.fd} : g_conns'[g] = g_conns[g]
      BY <3>1, Zenon DEF conn_close, Typed
    <3>3. loop' \in LoopRec /\ loop'.at = "next" /\ Handling'
      BY <1>6, <1>8, <3>2, Zenon
    <3> QED
      BY <1>1, <2>2, <3>1, <3>3, CloseStep, SMTT(30)
  <2> QED
    BY <2>1, <2>2
<1>9. CASE /\ e.fd # Listen /\ Present(e.fd) /\ UNCHANGED <<g_conns, sock>>
           /\ "hup" \notin e.ev
           /\ IF "in" \in e.ev THEN Go("read", e.ev \ {"in"}) ELSE Go("flush", {})
  <2>1. e.fd \in Fds /\ g_conns'[e.fd].who # Null
    BY <1>4, <1>9, Zenon DEF Present
  <2>3. e.ev \ {"in"} \in SUBSET {"out"} /\ {} \in SUBSET {"out"}
    BY <1>4, <1>9, Zenon
  <2>2. loop' \in LoopRec /\ Handling'
    BY <1>6, <1>9, <2>1, <2>3, Zenon
  <2> QED
    BY <1>1, <1>9, <2>2, LoopMoves, Zenon
<1> QED
  BY <1>7, <1>8, <1>9, Zenon DEF NextEvent, e, t

(* accept4 returns a connection, which has the fd from then on; or it is   *)
(* closed at once.                                                         *)
LEMMA NewConnIs ==
  ASSUME LoopFacts, NEW c \in Clients
  PROVE  /\ NewConn(c) \in GoodConn /\ NewConn(c).who = c
         /\ ArmedRight(NewConn(c)) /\ Parsed(NewConn(c)) /\ Unsent(NewConn(c)) = 0
<1> DEFINE n == NewConn(c)
<1>1. /\ n \in ConnRec /\ n.who = c /\ n.in = <<>> /\ n.out = <<>> /\ n.out_sent = 0
      /\ n.closing = FALSE /\ n.want_write = FALSE
  BY DEF NewConn, ConnRec
<1>2. Len(n.in) = 0 /\ Len(n.out) = 0
  BY <1>1
<1> HIDE DEF n
<1>3. n \in GoodConn
  BY <1>1, <1>2, LoopAssumption DEF GoodConn
<1>4. ArmedRight(n) /\ Parsed(n)
  BY <1>1, <1>2 DEF ArmedRight, Parsed
<1>5. Unsent(n) = 0
  <2>1. \A i \in 0 + 1 .. 0 : n.out[i] # "ok"
    OBVIOUS
  <2>2. Count(n.out, "ok", 0 + 1, 0) = 0
    BY <2>1, CountNone
  <2> QED
    BY <1>1, <1>2, <2>2 DEF Unsent
<1> QED
  BY <1>1, <1>3, <1>4, <1>5, Zenon DEF n

(* accept4 takes the oldest connection of the backlog.                     *)
LEMMA AcceptStep ==
  ASSUME LoopFacts, Inv, Accept
  PROVE  Inv'
<1> USE DEF Inv
<1> DEFINE h == Head(backlog)
<1>1. /\ sock \in [Clients -> SockRec] /\ backlog \in Seq(Clients)
      /\ g_conns \in [Fds -> Slots] /\ loop \in LoopRec /\ flag \in BOOLEAN
      /\ loop.at = "accept" /\ backlog # <<>> /\ backlog' = Tail(backlog)
      /\ UNCHANGED <<flag, loop>>
  BY Zenon DEF Accept, Typed
<1>2. /\ h \in Clients /\ h = backlog[1] /\ Len(backlog) \in Nat \ {0}
      /\ backlog' \in Seq(Clients) /\ Len(backlog') = Len(backlog) - 1
      /\ \A i \in 1 .. Len(backlog') : backlog'[i] = backlog[i + 1]
  BY <1>1
<1>3. /\ sock[h].net = "backlog" /\ sock[h].done = 0 /\ sock[h].wrote = 0
  BY <1>2 DEF Backlogged
<1>4. \A i \in 1 .. Len(backlog') : backlog'[i] \in Clients \ {h}
  <2>1. \A i \in 1 .. Len(backlog') : i + 1 \in 1 .. Len(backlog) /\ i + 1 # 1
    BY <1>2
  <2>2. 1 \in 1 .. Len(backlog)
    BY <1>2
  <2>3. \A i \in 1 .. Len(backlog) : backlog[i] \in Clients
    BY <1>1
  <2> QED
    BY <1>2, <2>1, <2>2, <2>3, Zenon DEF Backlogged
<1> HIDE DEF h
<1>5. \A g \in Fds : g_conns[g].who # h
  BY <1>2, <1>3, PresentIs, Zenon DEF Table, Peer
<1>6. ASSUME NEW net \in {"open", "closed"}, SockIs(h, net, 0, 0)
      PROVE  Backlogged'
  <2>1. \A i \in 1 .. Len(backlog') : sock'[backlog'[i]].net = "backlog"
    <3>1. \A i \in 1 .. Len(backlog') : i + 1 \in 1 .. Len(backlog)
      BY <1>2
    <3> QED
      BY <1>2, <1>4, <1>6, <3>1, SMTT(30) DEF Backlogged, SockIs
  <2>2. \A i, j \in 1 .. Len(backlog') : backlog'[i] = backlog'[j] => i = j
    <3> SUFFICES ASSUME NEW i \in 1 .. Len(backlog'), NEW j \in 1 .. Len(backlog'),
                        backlog'[i] = backlog'[j]
                 PROVE  i = j
      OBVIOUS
    <3>1. i + 1 \in 1 .. Len(backlog) /\ j + 1 \in 1 .. Len(backlog)
      BY <1>2
    <3>2. backlog[i + 1] = backlog[j + 1]
      BY <1>2, Zenon
    <3>3. i + 1 = j + 1
      BY <3>1, <3>2 DEF Backlogged
    <3> QED
      BY <3>3, <1>2
  <2>3. \A d \in Clients : sock'[d].net \in {"new", "backlog"} =>
          sock'[d].done = 0 /\ sock'[d].wrote = 0
    BY <1>6, Zenon DEF Backlogged, SockIs
  <2> QED
    BY <2>1, <2>2, <2>3, Zenon DEF Backlogged
<1>7. ASSUME NEW f \in Fds, ~Present(f), g_conns' = [g_conns EXCEPT ![f] = NewConn(h)],
             sock' = [sock EXCEPT ![h].net = "open"]
      PROVE  Inv'
  <2> DEFINE n == NewConn(h)
  <2>1. /\ n \in GoodConn /\ n \in Slots /\ n.who = h /\ h # Null
        /\ ArmedRight(n) /\ Parsed(n) /\ Unsent(n) = 0
    BY <1>2, NewConnIs, ConnOf, Zenon
  <2>2. g_conns' = [g_conns EXCEPT ![f] = n]
    BY <1>7
  <2> HIDE DEF n
  <2>3. SlotIs(f, n)
    BY <1>1, <2>1, <2>2, SlotSet, Zenon
  <2>4. SockIs(h, "open", 0, 0)
    BY <1>1, <1>2, <1>3, <1>7, SockNet, Zenon
  <2>5. \A g \in Fds \ {f} :
          /\ g_conns'[g] = g_conns[g] /\ (Present(g)' <=> Present(g))
          /\ Present(g) => g_conns[g].who \in Clients \ {h} /\ Peer(g)' = Peer(g)
    <3>1. \A g \in Fds : Present(g) => g_conns[g].who \in Clients \ {h}
      BY <1>5, PresentIs, Zenon
    <3> QED
      BY <2>3, <2>4, <3>1, Zenon DEF SlotIs, SockIs, Present, Peer
  <2>6. Present(f)' /\ g_conns'[f] = n /\ Peer(f)' = sock'[h]
    BY <2>1, <2>3, Zenon DEF SlotIs, Present, Peer
  <2>7. Typed'
    BY <1>1, <1>2, <2>3, <2>4, ZenonT(40) DEF Typed, SlotIs, SockIs
  <2>8. Handling'
    <3>1. \A i \in 1 .. Len(loop.batch) : loop.batch[i].fd # Listen =>
            loop.batch[i].fd \in Fds \ {f}
      BY <1>7, BatchIs DEF Handling, Present
    <3>2. \A i \in 1 .. Len(loop.batch) : loop.batch[i].fd # Listen =>
            g_conns'[loop.batch[i].fd] = g_conns[loop.batch[i].fd]
      BY <2>5, <3>1, Zenon
    <3> QED
      BY <1>1, <3>2, SMTT(30) DEF Handling
  <2>9. Table'
    <3>1. \A g \in Fds : Present(g)' => Peer(g)'.net = "open"
      <4>1. Peer(f)'.net = "open"
        BY <2>4, <2>6, Zenon DEF SockIs
      <4>2. \A g \in Fds \ {f} : Present(g)' => Peer(g)'.net = "open"
        BY <2>5 DEF Table
      <4> QED
        BY <4>1, <4>2
    <3>2. \A g, k \in Fds : Present(g)' /\ g_conns'[g].who = g_conns'[k].who => g = k
      BY <1>5, <2>1, <2>5, <2>6, SMTT(30) DEF Table
    <3>3. ASSUME NEW c \in Clients, sock'[c].net = "open"
          PROVE  \E g \in Fds : g_conns'[g].who = c
      <4>1. CASE c = h
        BY <2>1, <2>6, <4>1, Zenon
      <4>2. CASE c # h
        <5>1. sock[c].net = "open"
          BY <2>4, <3>3, <4>2, Zenon DEF SockIs
        <5>2. PICK g \in Fds : g_conns[g].who = c
          BY <5>1, Zenon DEF Table
        <5>3. Present(g)
          BY <5>2, PresentIs, Zenon
        <5>4. g # f
          BY <1>7, <5>3
        <5> QED
          BY <2>5, <5>2, <5>4, Zenon
      <4> QED
        BY <4>1, <4>2
    <3> QED
      BY <3>1, <3>2, <3>3, Zenon DEF Table
  <2>10. Served'
    <3>1. Peer(f)'.done = Peer(f)'.wrote + Unsent(n)
      BY <2>1, <2>4, <2>6, SMTT(30) DEF SockIs
    <3>2. ASSUME NEW g \in Fds \ {f}, Present(g)'
          PROVE  /\ ArmedRight(g_conns'[g]) /\ Parsed(g_conns'[g])
                 /\ Peer(g)'.done = Peer(g)'.wrote + Unsent(g_conns'[g])
      BY <1>1, <2>5, <3>2, Zenon DEF Served
    <3>3. ASSUME NEW g \in Fds, Present(g)'
          PROVE  /\ ArmedRight(g_conns'[g]) /\ Parsed(g_conns'[g])
                 /\ Peer(g)'.done = Peer(g)'.wrote + Unsent(g_conns'[g])
      BY <2>1, <2>6, <3>1, <3>2, <3>3, Zenon
    <3> QED
      BY <3>3, Zenon DEF Served, ArmedRight, Parsed, Unsent
  <2> QED
    BY <1>6, <2>4, <2>7, <2>8, <2>9, <2>10
<1>8. CASE sock' = [sock EXCEPT ![h].net = "closed"] /\ UNCHANGED g_conns
  <2>1. SockIs(h, "closed", 0, 0)
    BY <1>1, <1>2, <1>3, <1>8, SockNet, Zenon
  <2>2. \A g \in Fds :
          /\ Present(g)' <=> Present(g)
          /\ Present(g) => g_conns[g].who \in Clients \ {h} /\ Peer(g)' = Peer(g)
    <3>1. \A g \in Fds : Present(g) => g_conns[g].who \in Clients \ {h}
      BY <1>5, PresentIs, Zenon
    <3> QED
      BY <1>8, <2>1, <3>1, Zenon DEF SockIs, Present, Peer
  <2>3. Typed'
    BY <1>1, <1>2, <1>8, <2>1, Zenon DEF Typed, SockIs
  <2>4. Handling'
    BY <1>1, <1>8, <2>2, ZenonT(40) DEF Handling
  <2>5. Table'
    <3>1. \A d \in Clients : sock'[d].net = "open" => sock[d].net = "open"
      BY <2>1 DEF SockIs
    <3> QED
      BY <1>8, <2>2, <3>1, SMTT(30) DEF Table
  <2>6. Served'
    BY <1>1, <1>8, <2>2, Zenon DEF Served
  <2> QED
    BY <1>6, <2>1, <2>3, <2>4, <2>5, <2>6, SMTT(30)
<1> QED
  BY <1>7, <1>8, Zenon DEF Accept, h

-----------------------------------------------------------------------------
(* The end of the reading: what is parsed is queued as replies, and none   *)
(* is lost or counted twice.                                               *)
LEMMA ProcessStep ==
  ASSUME LoopFacts, Inv, loop.at = "read", NEW c \in GoodConn, c.who = g_conns[loop.fd].who,
         sock[c.who].done = sock[c.who].wrote + Unsent(c),
         NEW r \in Seq(Unit), Process(c, r), UNCHANGED <<flag, backlog>>
  PROVE  Inv'
<1> USE DEF Inv
<1> DEFINE p == conn_process_input(c)
           q == p.conn
           k == p.done
           w == c.who
           m == sock[w].done + k
           z == [sock[w] EXCEPT !.sent = r, !.done = m]
<1>1. /\ sock \in [Clients -> SockRec] /\ g_conns \in [Fds -> Slots] /\ loop \in LoopRec
      /\ loop.fd \in Fds /\ w \in Clients
  BY ConnOf, Zenon DEF Typed, Handling
<1>2. /\ q \in GoodConn /\ q.who = w /\ Parsed(q) /\ k \in Nat /\ Unsent(q) = Unsent(c) + k
  BY ProcessIs, Zenon
<1>3. /\ loop' = [loop EXCEPT !.at = "flush"] /\ g_conns' = [g_conns EXCEPT ![loop.fd] = q]
      /\ sock' = [sock EXCEPT ![w] = z]
  BY Zenon DEF Process
<1> HIDE DEF p, q, k
<1>4. sock[w] \in SockRec
  BY <1>1, Zenon
<1>5. /\ sock[w].done \in Nat /\ sock[w].wrote \in Nat
  BY <1>4, Zenon DEF SockRec
<1>6. m \in Nat
  BY <1>2, <1>5
<1> HIDE DEF w, m
<1>15. /\ z \in SockRec /\ z.net = sock[w].net /\ z.done = m /\ z.wrote = sock[w].wrote
  BY <1>4, <1>6, Zenon DEF SockRec
<1> HIDE DEF z
<1>7. SockIs(w, sock[w].net, m, sock[w].wrote)
  BY <1>1, <1>3, <1>15, SockSet, Zenon
<1>8. q \in Slots
  BY <1>2, ConnOf, Zenon
<1>9. SlotIs(loop.fd, q)
  BY <1>1, <1>3, <1>8, SlotSet, Zenon
<1>10. Unsent(c) \in Nat
  <2>1. c.out_sent + 1 \in Int /\ Len(c.out) \in Int
    BY ConnOf
  <2> QED
    BY <2>1, CountIs, Zenon DEF Unsent
<1>11. m = sock[w].wrote + Unsent(q)
  BY <1>2, <1>5, <1>10 DEF m, w
<1>12. /\ loop' \in LoopRec /\ loop'.at = "flush" /\ loop'.fd = loop.fd
       /\ loop'.batch = loop.batch
  BY <1>1, <1>3, Zenon DEF LoopRec
<1>13. SockIs(q.who, sock[q.who].net, m, sock[w].wrote)
  BY <1>2, <1>7, Zenon
<1>14. /\ loop.at \in {"read", "flush"} /\ loop'.at \in {"read", "flush", "next"}
       /\ loop'.at # "next" /\ q.who = g_conns[loop.fd].who
  BY <1>2, <1>12, Zenon DEF w
<1> QED
  BY <1>2, <1>9, <1>11, <1>12, <1>13, <1>14, ServeStep, Zenon

(* The connection that a handler is at work on.                            *)
LEMMA HandledIs ==
  ASSUME Inv, loop.at \in {"read", "flush"}
  PROVE  /\ loop.fd \in Fds /\ Present(loop.fd)
         /\ g_conns[loop.fd] \in GoodConn
         /\ Peer(loop.fd) = sock[g_conns[loop.fd].who]
         /\ g_conns[loop.fd].who \in Clients
         /\ Peer(loop.fd) \in SockRec
         /\ Peer(loop.fd).sent \in Seq(Unit) /\ Peer(loop.fd).wbuf \in 0 .. SendBuf
         /\ Peer(loop.fd).done \in Nat /\ Peer(loop.fd).wrote \in Nat
         /\ Peer(loop.fd).done = Peer(loop.fd).wrote + Unsent(g_conns[loop.fd])
         /\ loop.at = "flush" => Parsed(g_conns[loop.fd])
<1>1. loop.fd \in Fds /\ Present(loop.fd) /\ Typed
  BY Zenon DEF Handling, Inv
<1>2. g_conns[loop.fd] \in GoodConn /\ g_conns[loop.fd].who \in Clients
  BY <1>1, PresentIs, Zenon
<1>3. Peer(loop.fd) = sock[g_conns[loop.fd].who] /\ Peer(loop.fd) \in SockRec
  BY <1>1, <1>2, ZenonT(40) DEF Peer, Typed
<1>4. /\ Peer(loop.fd).sent \in Seq(Unit) /\ Peer(loop.fd).wbuf \in 0 .. SendBuf
      /\ Peer(loop.fd).done \in Nat /\ Peer(loop.fd).wrote \in Nat
  BY <1>3, Zenon DEF SockRec
<1>5. /\ Peer(loop.fd).done = Peer(loop.fd).wrote + Unsent(g_conns[loop.fd])
      /\ loop.at = "flush" => Parsed(g_conns[loop.fd])
  BY <1>1, Zenon DEF Inv, Served
<1> QED
  BY <1>1, <1>2, <1>3, <1>4, <1>5, Zenon

(* read() would block: the input is parsed.                                *)
LEMMA ReadBlocksStep ==
  ASSUME LoopFacts, Inv, ReadBlocks
  PROVE  Inv'
<1> DEFINE c == g_conns[loop.fd]
<1>1. loop.at = "read" /\ Process(c, <<>>) /\ UNCHANGED <<flag, backlog>>
  BY Zenon DEF ReadBlocks
<1>2. /\ c \in GoodConn /\ sock[c.who].done = sock[c.who].wrote + Unsent(c)
  BY <1>1, HandledIs, Zenon
<1>3. <<>> \in Seq(Unit) /\ c.who = g_conns[loop.fd].who
  OBVIOUS
<1> HIDE DEF c
<1> QED
  BY <1>1, <1>2, <1>3, ProcessStep, Zenon

(* read() or write() fails, the client has closed, or a connection to be   *)
(* closed has nothing left to send: conn_close.                            *)
LEMMA EndSteps ==
  ASSUME Inv, ReadEnds \/ CloseFlushed
  PROVE  Inv'
<1>1. /\ loop.at \in {"read", "flush"} /\ conn_close(loop.fd)
      /\ loop' = [loop EXCEPT !.at = "next"] /\ UNCHANGED <<flag, backlog>>
  BY Zenon DEF ReadEnds, CloseFlushed
<1>2. loop.fd \in Fds /\ Present(loop.fd) /\ loop \in LoopRec
  BY <1>1, HandledIs, Zenon DEF Inv, Typed
<1>3. loop' \in LoopRec /\ loop'.at = "next" /\ loop'.batch = loop.batch
  BY <1>1, <1>2 DEF LoopRec
<1>4. \A g \in Fds \ {loop.fd} : g_conns'[g] = g_conns[g]
  BY <1>1, <1>2, Zenon DEF conn_close, Inv, Typed
<1>5. \A i \in 1 .. Len(loop.batch) : loop.batch[i].fd # Listen =>
        loop.batch[i].fd \in Fds \ {loop.fd}
  BY <1>1, BatchIs, Zenon DEF Inv, Handling
<1>6. \A i \in 1 .. Len(loop.batch) : loop.batch[i].fd # Listen =>
        g_conns'[loop.batch[i].fd] = g_conns[loop.batch[i].fd]
  BY <1>4, <1>5, Zenon
<1>7. Handling'
  BY <1>3, <1>6 DEF Inv, Handling
<1>8. loop.at \in {"next", "read", "flush"}
  BY <1>1
<1> QED
  BY <1>1, <1>2, <1>3, <1>7, <1>8, CloseStep, Zenon

(* read() has data, which is added to the input or is too much for it.     *)
LEMMA ReadStep ==
  ASSUME LoopFacts, Inv, Read
  PROVE  Inv'
<1> DEFINE c == g_conns[loop.fd]
           w == c.who
           x == Peer(loop.fd).sent
           n == Min({READ_CHUNK, Len(x)})
           r == SubSeq(x, n + 1, Len(x))
           i == c.in \o SubSeq(x, 1, n)
           o == Append(c.out, "err")
           d == [c EXCEPT !.in = i]
           b == [c EXCEPT !.out = o, !.closing = TRUE]
<1>1. /\ loop.at = "read" /\ x # <<>> /\ UNCHANGED <<flag, backlog>>
      /\ \/ Process(b, r)
         \/ Len(i) <= MAX_CONN_INPUT_BUF /\ Process(d, r)
         \/ /\ Len(i) <= MAX_CONN_INPUT_BUF /\ UNCHANGED loop
            /\ g_conns' = [g_conns EXCEPT ![loop.fd] = d]
            /\ sock' = [sock EXCEPT ![w].sent = r]
  <2>1. /\ loop.at = "read" /\ x # <<>> /\ UNCHANGED <<flag, backlog>>
        /\ \/ Process(b, r)
           \/ Len(d.in) <= MAX_CONN_INPUT_BUF /\ Process(d, r)
           \/ /\ Len(d.in) <= MAX_CONN_INPUT_BUF /\ UNCHANGED loop
              /\ g_conns' = [g_conns EXCEPT ![loop.fd] = d]
              /\ sock' = [sock EXCEPT ![w].sent = r]
    BY Zenon DEF Read
  <2>2. loop.at \in {"read", "flush"}
    BY <2>1, Zenon
  <2>3. c \in ConnRec
    BY <2>2, HandledIs, ConnOf, Zenon
  <2>4. d.in = i
    BY <2>3, ZenonT(40) DEF ConnRec
  <2> HIDE DEF d, b, i, r, c, x
  <2> QED
    BY <2>1, <2>4, Zenon
<1>2. /\ loop.fd \in Fds /\ c \in GoodConn /\ w \in Clients /\ x \in Seq(Unit)
      /\ sock[w].done = sock[w].wrote + Unsent(c) /\ sock[w] \in SockRec
  BY <1>1, HandledIs, Zenon
<1>3. /\ c.in \in Seq(Unit) /\ c.out \in Seq(Reply) /\ c \in ConnRec
      /\ c.out_sent \in Nat /\ Len(c.out) \in Nat /\ c.out_sent <= Len(c.out)
      /\ Len(c.in) <= MAX_CONN_INPUT_BUF
  <2>1. c.out_sent \in 0 .. Len(c.out) /\ Len(c.out) \in Nat
    BY <1>2, ConnOf, Zenon
  <2> QED
    BY <1>2, <2>1, ConnOf
<1> HIDE DEF c, x
<1>4. n \in Nat /\ n <= Len(x) /\ Len(x) \in Nat
  <2> DEFINE S == {READ_CHUNK, Len(x)}
  <2>1. Len(x) \in Nat
    BY <1>2
  <2>2. S \in SUBSET Nat /\ S # {} /\ Len(x) \in S
    BY <2>1, LoopAssumption
  <2>3. Min(S) \in S /\ \A y \in S : Min(S) <= y
    BY <2>2, MinIs, Zenon
  <2> HIDE DEF S
  <2>4. Min(S) \in Nat /\ Min(S) <= Len(x)
    BY <2>2, <2>3, Zenon
  <2> QED
    BY <2>1, <2>4, Zenon DEF S
<1> HIDE DEF n
<1>5. r \in Seq(Unit)
  <2>1. n + 1 \in Nat \ {0} /\ Len(x) <= Len(x)
    BY <1>4
  <2> QED
    BY <1>2, <1>4, <2>1, PartIs, Zenon
<1>6. i \in Seq(Unit)
  <2>1. 1 \in Nat \ {0}
    OBVIOUS
  <2>2. SubSeq(x, 1, n) \in Seq(Unit)
    BY <1>2, <1>4, <2>1, PartIs, Zenon
  <2> QED
    BY <1>3, <2>2
<1>7. /\ o \in Seq(Reply) /\ Len(o) = Len(c.out) + 1 /\ o[Len(c.out) + 1] = "err"
      /\ \A j \in 1 .. Len(c.out) : o[j] = c.out[j]
  <2>1. "err" \in Reply
    BY DEF Reply
  <2> QED
    BY <1>3, <2>1
<1> HIDE DEF r, i, o
<1>8. /\ d \in ConnRec /\ d.who = w /\ d.in = i /\ d.out = c.out /\ d.out_sent = c.out_sent
      /\ b \in ConnRec /\ b.who = w /\ b.in = c.in /\ b.out = o /\ b.out_sent = c.out_sent
  BY <1>3, <1>6, <1>7, Zenon DEF ConnRec
<1> HIDE DEF d, b
<1>9. Len(i) <= MAX_CONN_INPUT_BUF => d \in GoodConn
  BY <1>3, <1>8 DEF GoodConn
<1>10. Unsent(d) = Unsent(c)
  BY <1>8, Zenon DEF Unsent
<1>11. b \in GoodConn
  BY <1>3, <1>7, <1>8 DEF GoodConn
<1>12. Unsent(b) = Unsent(c)
  <2> DEFINE s == c.out_sent
             l == Len(c.out)
  <2>1. /\ s + 1 \in Int /\ l \in Int /\ l + 1 \in Int /\ s + 1 <= l + 1 /\ l <= l + 1
        /\ \A j \in s + 1 .. l : c.out[j] = o[j]
        /\ \A j \in l + 1 .. l + 1 : o[j] # "ok"
    BY <1>3, <1>7
  <2> HIDE DEF s, l
  <2>2. Count(o, "ok", s + 1, l + 1) = Count(c.out, "ok", s + 1, l) + Count(o, "ok", l + 1, l + 1)
    <3> DEFINE y == s + 1
               v == l + 1
    <3>1. /\ y \in Int /\ l \in Int /\ v \in Int /\ y <= l + 1 /\ l <= v
          /\ \A j \in y .. l : c.out[j] = o[j]
      BY <2>1, Zenon
    <3> HIDE DEF y, v
    <3>2. Count(o, "ok", y, v) = Count(c.out, "ok", y, l) + Count(o, "ok", l + 1, v)
      BY <3>1, CountSplit
    <3> QED
      BY <3>2, Zenon DEF y, v
  <2>3. Count(o, "ok", l + 1, l + 1) = 0
    BY <2>1, CountNone, Zenon
  <2>4. Count(c.out, "ok", s + 1, l) \in Nat
    BY <2>1, CountIs, Zenon
  <2>5. Count(o, "ok", s + 1, l + 1) = Count(c.out, "ok", s + 1, l)
    BY <2>2, <2>3, <2>4, SMTT(30)
  <2> QED
    BY <1>7, <1>8, <2>5, Zenon DEF Unsent, s, l
<1>13. w = g_conns[loop.fd].who
  BY Zenon DEF c
<1> HIDE DEF w
<1>14. CASE Process(b, r)
  <2>1. b.who = g_conns[loop.fd].who /\ sock[b.who].done = sock[b.who].wrote + Unsent(b)
    BY <1>2, <1>8, <1>12, <1>13, Zenon
  <2> QED
    BY <1>1, <1>5, <1>11, <1>14, <2>1, ProcessStep, Zenon
<1>15. CASE Len(i) <= MAX_CONN_INPUT_BUF /\ Process(d, r)
  <2>1. d.who = g_conns[loop.fd].who /\ sock[d.who].done = sock[d.who].wrote + Unsent(d)
    BY <1>2, <1>8, <1>10, <1>13, Zenon
  <2>2. d \in GoodConn
    BY <1>9, <1>15, Zenon
  <2> QED
    BY <1>1, <1>5, <1>15, <2>1, <2>2, ProcessStep, Zenon
<1>16. CASE /\ Len(i) <= MAX_CONN_INPUT_BUF /\ UNCHANGED loop
            /\ g_conns' = [g_conns EXCEPT ![loop.fd] = d]
            /\ sock' = [sock EXCEPT ![w].sent = r]
  <2>1. d \in GoodConn /\ d \in Slots
    BY <1>9, <1>16, ConnOf, Zenon
  <2>2. g_conns \in [Fds -> Slots] /\ sock \in [Clients -> SockRec] /\ loop \in LoopRec
    BY DEF Inv, Typed
  <2>3. SlotIs(loop.fd, d)
    BY <1>2, <1>16, <2>1, <2>2, SlotSet, Zenon
  <2> DEFINE z == [sock[w] EXCEPT !.sent = r]
  <2>4. sock' = [sock EXCEPT ![w] = z]
    BY <1>16, Zenon
  <2>5. /\ z \in SockRec /\ z.net = sock[w].net /\ z.done = sock[w].done
        /\ z.wrote = sock[w].wrote
    BY <1>2, <1>5, Zenon DEF SockRec
  <2> HIDE DEF z
  <2>6. SockIs(w, sock[w].net, sock[w].done, sock[w].wrote)
    BY <1>2, <2>2, <2>4, <2>5, SockSet, Zenon
  <2>7. /\ d.who = g_conns[loop.fd].who /\ sock[w].done = sock[w].wrote + Unsent(d)
        /\ SockIs(d.who, sock[d.who].net, sock[w].done, sock[w].wrote)
    BY <1>2, <1>8, <1>10, <1>13, <2>6, Zenon
  <2>8. /\ loop' \in LoopRec /\ loop.at \in {"read", "flush"} /\ loop'.at = "read"
        /\ loop'.at \in {"read", "flush", "next"} /\ loop'.at # "next"
        /\ loop'.fd = loop.fd /\ loop'.batch = loop.batch
    BY <1>1, <1>16, <2>2
  <2> QED
    BY <1>1, <2>1, <2>3, <2>7, <2>8, ServeStep, Zenon
<1> QED
  BY <1>1, <1>14, <1>15, <1>16, Zenon

(* A write takes what the socket has room for; the rest stays queued.      *)
LEMMA WriteStep ==
  ASSUME LoopFacts, Inv, Write
  PROVE  Inv'
<1> DEFINE c == g_conns[loop.fd]
           w == c.who
           s == c.out_sent
           l == Len(c.out)
           n == Min({SendBuf - Peer(loop.fd).wbuf, l - s})
           t == s + n
           d == [c EXCEPT !.out_sent = t]
           k == Count(c.out, "ok", s + 1, t)
           v == sock[w].wrote + k
           a == sock[w].wbuf + n
           z == [sock[w] EXCEPT !.wbuf = a, !.wrote = v]
<1>1. /\ loop.at = "flush" /\ UNCHANGED <<flag, loop, backlog>>
      /\ g_conns' = [g_conns EXCEPT ![loop.fd] = d] /\ sock' = [sock EXCEPT ![w] = z]
  BY ZenonT(40) DEF Write, Advance
<1>2. /\ loop.fd \in Fds /\ c \in GoodConn /\ w \in Clients /\ sock[w] \in SockRec
      /\ Peer(loop.fd) = sock[w] /\ Parsed(c)
      /\ sock[w].done = sock[w].wrote + Unsent(c)
      /\ sock[w].done \in Nat /\ sock[w].wrote \in Nat /\ sock[w].wbuf \in 0 .. SendBuf
  BY <1>1, HandledIs, Zenon
<1>3. c \in ConnRec /\ s \in Nat /\ l \in Nat /\ s <= l /\ Len(c.in) <= MAX_CONN_INPUT_BUF
  <2>1. s \in 0 .. l /\ l \in Nat
    BY <1>2, ConnOf, Zenon
  <2> QED
    BY <1>2, <2>1, ConnOf
<1>4. n \in Nat /\ n <= SendBuf - sock[w].wbuf /\ n <= l - s
  <2> DEFINE S == {SendBuf - Peer(loop.fd).wbuf, l - s}
  <2>1. S \in SUBSET Nat /\ S # {} /\ SendBuf - sock[w].wbuf \in S /\ l - s \in S
    <3>1. SendBuf \in Nat
      BY LoopAssumption
    <3>2. SendBuf - sock[w].wbuf \in Nat /\ l - s \in Nat
      BY <1>2, <1>3, <3>1, SMTT(30)
    <3>3. Peer(loop.fd).wbuf = sock[w].wbuf
      BY <1>2, Zenon
    <3> HIDE DEF w, l, s
    <3> QED
      BY <3>2, <3>3, Zenon
  <2>2. Min(S) \in S /\ \A y \in S : Min(S) <= y
    BY <2>1, MinIs, Zenon
  <2> HIDE DEF S
  <2>3. Min(S) \in Nat /\ Min(S) <= SendBuf - sock[w].wbuf /\ Min(S) <= l - s
    BY <2>1, <2>2, Zenon
  <2> QED
    BY <2>3, Zenon DEF S
<1>5. w = g_conns[loop.fd].who
  OBVIOUS
<1> HIDE DEF n, c, s, l, w
<1>6. /\ t \in Nat /\ s <= t /\ t <= l /\ a \in 0 .. SendBuf
      /\ s + 1 \in Int /\ t \in Int /\ l \in Int /\ s + 1 <= t + 1
  BY <1>2, <1>3, <1>4, LoopAssumption, SMTT(30)
<1> HIDE DEF t, a
<1>7. k \in Nat /\ v \in Nat
  <2>1. k \in Nat
    BY <1>6, CountIs, Zenon
  <2> HIDE DEF k
  <2> QED
    BY <1>2, <2>1
<1> HIDE DEF k
<1>8. /\ d \in ConnRec /\ d.who = w /\ d.in = c.in /\ d.out = c.out /\ d.out_sent = t
      /\ d.closing = c.closing
  BY <1>3, <1>6, Zenon DEF ConnRec, w
<1>9. v = sock[w].wrote + k
  OBVIOUS
<1> HIDE DEF d, v
<1>10. /\ z \in SockRec /\ z.net = sock[w].net /\ z.done = sock[w].done /\ z.wrote = v
  BY <1>2, <1>6, <1>7, Zenon DEF SockRec
<1> HIDE DEF z
<1>11. d \in GoodConn /\ d \in Slots /\ Parsed(d)
  <2>1. d \in GoodConn
    BY <1>3, <1>6, <1>8 DEF GoodConn, l
  <2> QED
    BY <1>2, <1>8, <2>1, ConnOf, Zenon DEF Parsed
<1>12. sock[w].done = v + Unsent(d)
  <2>1. \A j \in s + 1 .. t : c.out[j] = c.out[j]
    OBVIOUS
  <2> DEFINE y == s + 1
  <2>2. y \in Int /\ y <= t + 1 /\ \A j \in y .. t : c.out[j] = c.out[j]
    BY <1>6, <2>1
  <2> HIDE DEF y
  <2>3. Count(c.out, "ok", y, l) = Count(c.out, "ok", y, t) + Count(c.out, "ok", t + 1, l)
    BY <1>6, <2>2, CountSplit
  <2>4. t + 1 \in Int
    BY <1>6
  <2>5. Count(c.out, "ok", t + 1, l) \in Nat
    BY <1>6, <2>4, CountIs, Zenon
  <2>6. Unsent(c) = k + Count(c.out, "ok", t + 1, l)
    BY <2>3, Zenon DEF Unsent, k, y, s, l
  <2>7. Unsent(d) = Count(c.out, "ok", t + 1, l)
    BY <1>8, Zenon DEF Unsent, l
  <2> QED
    BY <1>2, <1>7, <1>9, <2>5, <2>6, <2>7, SMTT(30)
<1>13. g_conns \in [Fds -> Slots] /\ sock \in [Clients -> SockRec] /\ loop \in LoopRec
  BY DEF Inv, Typed
<1>14. SlotIs(loop.fd, d)
  BY <1>1, <1>2, <1>11, <1>13, SlotSet, Zenon
<1>15. SockIs(w, sock[w].net, sock[w].done, v)
  BY <1>1, <1>2, <1>10, <1>13, SockSet, Zenon
<1>16. /\ d.who = g_conns[loop.fd].who
       /\ SockIs(d.who, sock[d.who].net, sock[w].done, v)
  BY <1>5, <1>8, <1>15, Zenon
<1>17. /\ loop' \in LoopRec /\ loop.at \in {"read", "flush"}
       /\ loop'.at \in {"read", "flush", "next"} /\ loop'.at # "next"
       /\ loop'.fd = loop.fd /\ loop'.batch = loop.batch
  BY <1>1, <1>13
<1> QED
  BY <1>1, <1>11, <1>12, <1>14, <1>16, <1>17, ServeStep, Zenon

(* conn_service_output is through: EPOLLOUT is armed for what is left, or  *)
(* disarmed since nothing is.                                              *)
LEMMA ServicedStep ==
  ASSUME LoopFacts, Inv, WriteBlocks \/ Flushed
  PROVE  Inv'
<1> DEFINE c == g_conns[loop.fd]
           w == c.who
<1>1. /\ loop.at = "flush" /\ Serviced /\ UNCHANGED <<flag, backlog, sock>>
      /\ \/ /\ c.out_sent < Len(c.out) /\ g_conns' = [g_conns EXCEPT ![loop.fd] = Armed(c)]
         \/ /\ ~c.closing /\ c.out_sent = Len(c.out)
            /\ g_conns' = [g_conns EXCEPT ![loop.fd] = Emptied(c)]
  BY Zenon DEF WriteBlocks, Flushed
<1>2. /\ loop.fd \in Fds /\ c \in GoodConn /\ w \in Clients /\ Parsed(c)
      /\ sock[w].done = sock[w].wrote + Unsent(c)
      /\ w = g_conns[loop.fd].who
  BY <1>1, HandledIs, Zenon
<1>3. /\ c \in ConnRec /\ Len(c.in) <= MAX_CONN_INPUT_BUF /\ Len(c.out) \in Nat
      /\ c.out_sent \in Nat /\ c.out_sent <= Len(c.out)
  <2>1. c.out_sent \in 0 .. Len(c.out) /\ Len(c.out) \in Nat
    BY <1>2, ConnOf, Zenon
  <2> QED
    BY <1>2, <2>1, ConnOf
<1>4. g_conns \in [Fds -> Slots] /\ sock \in [Clients -> SockRec] /\ loop \in LoopRec
  BY DEF Inv, Typed
<1>5. /\ loop' \in LoopRec /\ loop'.at \in {"read", "flush", "next"} /\ loop'.at # "read"
      /\ loop'.fd = loop.fd /\ loop'.batch = loop.batch /\ loop.at \in {"read", "flush"}
  BY <1>1, <1>4, Zenon DEF Serviced, LoopRec
<1>6. SockIs(w, sock[w].net, sock[w].done, sock[w].wrote)
  BY <1>1, <1>4, Zenon DEF SockIs
<1> HIDE DEF c, w
<1>7. ASSUME NEW d \in GoodConn, d.who = w, g_conns' = [g_conns EXCEPT ![loop.fd] = d],
             ArmedRight(d), Parsed(d), Unsent(d) = Unsent(c)
      PROVE  Inv'
  <2>1. d \in Slots
    BY ConnOf, Zenon
  <2>2. SlotIs(loop.fd, d)
    BY <1>2, <1>4, <1>7, <2>1, SlotSet, Zenon
  <2>3. /\ d.who = g_conns[loop.fd].who /\ sock[w].done = sock[w].wrote + Unsent(d)
        /\ SockIs(d.who, sock[d.who].net, sock[w].done, sock[w].wrote)
    BY <1>2, <1>6, <1>7, Zenon
  <2> QED
    BY <1>1, <1>5, <1>7, <2>2, <2>3, ServeStep, Zenon
<1>8. CASE c.out_sent < Len(c.out) /\ g_conns' = [g_conns EXCEPT ![loop.fd] = Armed(c)]
  <2> DEFINE d == Armed(c)
  <2>1. /\ d \in ConnRec /\ d.who = w /\ d.in = c.in /\ d.out = c.out
        /\ d.out_sent = c.out_sent /\ d.closing = c.closing /\ d.want_write = TRUE
    BY <1>3, Zenon DEF Armed, ConnRec, w
  <2> HIDE DEF d
  <2>2. d \in GoodConn /\ ArmedRight(d)
    BY <1>3, <1>8, <2>1 DEF GoodConn, ArmedRight
  <2>3. Parsed(d) /\ Unsent(d) = Unsent(c)
    BY <1>2, <2>1, Zenon DEF Parsed, Unsent
  <2> QED
    BY <1>7, <1>8, <2>1, <2>2, <2>3, Zenon DEF d
<1>9. CASE /\ ~c.closing /\ c.out_sent = Len(c.out)
           /\ g_conns' = [g_conns EXCEPT ![loop.fd] = Emptied(c)]
  <2> DEFINE d == Emptied(c)
  <2>1. <<>> \in Seq(Reply) /\ 0 \in Nat /\ FALSE \in BOOLEAN
    OBVIOUS
  <2>2. /\ d \in ConnRec /\ d.who = w /\ d.in = c.in /\ d.out = <<>>
        /\ d.out_sent = 0 /\ d.closing = c.closing /\ d.want_write = FALSE
    BY <1>3, <2>1, Zenon DEF Emptied, ConnRec, w
  <2> HIDE DEF d
  <2>3. d \in GoodConn /\ ArmedRight(d)
    BY <1>3, <1>9, <2>2 DEF GoodConn, ArmedRight
  <2>4. Parsed(d)
    BY <1>2, <2>2, Zenon DEF Parsed
  <2>5. Unsent(c) = 0
    <3>1. \A j \in c.out_sent + 1 .. Len(c.out) : c.out[j] # "ok"
      BY <1>3, <1>9
    <3>2. c.out_sent + 1 \in Int /\ Len(c.out) \in Int
      BY <1>3
    <3> QED
      BY <3>1, <3>2, CountNone, Zenon DEF Unsent
  <2>6. Unsent(d) = 0
    <3>1. \A j \in 0 + 1 .. 0 : d.out[j] # "ok"
      OBVIOUS
    <3>2. Count(d.out, "ok", 0 + 1, 0) = 0
      BY <3>1, CountNone
    <3>3. Len(d.out) = 0
      BY <2>2
    <3> QED
      BY <2>2, <3>2, <3>3, SMTT(30) DEF Unsent
  <2> QED
    BY <1>7, <1>9, <2>2, <2>3, <2>4, <2>5, <2>6, Zenon DEF d
<1> QED
  BY <1>1, <1>8, <1>9, Zenon
-----------------------------------------------------------------------------
(* The server starts with nothing connected.                               *)
LEMMA InitInv == Init => Inv
<1> SUFFICES ASSUME Init
             PROVE  Inv
  OBVIOUS
<1>1. \A f \in Fds : g_conns[f].who = Null /\ ~Present(f)
  BY Zenon DEF Init, Free, Present
<1>2. \A c \in Clients : /\ sock[c].net = "new" /\ sock[c].done = 0 /\ sock[c].wrote = 0
  BY Zenon DEF Init
<1>3. Typed
  <2>1. flag \in BOOLEAN
    BY Zenon DEF Init
  <2>2. loop \in LoopRec
    <3>1. <<>> \in Seq(EventRec)
      OBVIOUS
    <3> QED
      BY <3>1, Zenon DEF Init, LoopRec
  <2>3. backlog \in Seq(Clients)
    BY DEF Init
  <2>4. g_conns \in [Fds -> Slots]
    BY Zenon DEF Init, Slots
  <2>5. sock \in [Clients -> SockRec]
    <3>1. <<>> \in Seq(Unit) /\ 0 \in 0 .. SendBuf /\ 0 \in Nat
      BY LoopAssumption
    <3> QED
      BY <3>1, Zenon DEF Init, SockRec
  <2> QED
    BY <2>1, <2>2, <2>3, <2>4, <2>5, SMTT(30) DEF Typed
<1>4. Handling
  BY DEF Init, Handling
<1>5. Table
  BY <1>1, <1>2, Zenon DEF Table
<1>6. Backlogged
  BY <1>2 DEF Init, Backlogged
<1>7. Served
  BY <1>1, Zenon DEF Served
<1> QED
  BY <1>3, <1>4, <1>5, <1>6, <1>7, SMTT(30) DEF Inv

(* Every step of the loop, of a client and of a signal keeps Inv.          *)
LEMMA NextInv ==
  ASSUME LoopFacts, Inv, [Next]_vars
  PROVE  Inv'
<1>1. CASE \E c \in Clients : Connect(c) \/ Send(c) \/ Receive(c) \/ Leave(c) \/ Reset(c)
  BY <1>1, ConnectStep, SendStep, ReceiveStep, LeaveStep, Zenon
<1>2. CASE on_shutdown_signal
  BY <1>2, SignalStep, Zenon
<1>3. CASE LoopStep
  BY <1>3, CheckShutdownStep, MoveSteps, EpollWaitStep, NextEventStep, AcceptStep,
     ReadStep, ReadBlocksStep, EndSteps, WriteStep, ServicedStep, ZenonT(40) DEF LoopStep
<1>4. CASE UNCHANGED vars
  BY <1>4, ZenonT(40) DEF vars, Inv, Typed, Handling, Table, Backlogged, Served, Present, Peer
<1> QED
  BY <1>1, <1>2, <1>3, <1>4, Zenon DEF Next

-----------------------------------------------------------------------------
(* The facts about finite sets, from the library. *)
INSTANCE FiniteSetTheorems

LEMMA LoopFactsHold == LoopFacts
<1>1. Least
  <2>1. IsWellFoundedOn(OpToRel(<, Nat), Nat)
    BY NatLessThanWellFounded, Zenon
  <2>2. \A S \in SUBSET Nat : S # {} =>
          \E x \in S : \A y \in S : ~ (<<y, x>> \in OpToRel(<, Nat))
    BY <2>1, WFMin, Zenon
  <2>3. \A x, y \in Nat : y < x => <<y, x>> \in OpToRel(<, Nat)
    BY Zenon DEF OpToRel
  <2>4. \A S \in SUBSET Nat : S # {} => \E x \in S : \A y \in S : ~ (y < x)
    BY <2>2, <2>3, Zenon
  <2>5. \A x, y \in Nat : ~ (y < x) => x <= y
    OBVIOUS
  <2>6. QED
    BY <2>4, <2>5, Zenon DEF Least
<1>2. CountType
  BY FS_EmptySet, FS_CardinalityType DEF CountType
<1>3. IntervalCount
  BY FS_Interval DEF IntervalCount
<1>4. SubsetCount
  BY FS_Subset DEF SubsetCount
<1>5. AddCount
  BY FS_AddElement DEF AddCount
<1>6. UnionCount
  BY FS_Union DEF UnionCount
<1> QED
  BY <1>1, <1>2, <1>3, <1>4, <1>5, <1>6, Zenon DEF LoopFacts

(* In every state of the server, for every number of clients and           *)
(* descriptors and every size of its buffers, the table of connections,    *)
(* the events left, the backlog and each conn_t agree as Inv says.         *)
THEOREM Invariance == Spec => []Inv
<1>1. Inv /\ [Next]_vars => Inv'
  BY LoopFactsHold, NextInv
<1> QED
  BY <1>1, InitInv, PTL DEF Spec

(* Type correctness of the loop: g_conns never holds more input than the   *)
(* limit, and out_sent never passes the end of the output.                 *)
THEOREM TypeCorrect == Spec => []TypeOK
<1>1. ASSUME Inv
      PROVE  TypeOK
  <2>1. Typed
    BY <1>1 DEF Inv
  <2>2. /\ loop.at \in {"check", "enter", "wait", "next", "accept", "read", "flush",
                        "exited"}
        /\ loop.fd \in Fds \cup {Listen} /\ loop.ev \subseteq {"out"}
    BY <2>1 DEF Typed, LoopRec
  <2>3. \A i \in DOMAIN loop.batch : loop.batch[i] \in EventRec
    BY <2>1, BatchIs
  <2>4. ASSUME NEW f \in Fds, Present(f)
        PROVE  /\ g_conns[f].who \in Clients
               /\ g_conns[f].in \in Seq(Unit) /\ Len(g_conns[f].in) <= MAX_CONN_INPUT_BUF
               /\ g_conns[f].out \in Seq({"ok", "err"})
               /\ g_conns[f].out_sent \in 0 .. Len(g_conns[f].out)
               /\ g_conns[f].closing \in BOOLEAN /\ g_conns[f].want_write \in BOOLEAN
    <3>1. g_conns[f] \in GoodConn
      BY <2>1, <2>4, PresentIs, Zenon
    <3> QED
      BY <3>1, ConnOf, Zenon DEF Reply
  <2> QED
    BY <2>1, <2>2, <2>3, <2>4, ZenonT(40) DEF TypeOK, Typed, EventRec, SockRec
<1> QED
  BY <1>1, Invariance, PTL

(* conn_update_epoll_mask leaves EPOLLOUT armed exactly while output is    *)
(* left, and no connection to be closed is forgotten.                      *)
THEOREM OutputIsArmed == Spec => []OutputArmed
<1>1. Inv => OutputArmed
  BY Zenon DEF Inv, Served, ArmedRight, OutputArmed, Waiting
<1> QED
  BY <1>1, Invariance, PTL

(* conn_process_input is run to the end after every read, whatever the     *)
(* sizes: no whole command waits in a buffer that epoll does not watch.    *)
THEOREM NothingLeftBehind == Spec => []NoCommandLeftBehind
<1>1. ASSUME Inv
      PROVE  NoCommandLeftBehind
  <2> SUFFICES ASSUME NEW f \in Fds, Waiting(f), ~g_conns[f].closing,
                      NEW i \in DOMAIN g_conns[f].in
               PROVE  g_conns[f].in[i] = "part"
    BY DEF NoCommandLeftBehind
  <2>1. Present(f) /\ ~(loop.at = "read" /\ loop.fd = f) /\ Typed
    BY <1>1 DEF Waiting, Inv
  <2>2. Parsed(g_conns[f])
    BY <1>1, <2>1, Zenon DEF Inv, Served
  <2>3. g_conns[f].in \in Seq(Unit)
    BY <2>1, PresentIs, ConnOf, Zenon
  <2>4. i \in 1 .. Len(g_conns[f].in)
    BY <2>3, SMTT(30)
  <2> QED
    BY <2>2, <2>4, Zenon DEF Parsed
<1> QED
  BY <1>1, Invariance, PTL

(* Partial writes neither lose a reply nor send one twice: every command   *)
(* done is a reply in the kernel's hands or in the queue.                  *)
THEOREM RepliesAreExact == Spec => []RepliesExact
<1>1. Inv => RepliesExact
  BY Zenon DEF Inv, Served, RepliesExact, Unsent, Peer
<1> QED
  BY <1>1, Invariance, PTL

(* handle_listen_readable and conn_close keep g_conns exact: an open       *)
(* connection has one entry and a closed one none.                         *)
THEOREM TableIsExact == Spec => []TableExact
<1>1. ASSUME Inv
      PROVE  TableExact
  <2> SUFFICES ASSUME NEW c \in Clients
               PROVE  Cardinality({f \in Fds : g_conns[f].who = c})
                        = IF sock[c].net = "open" THEN 1 ELSE 0
    BY DEF TableExact
  <2> DEFINE S == {f \in Fds : g_conns[f].who = c}
  <2>1. \A f \in S : Present(f) /\ Peer(f) = sock[c]
    BY <1>1, PresentIs, Zenon DEF Inv, Peer
  <2>2. CASE sock[c].net = "open"
    <3>1. PICK f \in Fds : g_conns[f].who = c
      BY <1>1, <2>2, Zenon DEF Inv, Table
    <3>2. S = {f}
      BY <1>1, <2>1, <3>1, ZenonT(40) DEF Inv, Table
    <3>3. Cardinality({f}) = 1
      <4>1. {f} = {} \cup {f}
        OBVIOUS
      <4> QED
        BY <4>1, LoopFactsHold DEF LoopFacts, CountType, AddCount
    <3> QED
      BY <2>2, <3>2, <3>3, Zenon
  <2>3. CASE sock[c].net # "open"
    <3>1. S = {}
      BY <1>1, <2>1, <2>3, ZenonT(40) DEF Inv, Table
    <3> QED
      BY <2>3, <3>1, LoopFactsHold, Zenon DEF LoopFacts, CountType
  <2> QED
    BY <2>2, <2>3, Zenon
<1> QED
  BY <1>1, Invariance, PTL

(* The loop over the events never handles one for another connection than  *)
(* epoll_wait reported, though descriptors are closed and accepted in it.  *)
THEOREM EventsAreFresh == Spec => []FreshEvents
<1>1. ASSUME Inv
      PROVE  FreshEvents
  <2>1. DOMAIN loop.batch = 1 .. Len(loop.batch)
    BY <1>1, BatchIs DEF Inv
  <2> QED
    BY <1>1, <2>1, Zenon DEF FreshEvents, Inv, Handling
<1> QED
  BY <1>1, Invariance, PTL
=============================================================================
